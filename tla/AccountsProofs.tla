--------------------------- MODULE AccountsProofs ---------------------------
(***************************************************************************)
(* Organizations and sessions stay as Accounts promises, for any number    *)
(* of users and of overlapping requests.                                   *)
(***************************************************************************)
EXTENDS Accounts, TLAPS

\* A row is never NoUser: an address is not None.
LEMMA RowsExist ==
  /\ NoUser \notin User
  /\ \A row \in User : row.email \in Emails /\ row.email # None /\ row.role \in Roles
  /\ NoUser.email = None /\ NoUser.org = None
BY AccountsAssumption DEF NoUser, User

\* What a step does to one user's row: nothing, an insert or a patch.
LEMMA RowsStep ==
  ASSUME TypeOK, [Next]_vars
  PROVE  \/ users' = users /\ orgs' = orgs
         \/ \E h \in Handlers, u \in Users, o \in Orgs \cup {None} : InsertUser(h, u, o)
         \/ \E u \in Users, p \in Patch : adminUpdate(u, p)
BY DEF Next, ChangeUser, Work, ReceiveAuth, ReceiveUser, Register, CreateUser, RefuseUser,
   RefuseDuplicate, Login, Validate,
       RefuseSession, Refresh, RefuseRefresh, StoreToken, HandlerFails, Logout, softDelete,
       RefuseUpdate, rows, vars

\* A patch keeps the organization and writes an address nobody else has.
LEMMA PatchKeepsOrg ==
  ASSUME TypeOK, NEW u \in Users, NEW p \in Patch, adminUpdate(u, p)
  PROVE  /\ users' \in [Users -> User \cup {NoUser}]
         /\ users[u] \in User /\ users'[u] \in User
         /\ users'[u].org = users[u].org
         /\ users'[u].email = IF p.email = None THEN users[u].email ELSE p.email
         /\ \A v \in Users \ {u} : users'[v] = users[v]
<1>1. users[u] \in User
  BY DEF adminUpdate, Live, Exists, TypeOK, RowsOK
<1>2. PICK row \in Patched(users[u], p) : users' = [users EXCEPT ![u] = row]
  BY DEF adminUpdate
<1>3. /\ row \in User /\ row.org = users[u].org
      /\ row.email = IF p.email = None THEN users[u].email ELSE p.email
  BY <1>1, <1>2 DEF Patched, User, Patch
<1> QED
  BY <1>1, <1>2, <1>3 DEF TypeOK, RowsOK

LEMMA InOrganizationRow ==
  ASSUME NEW row \in User, NEW o \in Orgs \cup {None}
  PROVE  /\ InOrganization(row, o) \in User /\ InOrganization(row, o).org = o
         /\ InOrganization(row, o).email = row.email
         /\ InOrganization(row, o).role = row.role
BY DEF InOrganization, User

\* The row that an insert adds.
LEMMA InsertAddsRow ==
  ASSUME TypeOK, NEW h \in Handlers, NEW u \in Users, NEW o \in Orgs \cup {None},
         InsertUser(h, u, o)
  PROVE  /\ users' \in [Users -> User \cup {NoUser}]
         /\ users[u] = NoUser /\ users'[u] \in User
         /\ users'[u].org = o /\ users'[u].email = req[h].row.email
         /\ users'[u].role = req[h].row.role
         /\ \A v \in Users \ {u} : users'[v] = users[v]
         /\ orgs' \subseteq Orgs /\ orgs \subseteq orgs' /\ orgs' \subseteq orgs \cup {o}
         /\ o # None => o \in orgs'
<1>1. req[h].row \in User /\ users' = [users EXCEPT ![u] = InOrganization(req[h].row, o)]
  BY DEF InsertUser, TypeOK, RowsOK, RequestOK
<1>2. InOrganization(req[h].row, o) \in User
  BY <1>1, InOrganizationRow
<1> QED
  BY <1>1, <1>2, InOrganizationRow, AccountsAssumption DEF InsertUser, Exists, TypeOK, RowsOK,
     RequestOK, User

LEMMA InitIInv == Init => IInv
BY RowsExist
   DEF Init, IInv, TypeOK, RowsOK, RequestOK, States, OrganizationsHaveMembers,
      RequestsResolved, Exists, Nothing

\* A step of one request, over rows that stay.
LEMMA GoKeepsType ==
  ASSUME TypeOK, RowsOK', orgs \subseteq orgs', \A v \in Users : Exists(v) => Exists(v)',
         NEW h \in Handlers, NEW at \in States,
         NEW u \in Users \cup {None}, NEW row \in User \cup {NoUser}, Go(h, at, u, row),
         at \in {"register", "create"} => row \in User /\ row.org \in orgs' \cup {None},
         at \in {"refresh", "tokens"} => u \in Users /\ Exists(u)'
  PROVE  TypeOK'
<1>1. /\ pc' \in [Handlers -> States]
      /\ req' \in [Handlers -> [user : Users \cup {None}, row : User \cup {NoUser}]]
  BY DEF Go, TypeOK
<1>2. RequestOK(h)'
  BY DEF Go, TypeOK, RequestOK
<1>3. ASSUME NEW g \in Handlers \ {h} PROVE RequestOK(g)'
  <2>1. pc'[g] = pc[g] /\ req'[g] = req[g]
    BY DEF Go, TypeOK
  <2> QED
    BY <2>1 DEF TypeOK, RequestOK
<1> QED
  BY <1>1, <1>2, <1>3 DEF TypeOK

LEMMA RowsStay == rows' = rows /\ TypeOK => RowsOK' /\ \A v \in Users : Exists(v)' = Exists(v)
BY DEF rows, TypeOK, RowsOK, Exists

LEMMA TypeStep == TypeOK /\ [Next]_vars => TypeOK'
<1> SUFFICES ASSUME TypeOK, [Next]_vars PROVE TypeOK'
  OBVIOUS
<1>a. CASE UNCHANGED vars
  BY <1>a, RowsStay DEF vars, rows, TypeOK, RequestOK
<1>1. ASSUME NEW h \in Handlers, NEW e \in Emails, NEW r \in Roles, NEW o \in orgs \cup {None},
             Register(h, e, r) \/ CreateUser(h, e, r, o)
      PROVE  TypeOK'
  <2>1. /\ [email |-> e, role |-> r, org |-> None] \in User
        /\ [email |-> e, role |-> r, org |-> o] \in User
    BY DEF TypeOK, RowsOK, User
  <2> QED
    BY <1>1, <2>1, RowsStay, GoKeepsType DEF Register, CreateUser, rows, States
<1>2. ASSUME NEW h \in Handlers, NEW u \in Users, Login(h, u) \/ Validate(h, u) PROVE TypeOK'
  <2>1. Exists(u) /\ users[u] \in User \cup {NoUser}
    BY <1>2 DEF Login, Validate, Live, TypeOK, RowsOK
  <2> QED
    BY <1>2, <2>1, RowsStay, GoKeepsType DEF Login, Validate, rows, States
<1>3. ASSUME NEW h \in Handlers, NEW u \in Users, NEW o \in Orgs \cup {None}, InsertUser(h, u, o)
      PROVE  TypeOK'
  <2>1. /\ \A v \in Users : users'[v].org \in orgs' \cup {None} /\ (Exists(v) => Exists(v)')
        /\ Exists(u)' /\ orgs \subseteq orgs'
    BY <1>3, InsertAddsRow, RowsExist DEF TypeOK, RowsOK, Exists
  <2>2. RowsOK'
    BY <1>3, <2>1, InsertAddsRow DEF InsertUser, TypeOK, RowsOK
  <2>3. InOrganization(req[h].row, o) \in User
    BY <1>3, InOrganizationRow DEF InsertUser, TypeOK, RequestOK
  <2>4. \/ Go(h, "tokens", u, InOrganization(req[h].row, o))
        \/ Go(h, "idle", None, NoUser)
    BY <1>3 DEF InsertUser, Finish
  <2> QED
    BY <2>1, <2>2, <2>3, <2>4, GoKeepsType DEF States
<1>4. ASSUME NEW h \in Handlers,
             RefuseDuplicate(h) \/ RefuseRefresh(h) \/ HandlerFails(h) \/ Refresh(h)
      PROVE  TypeOK'
  <2>1. rows' = rows
    BY <1>4 DEF RefuseDuplicate, RefuseRefresh, HandlerFails, Refresh
  <2>2. CASE Finish(h)
    BY <2>1, <2>2, RowsStay, GoKeepsType DEF Finish, rows, States
  <2>3. CASE Refresh(h)
    <3>1. req[h].user \in Users /\ Exists(req[h].user) /\ users[req[h].user] \in User \cup {NoUser}
      BY <2>3 DEF Refresh, TypeOK, RequestOK, RowsOK
    <3> QED
      BY <2>1, <2>3, <3>1, RowsStay, GoKeepsType DEF Refresh, rows, States
  <2> QED
    BY <1>4, <2>2, <2>3 DEF RefuseDuplicate, RefuseRefresh, HandlerFails
<1>5. ASSUME NEW h \in Handlers, StoreToken(h) PROVE TypeOK'
  <2>1. RowsOK' /\ orgs' = orgs /\ \A v \in Users : Exists(v) = Exists(v)'
    BY <1>5 DEF StoreToken, TypeOK, RowsOK, RequestOK, Exists
  <2> QED
    BY <1>5, <2>1, GoKeepsType DEF StoreToken, Finish, States
<1>6. ASSUME NEW u \in Users, Logout(u) \/ softDelete(u) PROVE TypeOK'
  BY <1>6 DEF Logout, softDelete, TypeOK, RowsOK, RequestOK, Exists
<1>7. ASSUME NEW u \in Users, NEW p \in Patch, adminUpdate(u, p) PROVE TypeOK'
  <2>1. \A v \in Users : users'[v].org = users[v].org /\ (Exists(v) => Exists(v)')
    BY <1>7, PatchKeepsOrg, RowsExist DEF Exists
  <2>2. removed' = removed /\ orgs' = orgs /\ tokens' = tokens /\ pc' = pc /\ req' = req
    BY <1>7 DEF adminUpdate
  <2> QED
    BY <1>7, <2>1, <2>2, PatchKeepsOrg DEF TypeOK, RowsOK, RequestOK
<1> QED
  BY <1>a, <1>1, <1>2, <1>3, <1>4, <1>5, <1>6, <1>7
     DEF Next, ChangeUser, Work, ReceiveAuth, ReceiveUser, RefuseUser, RefuseSession, RefuseUpdate

\* Organizations and their members depend on the rows alone.
LEMMA RowsInv ==
  ASSUME IInv, [Next]_vars
  PROVE  /\ OrganizationsHaveMembers'
         /\ \A u \in Users : Exists(u) => users'[u].org = users[u].org
<1>1. CASE users' = users /\ orgs' = orgs
  BY <1>1 DEF IInv, OrganizationsHaveMembers, Exists
<1>2. ASSUME NEW h \in Handlers, NEW u \in Users, NEW o \in Orgs \cup {None}, InsertUser(h, u, o)
      PROVE  /\ OrganizationsHaveMembers'
             /\ \A v \in Users : Exists(v) => users'[v].org = users[v].org
  <2>1. OrganizationsHaveMembers'
    BY <1>2, InsertAddsRow, RowsExist, AccountsAssumption DEF IInv, OrganizationsHaveMembers,
       TypeOK, RowsOK
  <2> QED
    BY <1>2, <2>1, InsertAddsRow DEF Exists, IInv
<1>3. ASSUME NEW u \in Users, NEW p \in Patch, adminUpdate(u, p)
      PROVE  /\ OrganizationsHaveMembers'
             /\ \A v \in Users : Exists(v) => users'[v].org = users[v].org
  <2>1. orgs' = orgs /\ \A v \in Users : users'[v].org = users[v].org
    BY <1>3, PatchKeepsOrg DEF adminUpdate, IInv
  <2> QED
    BY <2>1 DEF IInv, OrganizationsHaveMembers
<1> QED
  BY <1>1, <1>2, <1>3, RowsStep DEF IInv

\* Who is about to sign tokens after a step: who was before, or whoever has just
\* read or inserted the row.
LEMMA SigningStep ==
  ASSUME TypeOK, [Next]_vars, NEW g \in Handlers, pc'[g] = "tokens"
  PROVE  \/ pc[g] = "tokens" /\ req'[g] = req[g]
         \/ \E u \in Users : /\ Live(u) /\ users' = users
                             /\ Login(g, u) \/ (Refresh(g) /\ req[g].user = u)
                             /\ req'[g].user = u /\ req'[g].row = users[u]
         \/ \E u \in Users, o \in Orgs \cup {None} :
              /\ InsertUser(g, u, o)
              /\ req'[g].user = u /\ req'[g].row = InOrganization(req[g].row, o)
<1> DEFINE Kept == pc[g] = "tokens" /\ req'[g] = req[g]
           Read == \E u \in Users : /\ Live(u) /\ users' = users
                                    /\ Login(g, u) \/ (Refresh(g) /\ req[g].user = u)
                                    /\ req'[g].user = u /\ req'[g].row = users[u]
           Inserted == \E u \in Users, o \in Orgs \cup {None} :
                         /\ InsertUser(g, u, o)
                         /\ req'[g].user = u /\ req'[g].row = InOrganization(req[g].row, o)
<1>0. CASE pc' = pc /\ req' = req
  BY <1>0
<1>1. ASSUME NEW h \in Handlers,
             \/ \E e \in Emails, r \in Roles :
                  Register(h, e, r) \/ \E o \in orgs \cup {None} : CreateUser(h, e, r, o)
             \/ \E u \in Users : Validate(h, u)
             \/ RefuseDuplicate(h) \/ RefuseRefresh(h) \/ StoreToken(h) \/ HandlerFails(h)
      PROVE  Kept
  BY <1>1 DEF Register, CreateUser, Validate, RefuseDuplicate, RefuseRefresh, StoreToken,
              HandlerFails, Finish, Go, TypeOK
<1>2. ASSUME NEW h \in Handlers, NEW u \in Users, Login(h, u) PROVE Kept \/ Read
  <2>1. CASE g = h
    <3>1. Live(u) /\ users' = users /\ req'[g].user = u /\ req'[g].row = users[u]
      BY <1>2, <2>1 DEF Login, Go, rows, TypeOK
    <3> QED
      BY <1>2, <2>1, <3>1
  <2>2. CASE g # h
    BY <1>2, <2>2 DEF Login, Go, TypeOK
  <2> QED
    BY <2>1, <2>2
<1>3. ASSUME NEW h \in Handlers, Refresh(h) PROVE Kept \/ Read
  <2>1. req[h].user \in Users
    BY <1>3 DEF Refresh, TypeOK, RequestOK
  <2>2. CASE g = h
    <3>1. /\ Live(req[g].user) /\ users' = users
          /\ req'[g].user = req[g].user /\ req'[g].row = users[req[g].user]
      BY <1>3, <2>2 DEF Refresh, Go, rows, TypeOK
    <3> QED
      BY <1>3, <2>1, <2>2, <3>1
  <2>3. CASE g # h
    BY <1>3, <2>3 DEF Refresh, Go, TypeOK
  <2> QED
    BY <2>2, <2>3
<1>4. ASSUME NEW h \in Handlers, NEW u \in Users, NEW o \in Orgs \cup {None}, InsertUser(h, u, o)
      PROVE  Kept \/ Inserted
  <2>1. \/ Go(h, "tokens", u, InOrganization(req[h].row, o))
        \/ Go(h, "idle", None, NoUser)
    BY <1>4 DEF InsertUser, Finish
  <2>2. CASE g = h
    <3>1. req'[g].user = u /\ req'[g].row = InOrganization(req[g].row, o)
      BY <2>1, <2>2 DEF Go, TypeOK
    <3> QED
      BY <1>4, <2>2, <3>1
  <2>3. CASE g # h
    BY <2>1, <2>3 DEF Go, TypeOK
  <2> QED
    BY <2>2, <2>3
<1> HIDE DEF Kept, Read, Inserted
<1>5. ASSUME NEW h \in Handlers, Work(h) PROVE Kept \/ Read \/ Inserted
  BY <1>0, <1>1, <1>2, <1>3, <1>4, <1>5 DEF Work, ReceiveAuth, ReceiveUser, RefuseUser,
     RefuseSession, vars, Kept
<1>6. Kept \/ Read \/ Inserted
  BY <1>0, <1>5 DEF Next, ChangeUser, Logout, softDelete, adminUpdate, RefuseUpdate, vars, Kept
<1> QED
  BY <1>6 DEF Kept, Read, Inserted

\* Who is refreshing after a step: who was before, or whoever was just validated.
LEMMA RefreshingStep ==
  ASSUME TypeOK, [Next]_vars, NEW g \in Handlers, pc'[g] = "refresh"
  PROVE  \/ pc[g] = "refresh" /\ req'[g] = req[g]
         \/ \E u \in Users : Validate(g, u) /\ req'[g].user = u
<1> DEFINE Kept == pc[g] = "refresh" /\ req'[g] = req[g]
           Validated == \E u \in Users : Validate(g, u) /\ req'[g].user = u
<1>0. CASE pc' = pc /\ req' = req
  BY <1>0
<1>1. ASSUME NEW h \in Handlers, NEW at \in States \ {"refresh"}, NEW u, NEW row, Go(h, at, u, row)
      PROVE  Kept
  BY <1>1 DEF Go, TypeOK
<1>2. ASSUME NEW h \in Handlers, NEW u \in Users, Validate(h, u) PROVE Kept \/ Validated
  <2>1. CASE g = h
    <3>1. req'[g].user = u
      BY <1>2, <2>1 DEF Validate, Go, TypeOK
    <3> QED
      BY <1>2, <2>1, <3>1
  <2>2. CASE g # h
    BY <1>2, <2>2 DEF Validate, Go, TypeOK
  <2> QED
    BY <2>1, <2>2
<1>3. ASSUME NEW h \in Handlers, Work(h), \A u \in Users : ~Validate(h, u), pc' # pc \/ req' # req
      PROVE  \E at \in States \ {"refresh"} : \E u, row : Go(h, at, u, row)
  BY <1>3 DEF Work, ReceiveAuth, ReceiveUser, Register, CreateUser, RefuseUser, InsertUser,
              RefuseDuplicate, Login, RefuseSession, Refresh, RefuseRefresh, StoreToken,
              HandlerFails, Finish, States, vars
<1> HIDE DEF Kept, Validated
<1>4. ASSUME NEW h \in Handlers, Work(h) PROVE Kept \/ Validated
  BY <1>0, <1>1, <1>2, <1>3, <1>4 DEF Kept
<1>5. Kept \/ Validated
  BY <1>0, <1>4 DEF Next, ChangeUser, Logout, softDelete, adminUpdate, RefuseUpdate, vars, Kept
<1> QED
  BY <1>5 DEF Kept, Validated

LEMMA ResolvedStep == IInv /\ [Next]_vars => RequestsResolved'
<1> SUFFICES ASSUME IInv, [Next]_vars PROVE RequestsResolved'
  OBVIOUS
<1>1. ASSUME NEW h \in Handlers, NEW e \in Emails, NEW r \in Roles, NEW o \in orgs \cup {None},
             Register(h, e, r) \/ CreateUser(h, e, r, o)
      PROVE  RequestsResolved'
  BY <1>1 DEF Register, CreateUser, Go, IInv, TypeOK, RequestsResolved, resolveOrganizationId
<1>2. ASSUME NEW h \in Handlers, NEW at \in {"idle", "refresh", "tokens"},
             NEW u, NEW row, Go(h, at, u, row)
      PROVE  RequestsResolved'
  BY <1>2 DEF Go, IInv, TypeOK, RequestsResolved, resolveOrganizationId
<1>3. CASE pc' = pc /\ req' = req
  BY <1>3 DEF IInv, RequestsResolved, resolveOrganizationId
<1>4. ASSUME NEW h \in Handlers, NEW u \in Users, NEW o \in Orgs \cup {None}, InsertUser(h, u, o)
      PROVE  RequestsResolved'
  <2>1. \/ Go(h, "tokens", u, InOrganization(req[h].row, o))
        \/ Go(h, "idle", None, NoUser)
    BY <1>4 DEF InsertUser, Finish
  <2> QED
    BY <1>2, <2>1
<1>5. ASSUME NEW h \in Handlers, NEW u \in Users, Login(h, u) \/ Validate(h, u)
      PROVE  RequestsResolved'
  BY <1>2, <1>5 DEF Login, Validate
<1>6. ASSUME NEW h \in Handlers,
             \/ RefuseDuplicate(h) \/ Refresh(h)
             \/ RefuseRefresh(h) \/ StoreToken(h) \/ HandlerFails(h)
      PROVE  RequestsResolved'
  BY <1>2, <1>6 DEF RefuseDuplicate, Refresh, RefuseRefresh, StoreToken, HandlerFails, Finish
<1> QED
  BY <1>1, <1>3, <1>4, <1>5, <1>6
     DEF Next, ChangeUser, Work, ReceiveAuth, ReceiveUser, RefuseUser, RefuseSession, Logout,
        softDelete, adminUpdate, RefuseUpdate, vars

\* The inductive invariant holds whatever requests overlap.
THEOREM AccountsInvariant == Spec => []IInv
<1>1. IInv /\ [Next]_vars => IInv'
  BY TypeStep, RowsInv, ResolvedStep DEF IInv
<1> QED
  BY InitIInv, <1>1, PTL DEF Spec

\* No organization is left without a member.
THEOREM Organizations == Spec => []OrganizationsHaveMembers
<1>1. IInv => OrganizationsHaveMembers
  BY DEF IInv
<1> QED
  BY AccountsInvariant, <1>1, PTL

\* What is signed falls behind the table only by a PATCH that overtakes the request:
\* who reads a row signs it as it is, and no other statement changes a row that is
\* there.
THEOREM Tokens == Spec => TokensFallBehindByEdit
<1>1. ASSUME IInv, [Next]_vars, NEW u \in Users, NEW g \in Behind(u)', g \notin Behind(u)
      PROVE  \E p \in Patch : adminUpdate(u, p)
  <2>1. /\ g \in Handlers /\ pc'[g] = "tokens" /\ req'[g].user = u
        /\ req'[g].row # users'[u]
    BY <1>1 DEF Behind, Signing
  <2>2. CASE pc[g] = "tokens" /\ req'[g] = req[g]
    <3>1. users[u] # users'[u] /\ Exists(u)
      BY <1>1, <2>1, <2>2 DEF Behind, Signing, IInv, TypeOK, RequestOK
    <3>2. ASSUME NEW h \in Handlers, NEW v \in Users, NEW o \in Orgs \cup {None},
                 InsertUser(h, v, o)
          PROVE  users'[u] = users[u]
      BY <1>1, <3>1, <3>2, InsertAddsRow DEF Exists, IInv
    <3>3. ASSUME NEW v \in Users, NEW p \in Patch, adminUpdate(v, p), v # u
          PROVE  users'[u] = users[u]
      BY <1>1, <3>3, PatchKeepsOrg DEF IInv
    <3> QED
      BY <1>1, <3>1, <3>2, <3>3, RowsStep DEF IInv
  <2>3. ASSUME NEW v \in Users, users' = users, req'[g].user = v /\ req'[g].row = users[v]
        PROVE  FALSE
    BY <2>1, <2>3
  <2>4. ASSUME NEW v \in Users, NEW o \in Orgs \cup {None}, InsertUser(g, v, o),
               req'[g].user = v /\ req'[g].row = InOrganization(req[g].row, o)
        PROVE  FALSE
    <3>1. users \in [Users -> User \cup {NoUser}]
          /\ users' = [users EXCEPT ![v] = InOrganization(req[g].row, o)]
      BY <1>1, <2>4 DEF InsertUser, IInv, TypeOK, RowsOK
    <3> QED
      BY <2>1, <2>4, <3>1
  <2> QED
    BY <1>1, <2>1, <2>2, <2>3, <2>4, SigningStep DEF IInv
<1>2. IInv /\ [Next]_vars =>
        [\A u \in Users : Behind(u)' \subseteq Behind(u) \/ \E p \in Patch : adminUpdate(u, p)]_vars
  BY <1>1
<1> QED
  BY AccountsInvariant, <1>2, PTL DEF Spec, TokensFallBehindByEdit

\* Requests that begin after a removal get no tokens: login and refresh look for
\* users that are not removed, and a new user's id is no removed user's.
THEOREM Removal == Spec => RemovalEndsSessions
<1>1. ASSUME IInv, [Next]_vars, NEW u \in removed, NEW g \in Signing(u)'
      PROVE  g \in Signing(u)
  <2>1. g \in Handlers /\ pc'[g] = "tokens" /\ req'[g].user = u /\ Exists(u) /\ ~Live(u)
    BY <1>1 DEF Signing, IInv, TypeOK, RowsOK, Live
  <2>2. ASSUME NEW v \in Users, NEW o \in Orgs \cup {None}, InsertUser(g, v, o), v = u
        PROVE  FALSE
    BY <2>1, <2>2 DEF InsertUser
  <2> QED
    BY <1>1, <2>1, <2>2, SigningStep DEF Signing, IInv
<1>2. IInv /\ [Next]_vars => [\A u \in removed : Signing(u)' \subseteq Signing(u)]_vars
  BY <1>1
<1> QED
  BY AccountsInvariant, <1>2, PTL DEF Spec, RemovalEndsSessions

\* A driver is only ever inserted by create, for a manager's organization, and
\* organizations have members.
THEOREM Drivers == Spec => NewDriversBelong
<1>1. ASSUME IInv, [Next]_vars, NEW u \in Users, ~Exists(u), users'[u].role = "DRIVER"
      PROVE  \E v \in Users : Exists(v) /\ users[v].org = users'[u].org /\ users[v].org # None
  <2>1. PICK h \in Handlers, w \in Users, o \in Orgs \cup {None} : InsertUser(h, w, o)
    <3>1. users'[u] # users[u]
      BY <1>1, AccountsAssumption DEF Exists, NoUser, Roles
    <3>2. ASSUME NEW w \in Users, NEW p \in Patch, adminUpdate(w, p) PROVE users'[u] = users[u]
      BY <1>1, <3>2, PatchKeepsOrg DEF adminUpdate, Live, IInv
    <3> QED
      BY <1>1, <3>1, <3>2, RowsStep DEF IInv
  <2>2. w = u /\ users'[u].org = o /\ req[h].row.role = "DRIVER"
    BY <1>1, <2>1, InsertAddsRow, AccountsAssumption DEF Exists, NoUser, Roles, IInv
  <2>3. pc[h] = "create" /\ req[h].row.org = o
    BY <1>1, <2>1, <2>2 DEF InsertUser, Founding, IInv, RequestsResolved
  <2>4. o # None /\ o \in orgs
    BY <1>1, <2>2, <2>3 DEF IInv, RequestsResolved, resolveOrganizationId, TypeOK, RequestOK
  <2>5. PICK v \in Users : users[v].org = o
    BY <1>1, <2>4 DEF IInv, OrganizationsHaveMembers
  <2> QED
    BY <2>2, <2>4, <2>5 DEF Exists, NoUser
<1>2. IInv /\ [Next]_vars =>
        [\A u \in Users : ~Exists(u) /\ users'[u].role = "DRIVER" =>
           \E v \in Users : Exists(v) /\ users[v].org = users'[u].org /\ users[v].org # None]_vars
  BY <1>1
<1> QED
  BY AccountsInvariant, <1>2, PTL DEF Spec, NewDriversBelong

\* Only a login or a sign-up gives a session to a user who has none.
THEOREM Logouts == Spec => LogoutHolds
<1> DEFINE Opened(u) ==
      \E h \in Handlers : Login(h, u) \/ \E o \in Orgs \cup {None} : InsertUser(h, u, o)
<1>1. ASSUME IInv, [Next]_vars, NEW u \in Users, ~HasSession(u), HasSession(u)'
      PROVE  Opened(u)
  <2>1. \A h \in Handlers : pc[h] \in {"refresh", "tokens"} => req[h].user # u
    BY <1>1 DEF HasSession
  <2>2. CASE u \in tokens'
    <3>1. \E h \in Handlers : StoreToken(h)
      BY <1>1, <2>2 DEF Next, ChangeUser, Work, ReceiveAuth, ReceiveUser, Register, CreateUser,
         RefuseUser, InsertUser, RefuseDuplicate,
         Login, Validate, RefuseSession, Refresh, RefuseRefresh, HandlerFails, Logout, softDelete,
         adminUpdate, RefuseUpdate, rows, vars, HasSession
    <3> QED
      BY <1>1, <2>1, <2>2, <3>1 DEF StoreToken, HasSession
  <2>3. ASSUME NEW h \in Handlers, pc'[h] \in {"refresh", "tokens"}, req'[h].user = u
        PROVE  Opened(u)
    <3>1. CASE pc'[h] = "tokens"
      <4>1. ~(pc[h] = "tokens" /\ req'[h] = req[h])
        BY <2>1, <2>3
      <4>2. ASSUME NEW v \in Users, Refresh(h), req[h].user = v, req'[h].user = v PROVE FALSE
        BY <2>1, <2>3, <4>2 DEF Refresh
      <4> QED
        BY <1>1, <2>3, <3>1, <4>1, <4>2, SigningStep DEF IInv
    <3>2. CASE pc'[h] = "refresh"
      <4>1. ~(pc[h] = "refresh" /\ req'[h] = req[h])
        BY <2>1, <2>3
      <4>2. ~Validate(h, u)
        BY <1>1 DEF Validate, HasSession
      <4> QED
        BY <1>1, <2>3, <3>2, <4>1, <4>2, RefreshingStep DEF IInv
    <3> QED
      BY <2>3, <3>1, <3>2
  <2> QED
    BY <1>1, <2>2, <2>3 DEF HasSession
<1>2. IInv /\ [Next]_vars =>
        [\A u \in Users : ~HasSession(u) /\ HasSession(u)' => Opened(u)]_vars
  BY <1>1
<1> QED
  BY AccountsInvariant, <1>2, PTL DEF Spec, LogoutHolds
=============================================================================
