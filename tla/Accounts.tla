------------------------------ MODULE Accounts ------------------------------
(***************************************************************************)
(* Users, organizations and sessions (src/users, src/auth).  A sign-up     *)
(* looks the address up, hashes the password, inserts the user, signs      *)
(* tokens and stores the refresh token, one statement at a time; logins,   *)
(* refreshes, edits and removals of the same user run in between.  The     *)
(* seed, whose upsert may give a user another role and organization        *)
(* (prisma/seed.ts, 116-126), is not part of it.                           *)
(***************************************************************************)
EXTENDS Integers, FiniteSets

CONSTANTS
  Handlers,   \* requests of several statements in progress at the same time
  Users,      \* ids of users (bounds the User table)
  Orgs,       \* ids of organizations (bounds the Organization table)
  Emails,     \* addresses
  None        \* no user, no organization, a column a patch leaves out

Roles == {"USER", "DRIVER", "ACCOUNT_MANAGER", "ADMIN"}

ASSUME AccountsAssumption == None \notin Users \cup Orgs \cup Emails \cup Roles

VARIABLES
  users,      \* User rows by id, or NoUser
  removed,    \* users with deletedAt set
  orgs,       \* Organization rows
  tokens,     \* users with a RefreshToken row: one per user
  pc,         \* where each request is
  req         \* the user each request is about, and the row it holds

rows == <<users, removed, orgs, tokens>>
vars == <<rows, pc, req>>

User    == [email : Emails, role : Roles, org : Orgs \cup {None}]
NoUser  == [email |-> None, role |-> None, org |-> None]
Nothing == [user |-> None, row |-> NoUser]

\* AdminUpdateUserDto: no organizationId.
Patch == [email : Emails \cup {None}, role : Roles \cup {None}]

Exists(u) == users[u] # NoUser
Live(u)   == Exists(u) /\ u \notin removed

Init ==
  /\ users = [u \in Users |-> NoUser]
  /\ removed = {} /\ orgs = {} /\ tokens = {}
  /\ pc = [h \in Handlers |-> "idle"]
  /\ req = [h \in Handlers |-> Nothing]

Go(h, at, u, row) ==
  /\ pc' = [pc EXCEPT ![h] = at]
  /\ req' = [req EXCEPT ![h] = [user |-> u, row |-> row]]

Finish(h) == Go(h, "idle", None, NoUser)

-----------------------------------------------------------------------------
(* Creating users.                                                         *)

\* checkEmailUniqueness looks among the users that are not removed.
checkEmailUniqueness(e) == \A u \in Users : Live(u) => users[u].email # e

\* email is unique over all rows, removed ones included.
EmailFree(e, u) == \A v \in Users \ {u} : users[v].email # e

\* registerPublicUser, with an organization of its own or without.
Register(h, e, r) ==
  /\ pc[h] = "idle"
  /\ checkEmailUniqueness(e)
  /\ r \in {"USER", "ACCOUNT_MANAGER"}
  /\ Go(h, "register", None, [email |-> e, role |-> r, org |-> None])
  /\ UNCHANGED rows

\* resolveOrganizationId: managers create drivers, for the organization o of
\* their token; administrators (None) any other user, for none.
resolveOrganizationId(r, o) == o # None <=> r = "DRIVER"

CreateUser(h, e, r, o) ==
  /\ pc[h] = "idle"
  /\ checkEmailUniqueness(e)
  /\ resolveOrganizationId(r, o)
  /\ Go(h, "create", None, [email |-> e, role |-> r, org |-> o])
  /\ UNCHANGED rows

\* 409 of the check; 400 of resolveOrganizationId.
RefuseUser(h, e, r, o) ==
  /\ pc[h] = "idle"
  /\ ~checkEmailUniqueness(e) \/ ~resolveOrganizationId(r, o)
  /\ UNCHANGED vars

InOrganization(row, o) == [row EXCEPT !.org = o]

\* A manager who registers founds an organization.
Founding(h) == pc[h] = "register" /\ req[h].row.role = "ACCOUNT_MANAGER"

\* The insert; createCorporateUserWithOrg inserts the organization o in the same
\* transaction.  A sign-up goes on to generateTokens, create is done.
InsertUser(h, u, o) ==
  LET row == InOrganization(req[h].row, o) IN
  /\ pc[h] \in {"register", "create"}
  /\ ~Exists(u)
  /\ EmailFree(row.email, u)
  /\ IF Founding(h) THEN o \in Orgs \ orgs ELSE o = req[h].row.org
  /\ users' = [users EXCEPT ![u] = row]
  /\ orgs' = (orgs \cup {o}) \ {None}
  /\ IF pc[h] = "register" THEN Go(h, "tokens", u, row) ELSE Finish(h)
  /\ UNCHANGED <<removed, tokens>>

\* Mutant: the organization is inserted outside the transaction.
KeepOrganization(h) ==
  /\ pc[h] \in {"register", "create"}
  /\ ~EmailFree(req[h].row.email, None)
  /\ IF Founding(h) THEN \E o \in Orgs : orgs' = orgs \cup {o} ELSE UNCHANGED orgs
  /\ Finish(h)
  /\ UNCHANGED <<users, removed, tokens>>

\* Prisma's P2002: the transaction is rolled back, answered as a conflict.
RefuseDuplicate(h) ==
  /\ pc[h] \in {"register", "create"}
  /\ ~EmailFree(req[h].row.email, None)
  /\ Finish(h)
  /\ UNCHANGED rows

-----------------------------------------------------------------------------
(* Sessions.                                                               *)

\* login: the user is found by address and the password is the stored one.
Login(h, u) ==
  /\ pc[h] = "idle"
  /\ Live(u)
  /\ Go(h, "tokens", u, users[u])
  /\ UNCHANGED rows

\* Mutant: a refresh token is good until it expires.
ValidateSigned(h, u) ==
  /\ pc[h] = "idle"
  /\ Exists(u)
  /\ Go(h, "refresh", u, NoUser)
  /\ UNCHANGED rows

\* RefreshStrategy.validate: a token is stored for the user and is this one.
Validate(h, u) ==
  /\ pc[h] = "idle"
  /\ u \in tokens
  /\ Go(h, "refresh", u, NoUser)
  /\ UNCHANGED rows

\* 401: no such user, another password, no token or another one.
RefuseSession(h) == pc[h] = "idle" /\ UNCHANGED vars

\* Mutant: refresh finds removed users as well.
RefreshAny(h) ==
  /\ pc[h] = "refresh"
  /\ Go(h, "tokens", req[h].user, users[req[h].user])
  /\ UNCHANGED rows

\* Mutant: refresh signs the role in the claims of the refresh token, which may be
\* any the user had since the token was signed.
RefreshClaims(h) ==
  /\ pc[h] = "refresh"
  /\ Live(req[h].user)
  /\ \E r \in Roles : Go(h, "tokens", req[h].user, [users[req[h].user] EXCEPT !.role = r])
  /\ UNCHANGED rows

\* refresh: findById finds users that are not removed.
Refresh(h) ==
  /\ pc[h] = "refresh"
  /\ Live(req[h].user)
  /\ Go(h, "tokens", req[h].user, users[req[h].user])
  /\ UNCHANGED rows

\* The user was removed since (401).
RefuseRefresh(h) ==
  /\ pc[h] = "refresh"
  /\ ~Live(req[h].user)
  /\ Finish(h)
  /\ UNCHANGED rows

\* generateTokens signs the row the request read and puts the refresh token in
\* the place of the one stored before, if any.
StoreToken(h) ==
  /\ pc[h] = "tokens"
  /\ tokens' = tokens \cup {req[h].user}
  /\ Finish(h)
  /\ UNCHANGED <<users, removed, orgs>>

\* logout, by an access token, which outlives the removal of its user.
Logout(u) ==
  /\ Exists(u)
  /\ tokens' = tokens \ {u}
  /\ UNCHANGED <<users, removed, orgs, pc, req>>

-----------------------------------------------------------------------------
(* Editing and removing users: a statement or a transaction each.          *)

\* The columns a patch names are written.
Patched(row, p) ==
  {[row EXCEPT !.email = IF p.email = None THEN @ ELSE p.email,
               !.role  = IF p.role = None THEN @ ELSE p.role]}

\* adminUpdate of a user that is not removed.
adminUpdate(u, p) ==
  /\ Live(u)
  /\ EmailFree(p.email, u) \/ p.email = None
  /\ users' \in {[users EXCEPT ![u] = row] : row \in Patched(users[u], p)}
  /\ UNCHANGED <<removed, orgs, tokens, pc, req>>

\* P2002 for the address, P2025 for a removed user.
RefuseUpdate(u, p) ==
  /\ Exists(u)
  /\ ~Live(u) \/ (p.email # None /\ ~EmailFree(p.email, u))
  /\ UNCHANGED vars

\* remove: the stored token goes with the user, in one transaction.
softDelete(u) ==
  /\ Exists(u)
  /\ tokens' = tokens \ {u}
  /\ removed' = removed \cup {u}
  /\ UNCHANGED <<users, orgs, pc, req>>

\* The request ends between two statements.
HandlerFails(h) ==
  /\ pc[h] # "idle"
  /\ Finish(h)
  /\ UNCHANGED rows

ReceiveAuth(h) ==
  \/ \E e \in Emails, r \in Roles : Register(h, e, r)
  \/ \E u \in Users : Login(h, u) \/ Validate(h, u)

ReceiveUser(h) ==
  \E e \in Emails, r \in Roles, o \in orgs \cup {None} :
    CreateUser(h, e, r, o) \/ RefuseUser(h, e, r, o)

\* PATCH and DELETE /users/:id, one statement each.
ChangeUser(u) == softDelete(u) \/ \E p \in Patch : adminUpdate(u, p) \/ RefuseUpdate(u, p)

Work(h) ==
  \/ ReceiveAuth(h) \/ ReceiveUser(h)
  \/ \E u \in Users, o \in Orgs \cup {None} : InsertUser(h, u, o)
  \/ RefuseDuplicate(h) \/ RefuseSession(h)
  \/ Refresh(h) \/ RefuseRefresh(h) \/ StoreToken(h) \/ HandlerFails(h)

Next ==
  \/ \E h \in Handlers : Work(h)
  \/ \E u \in Users : Logout(u) \/ ChangeUser(u)

Spec == Init /\ [][Next]_vars

-----------------------------------------------------------------------------
(* Properties.                                                             *)

States == {"idle", "register", "create", "refresh", "tokens"}

RowsOK ==
  /\ users \in [Users -> User \cup {NoUser}]
  /\ removed \cup tokens \subseteq {u \in Users : Exists(u)}
  /\ orgs \subseteq Orgs
  /\ \A u \in Users : users[u].org \in orgs \cup {None}

RequestOK(h) ==
  /\ pc[h] \in {"register", "create"} =>
       req[h].row \in User /\ req[h].row.org \in orgs \cup {None}
  /\ pc[h] \in {"refresh", "tokens"} => req[h].user \in Users /\ Exists(req[h].user)

TypeOK ==
  /\ RowsOK
  /\ pc \in [Handlers -> States]
  /\ req \in [Handlers -> [user : Users \cup {None}, row : User \cup {NoUser}]]
  /\ \A h \in Handlers : RequestOK(h)

\* A sign-up that is refused at its last insert, or ends before, leaves no
\* organization without a member behind (createCorporateUserWithOrg).
OrganizationsHaveMembers == \A o \in orgs : \E u \in Users : users[u].org = o

\* What a request found before it hashed the password is still in force.
RequestsResolved ==
  \A h \in Handlers :
    /\ pc[h] = "register" => req[h].row.role # "DRIVER" /\ req[h].row.org = None
    /\ pc[h] = "create" => resolveOrganizationId(req[h].row.role, req[h].row.org)

\* The inductive invariant.
IInv ==
  /\ TypeOK /\ OrganizationsHaveMembers /\ RequestsResolved

Signing(u) == {h \in Handlers : pc[h] = "tokens" /\ req[h].user = u}

\* No request gets tokens for a removed user but those that had read the user
\* before the removal.
RemovalEndsSessions == [][\A u \in removed : Signing(u)' \subseteq Signing(u)]_vars

\* Requests about to sign a role, an address or an organization of u's that is no
\* longer in the table.
Behind(u) == {h \in Signing(u) : req[h].row # users[u]}

\* Tokens fall behind the table only by a PATCH that commits while a request is on
\* its way from reading the user to signing (generateTokens): a login or a refresh
\* that reads after the PATCH signs what it wrote, and until the next one the
\* guards go by the role that was signed.
TokensFallBehindByEdit ==
  [][\A u \in Users : Behind(u)' \subseteq Behind(u) \/ \E p \in Patch : adminUpdate(u, p)]_vars

\* A token is stored for the user or a request will store one.
HasSession(u) ==
  \/ u \in tokens
  \/ \E h \in Handlers : pc[h] \in {"refresh", "tokens"} /\ req[h].user = u

\* When a logout has removed the stored token and no request of the user was under
\* way, only a login or a sign-up opens a session again (logout's comment).
LogoutHolds ==
  [][\A u \in Users :
       ~HasSession(u) /\ HasSession(u)' =>
         \E h \in Handlers : Login(h, u) \/ \E o \in Orgs \cup {None} : InsertUser(h, u, o)]_vars

\* A user who is created as a driver joins an organization that has had a member
\* since before (fuel logs and reports are by the driver's organization).
NewDriversBelong ==
  [][\A u \in Users :
       ~Exists(u) /\ users'[u].role = "DRIVER" =>
         \E v \in Users : Exists(v) /\ users[v].org = users'[u].org /\ users[v].org # None]_vars
==============================================================================
