---------------------------- MODULE ServicesProofs ----------------------------
(***************************************************************************)
(* No two services that are not removed have one name, and none is refused *)
(* its own; the seed can be cut off and run again, beside the API too.     *)
(***************************************************************************)
EXTENDS Seeding, TLAPS

LEMMA InitIInv == Init => IInv
BY DEF Init, IInv, TypeOK, NamesUnique, Live, Inserted, Request, Patch, Nothing, Creating

LEMMA TypeStep == TypeOK /\ [Next]_vars => TypeOK'
<1> SUFFICES ASSUME TypeOK, [Next]_vars PROVE TypeOK'
  OBVIOUS
<1>a. CASE UNCHANGED vars
  BY <1>a DEF vars, rows, TypeOK, Inserted, Creating
<1> SUFFICES ASSUME NEW h \in Handlers, Receive(h) \/ Write(h) \/ Answer(h) \/ HandlerFails(h)
             PROVE  TypeOK'
  BY <1>a DEF Next
<1>1. ASSUME NEW s \in Service, Create(h, s) PROVE TypeOK'
  BY <1>1 DEF Create, Start, rows, TypeOK, Inserted, Request, Patch, Creating, Service
<1>2. ASSUME NEW i \in Ids, NEW p \in Patch, Update(h, i, p) PROVE TypeOK'
  BY <1>2, ServicesAssumption
     DEF Update, Start, rows, TypeOK, Inserted, Live, Request, Patch, Creating, Service
<1>3. ASSUME NEW i \in Ids, Remove(h, i) PROVE TypeOK'
  BY <1>3, ServicesAssumption
     DEF Remove, Start, Nothing, rows, TypeOK, Inserted, Live, Request, Patch, Creating, Service
<1>4. ASSUME NEW i \in Ids, RefuseMissing(h, i) PROVE TypeOK'
  BY <1>a, <1>4 DEF RefuseMissing
<1>5. CASE CheckName(h)
  BY <1>5 DEF CheckName, GoTo, rows, TypeOK, Inserted, Creating
<1>6. CASE RejectName(h) \/ RefuseDuplicate(h) \/ Answer(h) \/ HandlerFails(h)
  <2>1. Nothing \in Request /\ Nothing.id = Omitted
    BY DEF Nothing, Request, Patch
  <2>2. /\ pc' = [pc EXCEPT ![h] = "idle"] /\ req' = [req EXCEPT ![h] = Nothing]
        /\ UNCHANGED rows
    BY <1>6 DEF RejectName, RefuseDuplicate, Answer, HandlerFails, Finish
  <2> QED
    BY <2>1, <2>2 DEF rows, TypeOK, Inserted, Creating
<1>7. CASE PutService(h)
  <2>1. req[h].id \in Inserted /\ req[h].data \in Patch
    BY <1>7 DEF PutService, TypeOK, Request
  <2>2. services[req[h].id] \in Service
    BY <2>1 DEF TypeOK
  <2>3. Patched(services[req[h].id], req[h].data) \in Service
    BY <2>1, <2>2 DEF Patched, Patch, Service
  <2>4. services' \in [Inserted -> Service] /\ Inserted' = Inserted
    BY <1>7, <2>1, <2>3 DEF PutService, TypeOK, Inserted
  <2> QED
    BY <1>7, <2>4 DEF PutService, GoTo, TypeOK, Creating
<1>8. CASE SoftDelete(h)
  BY <1>8 DEF SoftDelete, GoTo, TypeOK, Inserted, Creating
<1>9. ASSUME NEW i \in Ids, InsertService(h, i) PROVE TypeOK'
  <2>1. req[h].data \in Service
    BY <1>9 DEF InsertService, TypeOK, Creating
  <2>2. services' \in [Inserted \cup {i} -> Service] /\ Inserted' = Inserted \cup {i}
    BY <1>9, <2>1 DEF InsertService, TypeOK, Inserted
  <2> QED
    BY <1>9, <2>2 DEF InsertService, GoTo, TypeOK, Creating
<1> QED
  BY <1>1, <1>2, <1>3, <1>4, <1>5, <1>6, <1>7, <1>8, <1>9 DEF Receive, Write

LEMMA NamesStep == IInv /\ TypeOK' /\ [Next]_vars => NamesUnique'
<1> SUFFICES ASSUME IInv, TypeOK', [Next]_vars PROVE NamesUnique'
  OBVIOUS
<1>a. CASE UNCHANGED rows
  BY <1>a DEF rows, IInv, NamesUnique, Live, Inserted
<1> SUFFICES ASSUME NEW h \in Handlers,
                    \/ PutService(h) \/ SoftDelete(h)
                    \/ \E i \in Ids : InsertService(h, i)
             PROVE  NamesUnique'
  BY <1>a DEF Next, Receive, Create, Update, Remove, RefuseMissing, Start, Write, CheckName,
              RejectName, RefuseDuplicate, Answer, HandlerFails, vars
\* The row that is written gets the name n, or keeps the one it has.
<1>1. CASE PutService(h)
  <2> DEFINE i == req[h].id
             n == req[h].data.name
  <2>1. i \in Inserted /\ Live' = Live
    BY <1>1 DEF PutService, IInv, TypeOK, Live, Inserted
  <2>2. \A j \in Live \ {i} : services'[j] = services[j]
    BY <1>1 DEF PutService, Live, Inserted, IInv, TypeOK
  <2>3. services'[i].name = IF n = Omitted THEN services[i].name ELSE n
    BY <1>1, <2>1 DEF PutService, Patched, Inserted, IInv, TypeOK
  <2>4. i \in Live /\ n # Omitted => \A j \in Live \ {i} : services[j].name # n
    BY <1>1 DEF PutService, IndexAdmits, Named, Live
  <2>5. ASSUME NEW j \in Live, NEW k \in Live, services'[j].name = services'[k].name
        PROVE  j = k
    <3>1. CASE i \notin {j, k}
      BY <2>2, <2>5, <3>1 DEF IInv, NamesUnique
    <3>2. CASE i = j
      BY <2>2, <2>3, <2>4, <2>5, <3>2 DEF IInv, NamesUnique
    <3>3. CASE i = k
      BY <2>2, <2>3, <2>4, <2>5, <3>3 DEF IInv, NamesUnique
    <3> QED
      BY <3>1, <3>2, <3>3
  <2> QED
    BY <2>1, <2>5 DEF NamesUnique
<1>2. CASE SoftDelete(h)
  BY <1>2 DEF SoftDelete, IInv, NamesUnique, Live, Inserted
<1>3. ASSUME NEW i \in Ids, InsertService(h, i) PROVE NamesUnique'
  <2>1. i \notin Inserted /\ removed \subseteq Inserted
    BY <1>3 DEF InsertService, IInv, TypeOK
  <2>2. Live' = Live \cup {i}
    BY <1>3, <2>1 DEF InsertService, Live, Inserted
  <2>3. /\ services'[i].name = req[h].data.name
        /\ \A j \in Live : services'[j] = services[j] /\ services[j].name # req[h].data.name
    <3>1. Omitted \notin Ids /\ Live \subseteq Ids
      BY ServicesAssumption DEF Live, IInv, TypeOK
    <3> QED
      BY <1>3, <2>1, <3>1 DEF InsertService, IndexAdmits, Named, Live, Inserted, IInv, TypeOK
  <2> QED
    BY <2>2, <2>3 DEF IInv, NamesUnique
<1> QED
  BY <1>1, <1>2, <1>3

\* However requests overlap, no two services that are not removed have one name.
THEOREM UniqueNames == Spec => []NamesUnique
<1>1. IInv /\ [Next]_vars => IInv'
  BY TypeStep, NamesStep DEF IInv
<1>2. IInv => NamesUnique
  BY DEF IInv
<1> QED
  BY InitIInv, <1>1, <1>2, PTL DEF Spec

\* A PATCH that repeats the name its service has is never refused for it.
THEOREM OwnName == Spec => OwnNameNotRefused
<1>1. IInv /\ [Next]_vars => IInv'
  BY TypeStep, NamesStep DEF IInv
<1>2. IInv /\ [Next]_vars =>
        [\A h \in Handlers :
           RejectName(h) \/ RefuseDuplicate(h)
             => req[h].id \notin Named(req[h].data.name)]_vars
  <2> SUFFICES ASSUME IInv, NEW h \in Handlers, req[h].id \in Named(req[h].data.name)
               PROVE  ~RejectName(h) /\ ~RefuseDuplicate(h)
    OBVIOUS
  <2>1. Named(req[h].data.name) \subseteq {req[h].id}
    BY DEF IInv, NamesUnique, Named
  <2> QED
    BY <2>1 DEF RejectName, RefuseDuplicate, NameTaken, IndexAdmits
<1> QED
  BY InitIInv, <1>1, <1>2, PTL DEF Spec, OwnNameNotRefused

-----------------------------------------------------------------------------
(* The seed beside the API.                                                *)

LEMMA SeedInvInit == SeedInit => SeedInv
<1> SUFFICES ASSUME SeedInit PROVE SeedInv
  OBVIOUS
<1>1. IInv
  BY InitIInv DEF SeedInit, ListsInit
<1>2. services = <<>> /\ Inserted = {}
  BY DEF SeedInit, ListsInit, Init, Inserted
<1> QED
  BY <1>1, <1>2 DEF SeedInit, SeedInv, SeedTypeOK, IInv, SeedResumes,
                    SeedComplete, NothingToDo

\* Services keep their rows and, while the seed writes, their names.
Grown ==
  /\ Inserted \subseteq Inserted'
  /\ \A i \in Inserted : services'[i].name = services[i].name

\* The names stay unique under the API's steps, restarts and the seed's inserts.
LEMMA ListsKeepIInv == IInv /\ ListsNext => IInv' /\ Inserted \subseteq Inserted'
<1> SUFFICES ASSUME IInv, ListsNext PROVE IInv' /\ Inserted \subseteq Inserted'
  OBVIOUS
<1>1. CASE [Next]_vars
  <2>1. IInv'
    BY <1>1, TypeStep, NamesStep DEF IInv
  <2>2. Inserted \subseteq Inserted'
    BY <1>1 DEF Next, Receive, Create, Update, Remove, RefuseMissing, Start, Write, CheckName,
                RejectName, RefuseDuplicate, Answer, HandlerFails, InsertService, PutService,
                SoftDelete, vars, rows, Inserted, IInv, TypeOK
  <2> QED
    BY <2>1, <2>2
<1>2. CASE Restart
  <2>1. Nothing \in Request /\ Nothing.id = Omitted
    BY DEF Nothing, Request, Patch
  <2>2. services' = services /\ removed' = removed
    BY <1>2 DEF Restart, rows
  <2> QED
    BY <1>2, <2>1, <2>2 DEF Restart, IInv, TypeOK, NamesUnique, Live, Inserted, Creating
<1>3. ListsNext => [Next]_vars \/ Restart
  BY DEF ListsNext, ChangeServices, InvalidateListCache, List, ServeCached, QueryServices,
         FillCache, ReaderFails, Expire, Next, allVars
<1> QED
  BY <1>1, <1>2, <1>3

LEMMA SeedServiceKeepsIInv ==
  ASSUME SeedInv, UNCHANGED <<pc, req>>, NEW i \in Ids, SeedService(i)
  PROVE  IInv' /\ Grown /\ Inserted' = Inserted \cup {i} /\ services'[i].name = hand
<1>1. /\ hand \in Names /\ i \notin Inserted /\ Named(hand) = {}
      /\ services' = [j \in Inserted \cup {i} |->
                        IF j = i THEN [name |-> hand, isActive |-> TRUE] ELSE services[j]]
      /\ removed' = removed /\ pc' = pc /\ req' = req
  BY SeedAssumption DEF SeedService, SeedInv, SeedTypeOK
<1>2. IInv
  BY DEF SeedInv
<1>3. [name |-> hand, isActive |-> TRUE] \in Service
  BY <1>1, SeedAssumption DEF Service
<1>4. /\ Inserted' = Inserted \cup {i} /\ services' \in [Inserted \cup {i} -> Service]
      /\ \A j \in Inserted : services'[j] = services[j]
      /\ services'[i].name = hand
  BY <1>1, <1>2, <1>3 DEF IInv, TypeOK, Inserted
<1>5. TypeOK'
  BY <1>1, <1>2, <1>4 DEF IInv, TypeOK, Creating
<1>6. Live' = Live \cup {i} /\ \A j \in Live : services[j].name # hand
  BY <1>1, <1>2, <1>4 DEF Live, Named, IInv, TypeOK
<1>7. NamesUnique'
  BY <1>1, <1>2, <1>4, <1>6 DEF NamesUnique, Live, IInv
<1> QED
  BY <1>4, <1>5, <1>7 DEF IInv, Grown

\* The tables stay as they are.
LEMMA TablesKept ==
  ASSUME UNCHANGED tables
  PROVE  /\ services' = services /\ removed' = removed /\ catalog' = catalog /\ rules' = rules
         /\ Inserted' = Inserted
         /\ \A n : Named(n)' = Named(n)
         /\ \A r : PairFree(r)' = PairFree(r)
         /\ \A s, r : ListedAs(s, r)' = ListedAs(s, r)
BY DEF tables, Inserted, Live, Named, PairFree, ListedAs

LEMMA IInvKept == IInv /\ UNCHANGED <<services, removed, pc, req>> => IInv'
BY DEF IInv, TypeOK, NamesUnique, Live, Inserted, Creating

\* Steps of the seed that only look, begin or stop.
LEMMA LookKeepsInv ==
  ASSUME SeedInv, UNCHANGED <<pc, req, listVars, draft>>,
         \/ BeginSeed \/ EndSeed \/ AbortSeed \/ KillSeed
         \/ \E n \in SeedNames : FindService(n)
         \/ \E k \in SeedRows : FindRow(k)
         \/ \E r \in SeedRules : FindRule(r)
  PROVE  SeedInv'
<1>1. UNCHANGED tables
  BY DEF BeginSeed, EndSeed, AbortSeed, KillSeed, FindService, FindRow, FindRule
<1>2. /\ services' = services /\ removed' = removed /\ catalog' = catalog /\ rules' = rules
      /\ Inserted' = Inserted
      /\ \A n : Named(n)' = Named(n)
      /\ \A r : PairFree(r)' = PairFree(r)
      /\ \A s, r : ListedAs(s, r)' = ListedAs(s, r)
  BY <1>1, TablesKept
<1>3. IInv' /\ TypeOK' /\ draft' = draft
  BY <1>2, IInvKept DEF SeedInv, IInv
<1>4. Omitted \notin Ids /\ Inserted \subseteq Ids
  BY ServicesAssumption DEF SeedInv, IInv, TypeOK
<1>5. ASSUME BeginSeed PROVE SeedInv'
  <2>1. /\ at' = "find" /\ quiet' = TRUE /\ alone' = alone /\ whole' = whole
        /\ todo' = [names |-> SeedNames, rows |-> SeedRows, rules |-> SeedRules]
        /\ idOf' = [n \in SeedNames |-> Omitted]
    BY <1>5 DEF BeginSeed, Go
  <2>2. SeedTypeOK' /\ SeedResumes' /\ SeedComplete'
    BY <1>2, <1>3, <2>1 DEF SeedInv, SeedTypeOK, SeedResumes, SeedComplete
  <2> QED
    BY <1>2, <1>3, <2>1, <2>2 DEF SeedInv
<1>6. ASSUME EndSeed \/ AbortSeed \/ KillSeed PROVE SeedInv'
  <2>1. /\ at' = "off" /\ quiet' = quiet /\ alone' = alone
        /\ todo' = NothingToDo /\ idOf' = [n \in SeedNames |-> Omitted]
        /\ \/ whole' = whole
           \/ at = "find" /\ todo = NothingToDo /\ whole' = (whole \/ quiet)
    BY <1>6 DEF EndSeed, AbortSeed, KillSeed, Stop, Go, history
  <2>2. SeedTypeOK' /\ SeedResumes'
    BY <1>2, <1>3, <2>1 DEF SeedInv, SeedTypeOK, SeedResumes, NothingToDo
  <2>3. CASE whole' = whole
    BY <1>2, <1>3, <2>1, <2>2, <2>3 DEF SeedInv, SeedComplete
  <2>4. CASE quiet /\ at = "find" /\ todo = NothingToDo
    <3>1. \A n \in SeedNames : idOf[n] \in Inserted /\ services[idOf[n]].name = n
      BY <2>4 DEF SeedInv, SeedTypeOK, NothingToDo
    <3>2. SeedRows \subseteq catalog /\ \A r \in SeedRules : \E s \in rules : ListedAs(s, r)
      BY <2>4 DEF SeedInv, SeedTypeOK, NothingToDo
    <3>3. SeedComplete'
      BY <1>2, <3>1, <3>2 DEF SeedComplete
    <3> QED
      BY <1>2, <1>3, <2>1, <2>2, <3>3 DEF SeedInv
  <2>5. CASE ~quiet
    <3>1. whole' => whole
      BY <2>1, <2>5
    <3>2. SeedComplete'
      BY <1>2, <3>1 DEF SeedInv, SeedComplete
    <3> QED
      BY <1>2, <1>3, <2>1, <2>2, <3>2 DEF SeedInv
  <2> QED
    BY <2>1, <2>3, <2>4, <2>5
<1>7. ASSUME NEW n \in SeedNames, FindService(n) PROVE SeedInv'
  <2> DEFINE found == {i \in Inserted : services[i].name = n}
  <2>1. /\ at = "find" /\ n \in todo.names
        /\ alone' = alone /\ quiet' = quiet /\ whole' = whole
    BY <1>7 DEF FindService, history
  <2>2. CASE found = {}
    <3>1. at' = "service" /\ hand' = n /\ todo' = todo /\ idOf' = idOf
      BY <1>7, <2>2 DEF FindService, Go
    <3>2. Named(n) = {}
      BY <2>2 DEF Named, Live
    <3>3. SeedTypeOK' /\ SeedResumes' /\ SeedComplete'
      BY <1>2, <1>3, <2>1, <3>1, <3>2 DEF SeedInv, SeedTypeOK, SeedResumes, SeedComplete
    <3> QED
      BY <1>2, <1>3, <2>1, <3>1, <3>3 DEF SeedInv
  <2>3. CASE found # {}
    <3>1. PICK i \in found : idOf' = [idOf EXCEPT ![n] = i]
      BY <1>7, <2>3 DEF FindService
    <3>2. at' = at /\ hand' = hand /\ todo' = [todo EXCEPT !.names = @ \ {n}]
      BY <1>7, <2>3 DEF FindService
    <3>3. i \in Inserted /\ services[i].name = n /\ i # Omitted
      BY <1>4, <3>1
    <3>4. SeedTypeOK' /\ SeedResumes' /\ SeedComplete'
      BY <1>2, <1>3, <2>1, <3>1, <3>2, <3>3 DEF SeedInv, SeedTypeOK, SeedResumes, SeedComplete
    <3>5. \A m \in SeedNames \ todo'.names :
            (m = n /\ idOf'[m] = i) \/ (m \notin todo.names /\ idOf'[m] = idOf[m])
      BY <3>1, <3>2 DEF SeedInv, SeedTypeOK
    <3>6. todo'.rules = todo.rules
      BY <3>2 DEF SeedInv, SeedTypeOK
    <3> QED
      BY <1>2, <1>3, <2>1, <3>2, <3>3, <3>4, <3>5, <3>6 DEF SeedInv
  <2> QED
    BY <2>2, <2>3
<1>8. ASSUME NEW k \in SeedRows, FindRow(k) PROVE SeedInv'
  <2>1. /\ at = "find" /\ todo.names = {} /\ k \in todo.rows /\ idOf' = idOf
        /\ alone' = alone /\ quiet' = quiet /\ whole' = whole
    BY <1>8 DEF FindRow, history
  <2>2. CASE k \in catalog
    <3>1. at' = at /\ hand' = hand /\ todo' = [todo EXCEPT !.rows = @ \ {k}]
      BY <1>8, <2>2 DEF FindRow
    <3>2. SeedTypeOK' /\ SeedResumes' /\ SeedComplete'
      BY <1>2, <1>3, <2>1, <2>2, <3>1 DEF SeedInv, SeedTypeOK, SeedResumes, SeedComplete
    <3>3. todo'.rules = todo.rules /\ todo'.names = todo.names
      BY <3>1 DEF SeedInv, SeedTypeOK
    <3> QED
      BY <1>2, <1>3, <2>1, <3>1, <3>2, <3>3 DEF SeedInv
  <2>3. CASE k \notin catalog
    <3>1. at' = "row" /\ hand' = k /\ todo' = todo
      BY <1>8, <2>3 DEF FindRow, Go
    <3>2. SeedTypeOK' /\ SeedResumes' /\ SeedComplete'
      BY <1>2, <1>3, <2>1, <2>3, <3>1 DEF SeedInv, SeedTypeOK, SeedResumes, SeedComplete
    <3> QED
      BY <1>2, <1>3, <2>1, <3>1, <3>2 DEF SeedInv
  <2> QED
    BY <2>2, <2>3
<1>9. ASSUME NEW r \in SeedRules, FindRule(r) PROVE SeedInv'
  <2>1. /\ at = "find" /\ todo.names = {} /\ r \in todo.rules /\ r.row \notin todo.rows
        /\ idOf' = idOf /\ alone' = alone /\ quiet' = quiet /\ whole' = whole
    BY <1>9 DEF FindRule, history
  <2>2. /\ r.row \in SeedRows /\ r.name \in SeedNames /\ r.name \notin todo.names
        /\ idOf[r.name] \in Inserted
    BY <2>1, SeedAssumption DEF SeedInv, SeedTypeOK
  <2>3. CASE RuleFound(r)
    <3>1. at' = at /\ hand' = hand /\ todo' = [todo EXCEPT !.rules = @ \ {r}]
      BY <1>9, <2>3 DEF FindRule
    <3>2. SeedTypeOK' /\ SeedResumes' /\ SeedComplete'
      BY <1>2, <1>3, <2>1, <3>1 DEF SeedInv, SeedTypeOK, SeedResumes, SeedComplete
    <3>3. todo'.names = todo.names /\ todo'.rows = todo.rows /\ todo'.rules = todo.rules \ {r}
      BY <3>1 DEF SeedInv, SeedTypeOK
    <3>4. quiet => \E s \in rules : ListedAs(s, r)
      <4> SUFFICES ASSUME quiet PROVE ListedAs(Rule(r.row, idOf[r.name], r.km), r)
        BY <2>3 DEF RuleFound
      <4> QED
        BY <2>1, <2>2 DEF SeedInv, ListedAs, Rule
    <3> QED
      BY <1>2, <1>3, <2>1, <3>1, <3>2, <3>3, <3>4 DEF SeedInv
  <2>4. CASE ~RuleFound(r)
    <3>1. at' = "rule" /\ hand' = r /\ todo' = todo
      BY <1>9, <2>4 DEF FindRule, Go
    \* Alone, the seed finds its own rule under the pair, or the pair is free.
    <3>2. alone => PairFree(Rule(r.row, idOf[r.name], r.km))
      <4> SUFFICES ASSUME alone, NEW s \in rules, s.row = r.row, s.service = idOf[r.name]
                   PROVE  FALSE
        BY DEF PairFree, Rule
      <4>1. PICK q \in SeedRules : ListedAs(s, q)
        BY DEF SeedInv
      <4>2. services[idOf[r.name]].name = r.name
        BY <2>1, <2>2 DEF SeedInv
      <4>3. q = r
        BY <4>1, <4>2, SeedAssumption DEF ListedAs
      <4>4. s = Rule(r.row, idOf[r.name], r.km)
        BY <4>1, <4>3 DEF ListedAs, Rule, SeedInv, SeedTypeOK
      <4> QED
        BY <2>4, <4>4 DEF RuleFound
    <3>3. alone' => PairFree(InHand)'
      BY <1>2, <2>1, <3>1, <3>2 DEF InHand, Rule
    <3>4. SeedTypeOK' /\ SeedResumes' /\ SeedComplete'
      BY <1>2, <1>3, <2>1, <3>1, <3>3 DEF SeedInv, SeedTypeOK, SeedResumes, SeedComplete
    <3> QED
      BY <1>2, <1>3, <2>1, <3>1, <3>4 DEF SeedInv
  <2> QED
    BY <2>3, <2>4
<1> QED
  BY <1>5, <1>6, <1>7, <1>8, <1>9

LEMMA SeedServiceKeepsInv ==
  ASSUME SeedInv, UNCHANGED <<pc, req, listVars, draft>>, NEW i \in Ids, SeedService(i)
  PROVE  SeedInv'
<1>1. /\ IInv' /\ Grown /\ Inserted' = Inserted \cup {i} /\ services'[i].name = hand
  BY SeedServiceKeepsIInv
<1>2. /\ at = "service" /\ at' = "find" /\ hand \in todo.names /\ hand \in SeedNames
      /\ idOf' = [idOf EXCEPT ![hand] = i]
      /\ todo' = [todo EXCEPT !.names = @ \ {hand}]
      /\ removed' = removed /\ catalog' = catalog /\ rules' = rules /\ draft' = draft
      /\ alone' = alone /\ quiet' = quiet /\ whole' = whole
  BY DEF SeedService, Go, history, SeedInv, SeedTypeOK
<1>3. Omitted \notin Ids /\ Inserted \subseteq Ids
  BY ServicesAssumption DEF SeedInv, IInv, TypeOK
<1>4. rules \subseteq [row : catalog, service : Inserted, km : Kms]
  BY DEF SeedInv, SeedTypeOK
<1>5. SeedTypeOK' /\ SeedResumes'
  BY <1>1, <1>2, <1>3, <1>4 DEF SeedInv, SeedTypeOK, SeedResumes, IInv
<1>6. \A s \in rules : \A r : ListedAs(s, r)' <=> ListedAs(s, r)
  BY <1>1, <1>4 DEF ListedAs, Grown
<1>7. SeedComplete'
  BY <1>1, <1>2, <1>6 DEF SeedInv, SeedComplete, Grown
<1>8. \A m \in SeedNames \ todo'.names :
        \/ m = hand /\ idOf'[m] = i
        \/ m \notin todo.names /\ idOf'[m] = idOf[m] /\ idOf[m] \in Inserted
  BY <1>2 DEF SeedInv, SeedTypeOK
<1>9. quiet => \A m \in SeedNames \ todo'.names : services'[idOf'[m]].name = m
  BY <1>1, <1>2, <1>8 DEF SeedInv, Grown
<1>10. todo'.rules = todo.rules
  BY <1>2 DEF SeedInv, SeedTypeOK
<1> QED
  BY <1>1, <1>2, <1>5, <1>6, <1>7, <1>9, <1>10 DEF SeedInv

LEMMA SeedRowKeepsInv ==
  ASSUME SeedInv, UNCHANGED <<pc, req, listVars, draft>>, SeedRow
  PROVE  SeedInv'
<1>1. /\ at = "row" /\ at' = "find" /\ hand \in todo.rows /\ hand \in SeedRows
      /\ catalog' = catalog \cup {hand} /\ todo' = [todo EXCEPT !.rows = @ \ {hand}]
      /\ services' = services /\ removed' = removed /\ rules' = rules /\ draft' = draft
      /\ idOf' = idOf /\ alone' = alone /\ quiet' = quiet /\ whole' = whole
  BY DEF SeedRow, Go, history, SeedInv, SeedTypeOK
<1>2. IInv' /\ TypeOK' /\ Inserted' = Inserted
  BY <1>1, IInvKept DEF SeedInv, IInv, Inserted
<1>3. \A s, r : ListedAs(s, r)' = ListedAs(s, r)
  BY <1>1 DEF ListedAs
<1>4. SeedTypeOK' /\ SeedResumes'
  BY <1>1, <1>2 DEF SeedInv, SeedTypeOK, SeedResumes
<1>5. SeedComplete'
  BY <1>1, <1>2, <1>3 DEF SeedInv, SeedComplete
<1>6. todo'.rules = todo.rules /\ todo'.names = todo.names
  BY <1>1 DEF SeedInv, SeedTypeOK
<1> QED
  BY <1>1, <1>2, <1>3, <1>4, <1>5, <1>6 DEF SeedInv

LEMMA SeedRuleKeepsInv ==
  ASSUME SeedInv, UNCHANGED <<pc, req, listVars, draft>>, SeedRule
  PROVE  SeedInv'
<1>1. /\ at = "rule" /\ at' = "find" /\ hand \in todo.rules /\ hand \in SeedRules
      /\ PairFree(InHand)
      /\ rules' = rules \cup {InHand} /\ todo' = [todo EXCEPT !.rules = @ \ {hand}]
      /\ services' = services /\ removed' = removed /\ catalog' = catalog /\ draft' = draft
      /\ idOf' = idOf /\ alone' = alone /\ quiet' = quiet /\ whole' = whole
  BY DEF SeedRule, Go, history, SeedInv, SeedTypeOK
<1>2. IInv' /\ TypeOK' /\ Inserted' = Inserted
  BY <1>1, IInvKept DEF SeedInv, IInv, Inserted
<1>3. /\ hand.name \in SeedNames \ todo.names /\ idOf[hand.name] \in Inserted
      /\ hand.row \in catalog /\ hand.km \in Kms
  BY <1>1, SeedAssumption DEF SeedInv, SeedTypeOK
<1>4. InHand \in [row : catalog, service : Inserted, km : Kms]
  BY <1>3 DEF InHand, Rule
<1>5. \A s, r : ListedAs(s, r)' = ListedAs(s, r)
  BY <1>1 DEF ListedAs
<1>6. SeedTypeOK' /\ SeedResumes'
  BY <1>1, <1>2, <1>4 DEF SeedInv, SeedTypeOK, SeedResumes
<1>7. SeedComplete'
  BY <1>1, <1>2, <1>5 DEF SeedInv, SeedComplete
<1>8. quiet => ListedAs(InHand, hand)
  BY <1>1, <1>3 DEF SeedInv, ListedAs, InHand, Rule
<1>9. /\ todo'.names = todo.names
      /\ \A r \in SeedRules \ todo'.rules : r = hand \/ r \notin todo.rules
  BY <1>1 DEF SeedInv, SeedTypeOK
<1> QED
  BY <1>1, <1>2, <1>5, <1>6, <1>7, <1>8, <1>9 DEF SeedInv

\* What follows for the seed when the others took a step: either no table
\* changed, or it was not alone.
LEMMA OthersKeepRest ==
  ASSUME SeedInv, IInv', SeedTypeOK',
         at' = at, todo' = todo, hand' = hand, idOf' = idOf,
         alone' = (alone /\ UNCHANGED tables),
         quiet' = (quiet /\ UNCHANGED tables),
         whole' = (whole /\ UNCHANGED tables)
  PROVE  SeedInv'
<1>1. CASE UNCHANGED tables
  <2>1. /\ services' = services /\ removed' = removed /\ catalog' = catalog /\ rules' = rules
        /\ Inserted' = Inserted
        /\ \A n : Named(n)' = Named(n)
        /\ \A r : PairFree(r)' = PairFree(r)
        /\ \A s, r : ListedAs(s, r)' = ListedAs(s, r)
    BY <1>1, TablesKept
  <2>2. alone' = alone /\ quiet' = quiet /\ whole' = whole
    BY <1>1 DEF SeedInv, SeedTypeOK
  <2>3. SeedResumes' /\ SeedComplete'
    BY <2>1, <2>2 DEF SeedInv, SeedResumes, SeedComplete, InHand
  <2> QED
    BY <2>1, <2>2, <2>3 DEF SeedInv
<1>2. CASE ~UNCHANGED tables
  <2>1. ~alone' /\ ~quiet' /\ ~whole'
    BY <1>2
  <2> QED
    BY <2>1 DEF SeedInv, SeedResumes, SeedComplete
<1> QED
  BY <1>1, <1>2

\* Requests of the API: they may change a table, and then the seed was not alone.
LEMMA OthersKeepInv == SeedInv /\ Others => SeedInv'
<1> SUFFICES ASSUME SeedInv, Others PROVE SeedInv'
  OBVIOUS
<1>1. at' = at /\ todo' = todo /\ hand' = hand /\ idOf' = idOf
  BY DEF Others, seedVars
<1>2. /\ alone' = (alone /\ UNCHANGED tables)
      /\ quiet' = (quiet /\ UNCHANGED tables)
      /\ whole' = (whole /\ UNCHANGED tables)
  BY DEF Others
<1>3. CASE ListsNext /\ UNCHANGED <<catalog, rules, draft>>
  <2>1. IInv' /\ Inserted \subseteq Inserted' /\ TypeOK'
    BY <1>3, ListsKeepIInv DEF SeedInv, IInv
  <2>2. SeedTypeOK'
    BY <1>1, <1>2, <1>3, <2>1 DEF SeedInv, SeedTypeOK
  <2> QED
    BY <1>1, <1>2, <2>1, <2>2, OthersKeepRest
<1>4. CASE (\E c \in Clerks : ClerkStep(c)) /\ UNCHANGED <<allVars, catalog>>
  <2>1. /\ IInv' /\ TypeOK' /\ catalog' = catalog /\ Inserted' = Inserted
    BY <1>4, IInvKept DEF allVars, vars, rows, Inserted, SeedInv, IInv
  <2>2. PICK c \in Clerks : ClerkStep(c)
    BY <1>4
  <2>3. /\ draft' \in [Clerks -> [row : SeedRows, service : Ids, km : Kms] \cup {Omitted}]
        /\ rules' \subseteq [row : catalog, service : Inserted, km : Kms]
    <3>1. ASSUME NEW k \in SeedRows, NEW i \in Ids, NEW km \in Kms,
                 CreateRule(c, Rule(k, i, km)) \/ RefuseRule(c, Rule(k, i, km))
          PROVE  <2>3
      BY <3>1 DEF CreateRule, RefuseRule, Rule, SeedInv, SeedTypeOK
    <3>2. CASE InsertRule(c)
      <4>1. /\ draft[c] \in [row : SeedRows, service : Ids, km : Kms]
            /\ draft[c].row \in catalog /\ draft[c].service \in Inserted
            /\ rules' = rules \cup {draft[c]} /\ draft' = [draft EXCEPT ![c] = Omitted]
        BY <3>2 DEF InsertRule, SeedInv, SeedTypeOK
      <4>2. draft[c] \in [row : catalog, service : Inserted, km : Kms]
        BY <4>1
      <4> QED
        BY <4>1, <4>2 DEF SeedInv, SeedTypeOK
    <3>3. CASE RuleFails(c)
      BY <3>3 DEF RuleFails, SeedInv, SeedTypeOK
    <3> QED
      BY <2>2, <3>1, <3>2, <3>3 DEF ClerkStep
  <2>4. SeedTypeOK'
    BY <1>1, <1>2, <2>1, <2>3 DEF SeedInv, SeedTypeOK
  <2> QED
    BY <1>1, <1>2, <2>1, <2>3, <2>4, OthersKeepRest
<1>5. CASE (\E k \in SeedRows : AddRow(k)) /\ UNCHANGED <<allVars, rules, draft>>
  <2>1. IInv' /\ TypeOK' /\ Inserted' = Inserted
    BY <1>5, IInvKept DEF allVars, vars, rows, Inserted, SeedInv, IInv
  <2>2. \E k \in SeedRows : catalog' = catalog \cup {k}
    BY <1>5 DEF AddRow
  <2>3. SeedTypeOK'
    BY <1>1, <1>2, <1>5, <2>1, <2>2 DEF SeedInv, SeedTypeOK
  <2> QED
    BY <1>1, <1>2, <2>1, <2>3, OthersKeepRest
<1> QED
  BY <1>3, <1>4, <1>5 DEF Others

LEMMA SeedInvNext == SeedInv /\ [SeedNext]_all => SeedInv'
<1> SUFFICES ASSUME SeedInv, [SeedNext]_all PROVE SeedInv'
  OBVIOUS
<1>1. CASE UNCHANGED all
  <2>1. /\ UNCHANGED tables /\ pc' = pc /\ req' = req /\ draft' = draft
        /\ at' = at /\ todo' = todo /\ hand' = hand /\ idOf' = idOf
        /\ alone' = alone /\ quiet' = quiet /\ whole' = whole
    BY <1>1 DEF all, allVars, vars, rows, tables, seedVars, history
  <2>2. /\ services' = services /\ removed' = removed /\ catalog' = catalog /\ rules' = rules
        /\ Inserted' = Inserted
        /\ \A n : Named(n)' = Named(n)
        /\ \A r : PairFree(r)' = PairFree(r)
        /\ \A s, r : ListedAs(s, r)' = ListedAs(s, r)
    BY <2>1, TablesKept
  <2>3. IInv' /\ TypeOK' /\ SeedComplete'
    BY <2>1, <2>2, IInvKept DEF SeedInv, IInv, SeedComplete
  <2>4. SeedTypeOK' /\ SeedResumes'
    BY <2>1, <2>2, <2>3 DEF SeedInv, SeedTypeOK, SeedResumes, InHand
  <2> QED
    BY <2>1, <2>2, <2>3, <2>4 DEF SeedInv
<1>2. CASE Seed
  BY <1>2, LookKeepsInv, SeedServiceKeepsInv, SeedRowKeepsInv, SeedRuleKeepsInv DEF Seed
<1> QED
  BY <1>1, <1>2, OthersKeepInv DEF SeedNext

\* The seed and the API keep their state well-formed, wherever the seed stops.
THEOREM SeedTypeCorrect == SeedSpec => []SeedTypeOK
<1>1. SeedInv => SeedTypeOK
  BY DEF SeedInv
<1> QED
  BY <1>1, SeedInvInit, SeedInvNext, PTL DEF SeedSpec

\* With a seed that runs beside the API, no two services that are not removed
\* have one name.
THEOREM UniqueNamesSeeded == SeedSpec => []NamesUnique
<1>1. SeedInv => NamesUnique
  BY DEF SeedInv, IInv
<1> QED
  BY <1>1, SeedInvInit, SeedInvNext, PTL DEF SeedSpec

\* A seed that was cut off anywhere can be run again: alone, it never stumbles
\* over the rows of an earlier run (main's find-or-create pairs).
THEOREM Resumes == SeedSpec => []SeedResumes
<1>1. SeedInv => SeedResumes
  BY DEF SeedInv
<1> QED
  BY <1>1, SeedInvInit, SeedInvNext, PTL DEF SeedSpec

\* A seed that ended undisturbed leaves everything that seed-data.ts lists.
THEOREM Completes == SeedSpec => []SeedComplete
<1>1. SeedInv => SeedComplete
  BY DEF SeedInv
<1> QED
  BY <1>1, SeedInvInit, SeedInvNext, PTL DEF SeedSpec
=============================================================================
