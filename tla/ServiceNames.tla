----------------------------- MODULE ServiceNames -----------------------------
(***************************************************************************)
(* The table of services (src/services): create, update and remove ask the *)
(* database first and then write by id, each query a statement of its own. *)
(* A unique index over the rows that are not removed stands behind the     *)
(* query for the name.                                                     *)
(***************************************************************************)
EXTENDS Integers, FiniteSets

CONSTANTS
  Handlers,   \* requests in progress at the same time
  Ids,        \* service rows that can be inserted (bounds the table)
  Names,      \* names a service may be given
  Active,     \* values of isActive the requests use
  Omitted     \* a field that a PATCH leaves out; also: no row

ASSUME ServicesAssumption ==
  /\ Active \subseteq BOOLEAN
  /\ Omitted \notin Ids \cup Names \cup BOOLEAN

VARIABLES
  services,   \* rows of Service, removed ones included
  removed,    \* rows with deletedAt set
  pc,         \* where each request is
  req         \* what each request is about: the row and the fields to write

rows == <<services, removed>>
vars == <<rows, pc, req>>

Service == [name : Names, isActive : Active]

\* The fields of a PATCH are optional (UpdateServiceDto).
Patch   == [name : Names \cup {Omitted}, isActive : Active \cup {Omitted}]
Request == [id : Ids \cup {Omitted}, data : Patch]
Nothing == [id |-> Omitted, data |-> [name |-> Omitted, isActive |-> Omitted]]

Inserted == DOMAIN services
Live     == Inserted \ removed

\* The rows findByName chooses from.
Named(n) == {i \in Live : services[i].name = n}

Creating(h) == pc[h] \in {"name", "put"} /\ req[h].id = Omitted

Init ==
  /\ services = <<>>
  /\ removed = {}
  /\ pc = [h \in Handlers |-> "idle"]
  /\ req = [h \in Handlers |-> Nothing]

Start(h, at, r) ==
  /\ pc[h] = "idle"
  /\ pc' = [pc EXCEPT ![h] = at]
  /\ req' = [req EXCEPT ![h] = r]
  /\ UNCHANGED rows

GoTo(h, at) == pc' = [pc EXCEPT ![h] = at] /\ UNCHANGED req

Finish(h) ==
  /\ pc' = [pc EXCEPT ![h] = "idle"]
  /\ req' = [req EXCEPT ![h] = Nothing]

\* The guard on Ids is the bound on rows.
Create(h, s) ==
  /\ Cardinality({g \in Handlers : Creating(g)}) < Cardinality(Ids \ Inserted)
  /\ Start(h, "name", [id |-> Omitted, data |-> s])

\* findOne finds the service; without a name in the PATCH none is looked up.
Update(h, i, p) ==
  /\ i \in Live
  /\ Start(h, IF p.name = Omitted THEN "put" ELSE "name", [id |-> i, data |-> p])

Remove(h, i) ==
  /\ i \in Live
  /\ Start(h, "remove", [Nothing EXCEPT !.id = i])

\* findOne throws (404).
RefuseMissing(h, i) ==
  /\ pc[h] = "idle"
  /\ i \notin Live
  /\ UNCHANGED vars

\* findByName may answer null or, for an update, the service itself: it
\* returns one row of that name, any of them.
NameFree(h) ==
  \/ Named(req[h].data.name) = {}
  \/ req[h].id \in Named(req[h].data.name)

\* Mutant: the row that is found is not compared with the row to update.
NameFound(h) == Named(req[h].data.name) # {}

NameTaken(h) == Named(req[h].data.name) \ {req[h].id} # {}

CheckName(h) ==
  /\ pc[h] = "name"
  /\ NameFree(h)
  /\ GoTo(h, "put")
  /\ UNCHANGED rows

RejectName(h) ==
  /\ pc[h] = "name"
  /\ NameTaken(h)
  /\ Finish(h)
  /\ UNCHANGED rows

\* Mutant: the migration with the index is missing.
NoIndex(h) == TRUE

\* The unique index Service_name_active_key admits what h writes: it covers the
\* rows that are not removed.
IndexAdmits(h) ==
  req[h].id \in removed \/ Named(req[h].data.name) \subseteq {req[h].id}

\* Prisma's P2002, answered as a conflict.
RefuseDuplicate(h) ==
  /\ pc[h] = "put"
  /\ ~IndexAdmits(h)
  /\ Finish(h)
  /\ UNCHANGED rows

\* servicesRepository.create.
InsertService(h, i) ==
  /\ pc[h] = "put"
  /\ req[h].id = Omitted
  /\ IndexAdmits(h)
  /\ i \in Ids \ Inserted
  /\ services' = [j \in Inserted \cup {i} |->
                    IF j = i THEN req[h].data ELSE services[j]]
  /\ GoTo(h, "drop")
  /\ UNCHANGED removed

\* Mutant: the columns of fields that were left out are overwritten too.
WholeRow(old, p) == p

\* The row with the fields that the PATCH has.
Patched(old, p) ==
  [f \in {"name", "isActive"} |-> IF p[f] = Omitted THEN old[f] ELSE p[f]]

\* servicesRepository.update, by id alone.
PutService(h) ==
  /\ pc[h] = "put"
  /\ req[h].id # Omitted
  /\ IndexAdmits(h)
  /\ services' = [services EXCEPT ![req[h].id] = Patched(@, req[h].data)]
  /\ GoTo(h, "drop")
  /\ UNCHANGED removed

SoftDelete(h) ==
  /\ pc[h] = "remove"
  /\ removed' = removed \cup {req[h].id}
  /\ GoTo(h, "drop")
  /\ UNCHANGED services

\* The end of a request that changed a row: invalidateListCache and the answer.
Answer(h) ==
  /\ pc[h] = "drop"
  /\ Finish(h)
  /\ UNCHANGED rows

\* A statement fails, or its answer is lost after it took effect.
HandlerFails(h) ==
  /\ pc[h] # "idle"
  /\ Finish(h)
  /\ UNCHANGED rows

Receive(h) ==
  \/ \E s \in Service : Create(h, s)
  \/ \E i \in Ids : \/ Remove(h, i)
                    \/ RefuseMissing(h, i)
                    \/ \E p \in Patch : Update(h, i, p)

Write(h) ==
  \/ CheckName(h) \/ RejectName(h) \/ RefuseDuplicate(h)
  \/ PutService(h) \/ SoftDelete(h)
  \/ \E i \in Ids : InsertService(h, i)

Next == \E h \in Handlers : Receive(h) \/ Write(h) \/ Answer(h) \/ HandlerFails(h)

Spec == Init /\ [][Next]_vars

-----------------------------------------------------------------------------
(* Properties.                                                             *)

\* The columns keep their types through partial updates, and a request that
\* writes to a row has one.
TypeOK ==
  /\ Inserted \subseteq Ids
  /\ services \in [Inserted -> Service]
  /\ removed \in SUBSET Inserted
  /\ pc \in [Handlers -> {"idle", "name", "put", "remove", "drop"}]
  /\ req \in [Handlers -> Request]
  /\ \A h \in Handlers :
       /\ req[h].id \in Inserted \cup {Omitted}
       /\ pc[h] = "remove" => req[h].id # Omitted
       /\ Creating(h) => req[h].data \in Service
       /\ pc[h] = "name" => req[h].data.name \in Names

\* "Service with name ... already exists" (services.service.ts, create and
\* update): however requests that overlap check, rename, remove and create, no
\* two services that are not removed have one name.
NamesUnique ==
  \A i, j \in Live : services[i].name = services[j].name => i = j

\* A PATCH that repeats the name its service has is not refused for it: no
\* other service can have that name and be the one that findByName returns.
OwnNameNotRefused ==
  [][\A h \in Handlers :
       RejectName(h) \/ RefuseDuplicate(h)
         => req[h].id \notin Named(req[h].data.name)]_vars

\* The inductive invariant.
IInv == TypeOK /\ NamesUnique
==============================================================================
