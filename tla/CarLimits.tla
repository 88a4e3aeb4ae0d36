------------------------------ MODULE CarLimits ------------------------------
(***************************************************************************)
(* How many cars an owner may have (src/cars): create counts the owner's   *)
(* cars, compares the count with the limit and inserts in a statement of   *)
(* its own; remove marks a car as deleted, which frees its place but not   *)
(* its plate or its barcode.                                               *)
(***************************************************************************)
EXTENDS Integers, FiniteSets

CONSTANTS
  Handlers,   \* requests in progress at the same time
  Owners,     \* users with cars of their own, and organizations
  Fleets,     \* the organizations among them
  Plates,     \* plate numbers
  Barcodes,   \* barcodes of fleet vehicles
  Limit,      \* PERSONAL_CAR_LIMIT or FLEET_CAR_LIMIT of each owner
  None        \* no plate, no barcode, no owner

ASSUME LimitsAssumption ==
  /\ IsFiniteSet(Handlers) /\ Handlers # {}
  /\ IsFiniteSet(Plates)
  /\ Limit \in [Owners -> Nat \ {0}]
  /\ Fleets \subseteq Owners
  /\ None \notin Owners \cup Plates \cup Barcodes

VARIABLES
  owner,      \* the owner of the car with a plate, or None
  removed,    \* plates of the cars with deletedAt set
  barcode,    \* the barcode of the car with a plate, or None
  pc,         \* where each request is
  req         \* the owner, the plate and the barcode each request is about

cars == <<owner, removed, barcode>>
vars == <<cars, pc, req>>

Nothing == [owner |-> None, plate |-> None, barcode |-> None]
Request == [owner : Owners \cup {None}, plate : Plates \cup {None},
            barcode : Barcodes \cup {None}]

\* The cars countByUserId or countByOrganizationId counts.
Cars(o) == {p \in Plates : owner[p] = o /\ p \notin removed}

Init ==
  /\ owner = [p \in Plates |-> None]
  /\ removed = {}
  /\ barcode = [p \in Plates |-> None]
  /\ pc = [h \in Handlers |-> "idle"]
  /\ req = [h \in Handlers |-> Nothing]

Start(h, at, o, p, b) ==
  /\ pc[h] = "idle"
  /\ pc' = [pc EXCEPT ![h] = at]
  /\ req' = [req EXCEPT ![h] = [owner |-> o, plate |-> p, barcode |-> b]]
  /\ UNCHANGED cars

Finish(h) ==
  /\ pc' = [pc EXCEPT ![h] = "idle"]
  /\ req' = [req EXCEPT ![h] = Nothing]

\* Mutant: an owner at the limit may add one more car.
UpToLimit(o) == Cardinality(Cars(o)) <= Limit[o]

BelowLimit(o) == Cardinality(Cars(o)) < Limit[o]

\* createPersonalCar and createFleetCar: the count is below the limit.
Create(h, o, p) == BelowLimit(o) /\ Start(h, "insert", o, p, None)

\* The limit is reached (403).
RefuseLimit(h, o) ==
  /\ pc[h] = "idle"
  /\ ~BelowLimit(o)
  /\ UNCHANGED vars

\* The plate is new: plateNumber is unique over all rows, removed ones included.
InsertCar(h) ==
  /\ pc[h] = "insert"
  /\ owner[req[h].plate] = None
  /\ owner' = [owner EXCEPT ![req[h].plate] = req[h].owner]
  /\ Finish(h)
  /\ UNCHANGED <<removed, barcode>>

\* findOne finds the car p for its owner or an administrator.
Found(p) == owner[p] # None /\ p \notin removed

\* findOne throws (404).
RefuseMissing(h, p) ==
  /\ pc[h] = "idle"
  /\ ~Found(p)
  /\ UNCHANGED vars

Remove(h, p) == Found(p) /\ Start(h, "remove", None, p, None)

SoftDelete(h) ==
  /\ pc[h] = "remove"
  /\ removed' = removed \cup {req[h].plate}
  /\ Finish(h)
  /\ UNCHANGED <<owner, barcode>>

\* Only fleet vehicles have barcodes.
AssignBarcode(h, p, b) ==
  Found(p) /\ owner[p] \in Fleets /\ Start(h, "barcode", None, p, b)

\* A personal car (403).
RefuseBarcode(h, p) ==
  /\ pc[h] = "idle"
  /\ Found(p) /\ owner[p] \notin Fleets
  /\ UNCHANGED vars

\* Mutant: the column is not unique.
NoBarcodeIndex(p, b) == FALSE

\* barcode is unique over all rows, removed ones included.
BarcodeTaken(p, b) == \E q \in Plates \ {p} : barcode[q] = b

\* The barcode is written by id, over the one the car had.
PutBarcode(h) ==
  LET p == req[h].plate  b == req[h].barcode IN
  /\ pc[h] = "barcode"
  /\ ~BarcodeTaken(p, b)
  /\ barcode' = [barcode EXCEPT ![p] = b]
  /\ Finish(h)
  /\ UNCHANGED <<owner, removed>>

findCarByBarcode(b) == {p \in Plates : barcode[p] = b}

\* What a scan by a driver of organization o is answered with, if anything.
authenticateVehicle(b, o) ==
  {p \in findCarByBarcode(b) : owner[p] \in Fleets /\ owner[p] = o}

\* Prisma's P2002 for a plate or a barcode, answered as a conflict.
RefuseDuplicate(h) ==
  /\ \/ pc[h] = "insert" /\ owner[req[h].plate] # None
     \/ pc[h] = "barcode" /\ BarcodeTaken(req[h].plate, req[h].barcode)
  /\ Finish(h)
  /\ UNCHANGED cars

\* The request ends between its two statements.
HandlerFails(h) ==
  /\ pc[h] # "idle"
  /\ Finish(h)
  /\ UNCHANGED cars

ReceiveBarcode(h) ==
  \E p \in Plates : RefuseBarcode(h, p) \/ \E b \in Barcodes : AssignBarcode(h, p, b)

Receive(h) ==
  \/ \E o \in Owners : RefuseLimit(h, o) \/ \E p \in Plates : Create(h, o, p)
  \/ \E p \in Plates : Remove(h, p) \/ RefuseMissing(h, p)
  \/ ReceiveBarcode(h)

Work(h) ==
  InsertCar(h) \/ SoftDelete(h) \/ PutBarcode(h) \/ RefuseDuplicate(h) \/ HandlerFails(h)

Next == \E h \in Handlers : Receive(h) \/ Work(h)

Spec == Init /\ [][Next]_vars

-----------------------------------------------------------------------------
(* Properties.                                                             *)

TypeOK ==
  /\ owner \in [Plates -> Owners \cup {None}]
  /\ removed \in SUBSET Plates
  /\ barcode \in [Plates -> Barcodes \cup {None}]
  /\ pc \in [Handlers -> {"idle", "insert", "remove", "barcode"}]
  /\ req \in [Handlers -> Request]
  /\ \A h \in Handlers :
       /\ pc[h] # "idle" => req[h].plate \in Plates
       /\ pc[h] = "insert" => req[h].owner \in Owners
       /\ pc[h] = "barcode" => /\ req[h].barcode \in Barcodes
                               /\ owner[req[h].plate] \in Fleets

\* The requests that counted below the limit and have still to insert.
Inserting(o) == {h \in Handlers : pc[h] = "insert" /\ req[h].owner = o}

\* The count and the insert are two statements (cars.service.ts): an owner's
\* cars and the inserts to come exceed the limit by no more than the number of
\* overlapping requests allows, whatever is removed and added again in between.
PlacesBounded ==
  \A o \in Owners :
    Cardinality(Cars(o)) + Cardinality(Inserting(o))
      <= Limit[o] + Cardinality(Handlers) - 1

\* assignBarcode writes by id after its check, and removed cars keep their
\* barcodes: no barcode is ever on two cars, or on a personal one.
BarcodesUnique ==
  \A p \in Plates :
    barcode[p] # None =>
      owner[p] \in Fleets /\ \A q \in Plates : barcode[q] = barcode[p] => q = p

\* A driver who scans a barcode (authenticateVehicle) is shown the one car it was
\* assigned to last, and only a driver of the organization that has it.
ScansExact ==
  \A o \in Fleets, p \in Plates :
    barcode[p] # None =>
      authenticateVehicle(barcode[p], o) = IF o = owner[p] THEN {p} ELSE {}

\* The inductive invariant.
IInv == TypeOK /\ PlacesBounded /\ BarcodesUnique

\* So an owner has at most n - 1 cars above the limit, with n requests at a time.
OverrunBounded ==
  \A o \in Owners :
    Cardinality(Cars(o)) <= Limit[o] + Cardinality(Handlers) - 1

==============================================================================
