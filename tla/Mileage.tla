------------------------------- MODULE Mileage -------------------------------
(***************************************************************************)
(* The odometer column of a car and the four requests that write it: a     *)
(* driver's fuel log (src/fleet), a maintenance record (src/maintenance),  *)
(* an edit of the car and its removal (src/cars).  Each reads the car,     *)
(* decides, and writes an absolute value later; nothing locks the row      *)
(* between the read and the write.                                         *)
(*                                                                         *)
(* A fuel log is stored in one READ COMMITTED transaction whose only       *)
(* update is of the car row, so its writes become visible in one step at   *)
(* COMMIT.  A maintenance record and the mileage it implies are two        *)
(* separate statements.                                                    *)
(***************************************************************************)
EXTENDS Integers, Sequences

CONSTANTS
  Handlers,   \* requests in progress at the same time
  Cars,       \* rows of the Car table, all of one organisation's fleet
  Readings,   \* mileages requests report (bounds the DTOs' integers)
  MaxLogs,    \* fuel logs a car may get (bounds the FuelLog table)
  Never,      \* no maintenance record of the service
  None        \* no car

ASSUME MileageAssumption ==
  /\ Readings \in SUBSET Nat
  /\ MaxLogs \in Nat
  /\ Never \notin Nat
  /\ None \notin Cars

VARIABLES
  mileage,    \* Car.mileageKm as last committed
  removed,    \* cars with deletedAt set
  logs,       \* FuelLog.odometerKms of a car, oldest first
  lastKm,     \* mileageKm of the latest maintenance record (by performedAt)
  pc,         \* where each handler is
  req,        \* the car and the mileage each handler was given
  seen,       \* mileage each handler read last
  overtaken   \* history: handlers whose car got a new mileage since they read it

car  == <<mileage, removed, logs, lastKm>>
vars == <<car, pc, req, seen, overtaken>>

PC == {"idle", "fuel", "log", "record", "advance", "edit", "remove"}
Nothing == [car |-> None, km |-> 0]

Init ==
  /\ mileage \in [Cars -> Readings]
  /\ removed = {}
  /\ logs = [c \in Cars |-> <<>>]
  /\ lastKm = [c \in Cars |-> Never]
  /\ pc = [h \in Handlers |-> "idle"]
  /\ req = [h \in Handlers |-> Nothing]
  /\ seen = [h \in Handlers |-> 0]
  /\ overtaken = {}

-----------------------------------------------------------------------------
(* Steps every request is made of.                                         *)

\* SELECT of the request's car, which is what h decides on from now on.
Read(h, c) ==
  /\ seen' = [seen EXCEPT ![h] = mileage[c]]
  /\ overtaken' = overtaken \ {h}

Start(h, at, c, km) ==
  /\ pc[h] = "idle"
  /\ pc' = [pc EXCEPT ![h] = at]
  /\ req' = [req EXCEPT ![h] = [car |-> c, km |-> km]]
  /\ Read(h, c)
  /\ UNCHANGED car

Finish(h) ==
  /\ pc' = [pc EXCEPT ![h] = "idle"]
  /\ req' = [req EXCEPT ![h] = Nothing]
  /\ seen' = [seen EXCEPT ![h] = 0]

\* UPDATE "Car" SET mileageKm = km: others decided on an older value.
SetMileage(h) ==
  /\ mileage' = [mileage EXCEPT ![req[h].car] = req[h].km]
  /\ overtaken' = (overtaken \ {h}) \cup
                  {g \in Handlers \ {h} : pc[g] # "idle" /\ req[g].car = req[h].car}

-----------------------------------------------------------------------------
(* POST /fleet/logs: FleetService.addFuelLog.                              *)

\* findCarById (which does not look at deletedAt) and the first comparison.
AddFuelLog(h, c, km) ==
  /\ Len(logs[c]) < MaxLogs
  /\ km >= mileage[c]
  /\ Start(h, "fuel", c, km)

\* The reading is below the mileage (400).
RefuseFuelLog(h, c, km) ==
  /\ pc[h] = "idle"
  /\ km < mileage[c]
  /\ UNCHANGED vars

\* Mutant: the first comparison is trusted.
AnyReading(km, current) == TRUE

ReadingAccepted(km, current) == km >= current

\* BEGIN; the transaction reads the mileage again and compares again.
OpenFuelTx(h) ==
  /\ pc[h] = "fuel"
  /\ ReadingAccepted(req[h].km, mileage[req[h].car])
  /\ pc' = [pc EXCEPT ![h] = "log"]
  /\ Read(h, req[h].car)
  /\ UNCHANGED <<car, req>>

RejectFuelLog(h) ==
  /\ pc[h] = "fuel"
  /\ ~ReadingAccepted(req[h].km, mileage[req[h].car])
  /\ Finish(h)
  /\ UNCHANGED <<car, overtaken>>

\* INSERT of the log, UPDATE of the car, COMMIT.  The guard on Len is the bound
\* on logs.
CommitFuelLog(h) ==
  LET c == req[h].car IN
  /\ pc[h] = "log"
  /\ Len(logs[c]) < MaxLogs
  /\ logs' = [logs EXCEPT ![c] = Append(@, req[h].km)]
  /\ SetMileage(h)
  /\ Finish(h)
  /\ UNCHANGED <<removed, lastKm>>

-----------------------------------------------------------------------------
(* POST /maintenance/records/:carId: MaintenanceService.recordMaintenance. *)

RecordMaintenance(h, c, km) ==
  /\ c \notin removed
  /\ Start(h, "record", c, km)

\* A removed car is not found (404) by recordMaintenance, update and remove.
RefuseRemoved(h, c) ==
  /\ pc[h] = "idle"
  /\ c \in removed
  /\ UNCHANGED vars

\* Mutant: the record's mileage is written whatever the car's is.
AlwaysAdvance(h) == TRUE

\* The mileage the handler read, before it stored the record, is lower.
MustAdvance(h) == req[h].km > seen[h]

\* INSERT of the record.  performedAt comes from the client, so a record is the
\* latest of its service or is dated before the latest.
CreateRecord(h) ==
  LET c == req[h].car IN
  /\ pc[h] = "record"
  /\ \/ lastKm' = [lastKm EXCEPT ![c] = req[h].km]
     \/ lastKm[c] # Never /\ UNCHANGED lastKm
  /\ IF MustAdvance(h)
       THEN pc' = [pc EXCEPT ![h] = "advance"] /\ UNCHANGED <<req, seen>>
       ELSE Finish(h)
  /\ UNCHANGED <<mileage, removed, logs, overtaken>>

\* updateCarMileage: a statement of its own.
AdvanceMileage(h) ==
  /\ pc[h] = "advance"
  /\ SetMileage(h)
  /\ Finish(h)
  /\ UNCHANGED <<removed, logs, lastKm>>

-----------------------------------------------------------------------------
(* PATCH and DELETE /cars/:id: CarsService.update and remove.              *)

UpdateCar(h, c, km) ==
  /\ c \notin removed
  /\ Start(h, "edit", c, km)

\* The edit may correct the mileage in either direction.
EditCar(h) ==
  /\ pc[h] = "edit"
  /\ SetMileage(h)
  /\ Finish(h)
  /\ UNCHANGED <<removed, logs, lastKm>>

RemoveCar(h, c) ==
  /\ c \notin removed
  /\ Start(h, "remove", c, 0)

SoftDeleteCar(h) ==
  /\ pc[h] = "remove"
  /\ removed' = removed \cup {req[h].car}
  /\ Finish(h)
  /\ UNCHANGED <<mileage, logs, lastKm, overtaken>>

-----------------------------------------------------------------------------
\* A statement or the connection fails, or the process dies: the request ends,
\* what it committed before stays.
HandlerFails(h) ==
  /\ pc[h] # "idle"
  /\ Finish(h)
  /\ UNCHANGED <<car, overtaken>>

Receive(h) ==
  \E c \in Cars :
    \/ RemoveCar(h, c) \/ RefuseRemoved(h, c)
    \/ \E km \in Readings : \/ AddFuelLog(h, c, km) \/ RefuseFuelLog(h, c, km)
                            \/ RecordMaintenance(h, c, km)
                            \/ UpdateCar(h, c, km)

Work(h) ==
  \/ OpenFuelTx(h) \/ RejectFuelLog(h) \/ CommitFuelLog(h)
  \/ CreateRecord(h) \/ AdvanceMileage(h)
  \/ EditCar(h) \/ SoftDeleteCar(h)

Next == \E h \in Handlers : Receive(h) \/ Work(h) \/ HandlerFails(h)

Spec == Init /\ [][Next]_vars

-----------------------------------------------------------------------------
(* Properties.                                                             *)

\* Every variable holds what its column or its place in a handler can hold.
TypeOK ==
  /\ mileage \in [Cars -> Readings]
  /\ removed \in SUBSET Cars
  /\ logs \in [Cars -> Seq(Readings)]
  /\ lastKm \in [Cars -> Readings \cup {Never}]
  /\ pc \in [Handlers -> PC]
  /\ req \in [Handlers -> [car : Cars \cup {None}, km : Readings \cup {0}]]
  /\ seen \in [Handlers -> Readings \cup {0}]
  /\ overtaken \in SUBSET Handlers

\* A request at work names a car and a reading of its own.
RequestShape ==
  \A h \in Handlers :
    /\ pc[h] # "idle" => req[h].car \in Cars
    /\ pc[h] \in {"fuel", "log", "record", "advance", "edit"} => req[h].km \in Readings

\* What a handler that was not overtaken read is still there, so what it
\* decided is still right: its write does not lower the mileage.
FreshDecision ==
  \A h \in Handlers :
    /\ pc[h] # "idle" /\ h \notin overtaken => seen[h] = mileage[req[h].car]
    /\ pc[h] = "log" => req[h].km >= seen[h]
    /\ pc[h] = "advance" => req[h].km > seen[h]

\* The inductive invariant behind the theorems of MileageProofs.
IInv == TypeOK /\ RequestShape /\ FreshDecision

\* A car's mileage only falls when an edit says so, or when a fuel log or a
\* record is written by a request that another write of the same car overtook
\* between its last read and its write (createFuelLogAndUpdateMileage and
\* recordMaintenance): requests that do not overlap never lose mileage.
LossNeedsOverlap ==
  [][\A c \in Cars :
       mileage'[c] < mileage[c] =>
         \E h \in Handlers :
           /\ req[h].car = c /\ pc'[h] = "idle"
           /\ \/ pc[h] = "edit"
              \/ pc[h] \in {"log", "advance"} /\ h \in overtaken]_vars

\* "updates car.mileageKm if the record mileage is higher"
\* (maintenance.controller.ts): a record never lowers the mileage.
RecordsOnlyRaise ==
  [][\A h \in Handlers :
       pc[h] = "advance" /\ pc'[h] = "idle" =>
         mileage'[req[h].car] >= mileage[req[h].car]]_vars

==============================================================================
