-------------------------- MODULE MaintenanceChecks --------------------------
(***************************************************************************)
(* The nightly maintenance scan (src/maintenance): MaintenanceCron reads   *)
(* the cars that are not removed and queues a delayed check for each, one  *)
(* chunk after another; MaintenanceProcessor, one job at a time, reads the *)
(* car as it is by then and reports a service that is due.  Composes       *)
(* Mileage and MaintenanceRules with the scan, the BullMQ queue, its       *)
(* worker and crashes.                                                     *)
(***************************************************************************)
EXTENDS Mileage, MaintenanceRules, FiniteSets

CONSTANTS
  Interval,   \* MaintenanceRule.intervalKm of the one rule of the cars' model
  ChunkSize,  \* CHUNK_SIZE
  MaxChecks   \* checks of a car in Redis when a scan starts (bounds the queue)

ASSUME ChecksAssumption ==
  /\ Interval \in Nat \ {0}
  /\ ChunkSize \in Nat \ {0}
  /\ MaxChecks \in Nat \ {0}

VARIABLES
  scan,       \* cars the running scan has still to queue
  queued,     \* checks in Redis, delayed or waiting, per car
  active,     \* car whose check the worker runs, or None
  notified    \* history: cars reported, and due ever since

checks  == <<scan, queued, active>>
allVars == <<vars, checks, notified>>

TheRule == [km |-> Interval, months |-> 0]

\* What the table holds of the rule's service for a car; its latest record
\* decides, at whatever date it was performed.
History(c, date) ==
  IF lastKm[c] = Never THEN {} ELSE {[km |-> lastKm[c], date |-> date]}

AnyDate == CHOOSE date \in Dates : TRUE

\* Mutant: a car is only reported for a service it has had.
AlertedIfPerformed(c) ==
  Alerts(TheRule, History(c, AnyDate), mileage[c]) = {"INTERVAL_EXCEEDED"}

\* The worker reports the car.
IsDue(c) == Alerts(TheRule, History(c, AnyDate), mileage[c]) # {"NONE"}

\* The status report says so, or there is no record to go by.
Overdue(c) ==
  \/ lastKm[c] = Never
  \/ "OVERDUE" \in Report(TheRule, History(c, AnyDate), mileage[c], 0)

ChecksInit ==
  /\ Init
  /\ scan = {}
  /\ queued = [c \in Cars |-> 0]
  /\ active = None
  /\ notified = {}

\* Cars in `reported' stay notified while they are overdue.
Notified(reported) == notified' = {c \in reported : Overdue(c)'}

\* A step of a request.
ServeRequest(h) ==
  /\ Receive(h) \/ Work(h) \/ HandlerFails(h)
  /\ Notified(notified)
  /\ UNCHANGED checks

\* Mutant: the scan does not look at deletedAt.
EveryCar == Cars

ActiveCars == Cars \ removed

\* scanAllCars reads the cars.  The guard on `queued' is the bound on checks.
StartScan ==
  /\ scan = {}
  /\ \A c \in Cars : queued[c] < MaxChecks
  /\ scan' = ActiveCars
  /\ UNCHANGED <<vars, queued, active, notified>>

\* Promise.all over one chunk: each car's job is added or not, and one failure
\* ends the scan: the chunks that follow are not queued.
QueueChunk(chunk, failed) ==
  /\ scan # {}
  /\ chunk \subseteq scan /\ failed \subseteq chunk
  /\ chunk = scan \/ Cardinality(chunk) = ChunkSize
  /\ Cardinality(chunk) <= ChunkSize
  /\ queued' = [c \in Cars |-> IF c \in chunk \ failed THEN queued[c] + 1 ELSE queued[c]]
  /\ scan' = IF failed = {} THEN scan \ chunk ELSE {}
  /\ UNCHANGED <<vars, active, notified>>

\* The delay is over and the worker, whose concurrency is one, takes the job.
TakeCheck(c) ==
  /\ active = None
  /\ queued[c] > 0
  /\ queued' = [queued EXCEPT ![c] = @ - 1]
  /\ active' = c
  /\ UNCHANGED <<vars, scan, notified>>

\* handleCheckMaintenance: the car is looked up whether or not it was removed.
RunCheck ==
  /\ active # None
  /\ active' = None
  /\ UNCHANGED <<vars, scan, queued>>
  /\ Notified(IF IsDue(active) THEN notified \cup {active} ELSE notified)

\* The lookup fails; the job was added without attempts.
CheckFails ==
  /\ active # None
  /\ active' = None
  /\ UNCHANGED <<vars, scan, queued, notified>>

\* The process dies: requests and the scan are gone, a running job is found
\* stalled and put back or (the second time) failed.
Crash ==
  /\ pc' = [h \in Handlers |-> "idle"]
  /\ req' = [h \in Handlers |-> Nothing]
  /\ seen' = [h \in Handlers |-> 0]
  /\ scan' = {}
  /\ active' = None
  /\ \/ active # None /\ queued' = [queued EXCEPT ![active] = @ + 1]
     \/ UNCHANGED queued
  /\ UNCHANGED <<car, overtaken, notified>>

ChecksNext ==
  \/ \E h \in Handlers : ServeRequest(h)
  \/ StartScan
  \/ \E chunk \in SUBSET Cars : \E failed \in SUBSET chunk : QueueChunk(chunk, failed)
  \/ \E c \in Cars : TakeCheck(c)
  \/ RunCheck \/ CheckFails \/ Crash

ChecksSpec == ChecksInit /\ [][ChecksNext]_allVars

\* The cron fires every night, and what a night loses (a job that could not be
\* added, a failed lookup, a crash) is not lost every night: strong fairness.
QueueCar(c) ==
  \E chunk \in SUBSET Cars : \E failed \in SUBSET (chunk \ {c}) :
    c \in chunk /\ QueueChunk(chunk, failed)

ChecksFairness ==
  /\ SF_allVars(StartScan)
  /\ \A c \in Cars : /\ SF_allVars(QueueCar(c))
                     /\ SF_allVars(TakeCheck(c))
                     /\ SF_allVars(active = c /\ RunCheck)

FairChecksSpec == ChecksSpec /\ ChecksFairness

-----------------------------------------------------------------------------
(* Properties.                                                             *)

\* Checks of a car that can still run.
Pending(c) ==
  queued[c] + (IF active = c THEN 1 ELSE 0) + (IF c \in scan THEN 1 ELSE 0)

\* "Exclude soft-deleted cars" (maintenance.cron.ts): once a car is removed, no
\* crash, failure or later scan adds to its checks; those a scan already saw
\* may still run, because the processor does not look at deletedAt.
RemovedFadesOut ==
  [][\A c \in removed : Pending(c)' <= Pending(c)]_allVars

\* A car whose service the status report calls overdue, or that never had it,
\* is alerted, unless it is serviced, corrected or removed first, even though
\* its check decides on a later mileage than the one that made it overdue.
OverdueCarReported ==
  \A c \in Cars :
    Overdue(c) ~> c \in notified \/ c \in removed \/ ~Overdue(c)

\* Times of a report around the one a rule by months calls for; a report by
\* distance does not look at the time.
TimesAround(date, rule) ==
  IF rule.km # 0 THEN {0}
  ELSE {NextDue(date, rule.months) + k : k \in {-29, -28, 0, 3}}

\* handleCheckMaintenance and getCarMaintenanceStatus decide on formulas of
\* their own: a service that was performed is alerted exactly when its rule has
\* a distance and the report calls it overdue, so an overdue rule by months is
\* never alerted.
AlertsMatchReport ==
  \A c \in Cars, rule \in Rules, date \in Dates :
    lastKm[c] # Never =>
      \A now \in TimesAround(date, rule) :
        "INTERVAL_EXCEEDED" \in Alerts(rule, History(c, date), mileage[c])
          <=> /\ rule.km # 0
              /\ "OVERDUE" \in Report(rule, History(c, date), mileage[c], now)

\* As a car is driven and time passes, a report (getCarMaintenanceStatus) only
\* gets worse until the service is recorded: a status that was overdue is not
\* due soon or in order later, whatever the requests in between.
StatusOnlyWorsens ==
  [][\A c \in Cars :
       mileage'[c] > mileage[c] /\ lastKm'[c] = lastKm[c] =>
         \A rule \in Rules, date \in Dates :
           \A t1, t2 \in TimesAround(date, rule) :
             t1 <= t2 =>
               \A was \in Report(rule, History(c, date), mileage[c], t1),
                  is \in Report(rule, History(c, date), mileage'[c], t2) :
                 Severity(was) <= Severity(is)]_allVars
==============================================================================
