---------------------------- MODULE MileageProofs ----------------------------
(***************************************************************************)
(* A car's mileage falls only by an edit or when requests overlap; and     *)
(* what the nightly scan, its queue and the two formulas of "due" decide   *)
(* on top of it, for any rules, any dates and any number of crashes.       *)
(***************************************************************************)
EXTENDS MaintenanceChecks, FiniteSums

LEMMA InitIInv == Init => IInv
<1> SUFFICES ASSUME Init PROVE IInv
  OBVIOUS
<1>1. TypeOK
  <2>1. \A c \in Cars : logs[c] \in Seq(Readings)
    BY DEF Init
  <2> QED
    BY <2>1 DEF Init, TypeOK, PC, Nothing
<1>2. RequestShape /\ FreshDecision
  BY DEF Init, RequestShape, FreshDecision
<1> QED
  BY <1>1, <1>2 DEF IInv

\* Steps that only start a request or move it on.
LEMMA StartIInv ==
  ASSUME IInv, NEW h \in Handlers, NEW at \in PC \ {"idle", "log", "advance"}, NEW c \in Cars,
         NEW km \in Readings \cup {0}, at = "remove" \/ km \in Readings, Start(h, at, c, km)
  PROVE  IInv'
<1>1. TypeOK'
  BY DEF IInv, TypeOK, Start, Read, car, PC
<1>2. RequestShape'
  BY DEF IInv, TypeOK, RequestShape, Start
<1>3. FreshDecision'
  BY DEF IInv, TypeOK, FreshDecision, Start, Read, car
<1> QED
  BY <1>1, <1>2, <1>3 DEF IInv

LEMMA ReceiveIInv ==
  ASSUME IInv, NEW h \in Handlers, Receive(h)
  PROVE  IInv'
<1> Readings \subseteq Nat
  BY MileageAssumption
<1> PICK c \in Cars :
      \/ RemoveCar(h, c) \/ RefuseRemoved(h, c)
      \/ \E km \in Readings : \/ AddFuelLog(h, c, km) \/ RefuseFuelLog(h, c, km)
                              \/ RecordMaintenance(h, c, km)
                              \/ UpdateCar(h, c, km)
  BY DEF Receive
<1>1. CASE RemoveCar(h, c)
  BY <1>1, StartIInv DEF RemoveCar, PC
<1>2. ASSUME NEW km \in Readings,
             AddFuelLog(h, c, km) \/ RecordMaintenance(h, c, km) \/ UpdateCar(h, c, km)
      PROVE  IInv'
  BY <1>2, StartIInv DEF AddFuelLog, RecordMaintenance, UpdateCar, PC
<1>3. CASE UNCHANGED vars
  BY <1>3 DEF vars, car, IInv, TypeOK, RequestShape, FreshDecision
<1> QED
  BY <1>1, <1>2, <1>3 DEF RefuseRemoved, RefuseFuelLog

\* A request that ends without writing the mileage.
LEMMA QuietEnd ==
  ASSUME IInv, NEW h \in Handlers, Finish(h), UNCHANGED <<mileage, overtaken>>,
         removed' \in SUBSET Cars, logs' \in [Cars -> Seq(Readings)],
         lastKm' \in [Cars -> Readings \cup {Never}]
  PROVE  IInv'
<1>1. TypeOK'
  BY DEF IInv, TypeOK, Finish, PC, Nothing
<1>2. RequestShape'
  BY DEF IInv, TypeOK, RequestShape, Finish
<1>3. FreshDecision'
  BY DEF IInv, TypeOK, FreshDecision, Finish
<1> QED
  BY <1>1, <1>2, <1>3 DEF IInv

\* A request that ends with a new mileage overtakes the others on its car.
LEMMA WritingEnd ==
  ASSUME IInv, NEW h \in Handlers, pc[h] \in {"log", "advance", "edit"},
         SetMileage(h), Finish(h),
         UNCHANGED <<removed, lastKm>>, logs' \in [Cars -> Seq(Readings)]
  PROVE  IInv'
<1>1. req[h].car \in Cars /\ req[h].km \in Readings
  BY DEF IInv, RequestShape
<1>2. TypeOK'
  BY <1>1 DEF IInv, TypeOK, SetMileage, Finish, PC, Nothing
<1>3. RequestShape'
  BY DEF IInv, TypeOK, RequestShape, Finish
<1>4. ASSUME NEW g \in Handlers
      PROVE  /\ pc'[g] # "idle" /\ g \notin overtaken' => seen'[g] = mileage'[req'[g].car]
             /\ pc'[g] = "log" => req'[g].km >= seen'[g]
             /\ pc'[g] = "advance" => req'[g].km > seen'[g]
  <2>1. CASE g = h
    BY <2>1 DEF IInv, TypeOK, Finish
  <2>2. CASE g # h
    <3>1. pc'[g] = pc[g] /\ req'[g] = req[g] /\ seen'[g] = seen[g]
      BY <2>2 DEF IInv, TypeOK, Finish
    <3>2. ASSUME pc[g] # "idle", g \notin overtaken' PROVE seen[g] = mileage'[req[g].car]
      <4>1. g \notin overtaken /\ req[g].car # req[h].car
        BY <2>2, <3>2 DEF SetMileage
      <4>2. req[g].car \in Cars
        BY <3>2 DEF IInv, RequestShape
      <4>3. mileage'[req[g].car] = mileage[req[g].car]
        BY <4>1, <4>2 DEF IInv, TypeOK, SetMileage
      <4> QED
        BY <3>2, <4>1, <4>3 DEF IInv, FreshDecision
    <3> QED
      BY <3>1, <3>2 DEF IInv, FreshDecision
  <2> QED
    BY <2>1, <2>2
<1>5. FreshDecision'
  BY <1>4 DEF FreshDecision
<1> QED
  BY <1>2, <1>3, <1>5 DEF IInv

LEMMA WorkIInv ==
  ASSUME IInv, NEW h \in Handlers, Work(h) \/ HandlerFails(h)
  PROVE  IInv'
<1> Readings \subseteq Nat
  BY MileageAssumption
<1>1. CASE OpenFuelTx(h)
  <2>1. req[h].car \in Cars /\ req[h].km \in Readings
    BY <1>1 DEF OpenFuelTx, IInv, RequestShape
  <2>2. TypeOK'
    BY <1>1, <2>1 DEF OpenFuelTx, Read, car, IInv, TypeOK, PC
  <2>3. RequestShape'
    BY <1>1 DEF OpenFuelTx, car, IInv, TypeOK, RequestShape
  <2>4. FreshDecision'
    BY <1>1, <2>1 DEF OpenFuelTx, Read, ReadingAccepted, car, IInv, TypeOK, FreshDecision
  <2> QED
    BY <2>2, <2>3, <2>4 DEF IInv
<1>2. CASE RejectFuelLog(h) \/ HandlerFails(h)
  BY <1>2, QuietEnd DEF RejectFuelLog, HandlerFails, car, IInv, TypeOK
<1>3. CASE CommitFuelLog(h)
  <2>1. req[h].car \in Cars /\ req[h].km \in Readings
    BY <1>3 DEF CommitFuelLog, IInv, RequestShape
  <2>2. Append(logs[req[h].car], req[h].km) \in Seq(Readings)
    BY <2>1 DEF IInv, TypeOK
  <2>3. logs' \in [Cars -> Seq(Readings)]
    BY <1>3, <2>2 DEF CommitFuelLog, IInv, TypeOK
  <2> QED
    BY <1>3, <2>3, WritingEnd DEF CommitFuelLog
<1>4. CASE CreateRecord(h)
  <2>1. req[h].car \in Cars /\ req[h].km \in Readings
    BY <1>4 DEF CreateRecord, IInv, RequestShape
  <2>2. lastKm' \in [Cars -> Readings \cup {Never}]
    BY <1>4, <2>1 DEF CreateRecord, IInv, TypeOK
  <2>3. CASE MustAdvance(h)
    <3>1. pc' = [pc EXCEPT ![h] = "advance"] /\ UNCHANGED <<req, seen, mileage, removed, logs, overtaken>>
      BY <1>4, <2>3 DEF CreateRecord
    <3>2. TypeOK'
      BY <2>2, <3>1 DEF IInv, TypeOK, PC
    <3>3. RequestShape'
      BY <2>1, <3>1 DEF IInv, TypeOK, RequestShape
    <3>4. FreshDecision'
      BY <1>4, <2>3, <3>1 DEF CreateRecord, MustAdvance, IInv, TypeOK, FreshDecision
    <3> QED
      BY <3>2, <3>3, <3>4 DEF IInv
  <2>4. CASE ~MustAdvance(h)
    BY <1>4, <2>2, <2>4, QuietEnd DEF CreateRecord, IInv, TypeOK
  <2> QED
    BY <2>3, <2>4
<1>5. CASE AdvanceMileage(h) \/ EditCar(h)
  BY <1>5, WritingEnd DEF AdvanceMileage, EditCar, IInv, TypeOK
<1>6. CASE SoftDeleteCar(h)
  <2>1. req[h].car \in Cars
    BY <1>6 DEF SoftDeleteCar, IInv, RequestShape
  <2> QED
    BY <1>6, <2>1, QuietEnd DEF SoftDeleteCar, IInv, TypeOK
<1> QED
  BY <1>1, <1>2, <1>3, <1>4, <1>5, <1>6 DEF Work

LEMMA StepIInv == IInv /\ [Next]_vars => IInv'
<1> SUFFICES ASSUME IInv, [Next]_vars PROVE IInv'
  OBVIOUS
<1>1. CASE UNCHANGED vars
  BY <1>1 DEF vars, car, IInv, TypeOK, RequestShape, FreshDecision
<1> QED
  BY <1>1, ReceiveIInv, WorkIInv DEF Next

\* A handler that no write overtook decides on the mileage the car still has
\* (the reads of addFuelLog, createFuelLogAndUpdateMileage, recordMaintenance).
THEOREM MileageInvariant == Spec => []IInv
<1> QED
  BY InitIInv, StepIInv, PTL DEF Spec

\* Only a write changes the mileage.
LEMMA FallNeedsOverlap ==
  ASSUME IInv, Next, NEW c \in Cars, mileage'[c] < mileage[c]
  PROVE  \E h \in Handlers :
           /\ req[h].car = c /\ pc'[h] = "idle"
           /\ \/ pc[h] = "edit"
              \/ pc[h] \in {"log", "advance"} /\ h \in overtaken
<1> Readings \subseteq Nat
  BY MileageAssumption
<1>0. mileage[c] \in Nat
  BY DEF IInv, TypeOK
<1>1. PICK h \in Handlers : CommitFuelLog(h) \/ AdvanceMileage(h) \/ EditCar(h)
  <2>1. \A h \in Handlers : Receive(h) => mileage' = mileage
    BY DEF Receive, RemoveCar, RefuseRemoved, AddFuelLog, RefuseFuelLog, RecordMaintenance,
           UpdateCar, Start, vars, car
  <2>2. \A h \in Handlers :
          OpenFuelTx(h) \/ RejectFuelLog(h) \/ CreateRecord(h) \/ SoftDeleteCar(h)
          \/ HandlerFails(h) => mileage' = mileage
    BY DEF OpenFuelTx, RejectFuelLog, CreateRecord, SoftDeleteCar, HandlerFails, car
  <2> QED
    BY <1>0, <2>1, <2>2 DEF Next, Work
<1>2. pc[h] \in {"log", "advance", "edit"} /\ SetMileage(h) /\ Finish(h)
  BY <1>1 DEF CommitFuelLog, AdvanceMileage, EditCar
<1>3. req[h].car = c /\ mileage'[c] = req[h].km
  BY <1>0, <1>2 DEF SetMileage, IInv, TypeOK
<1>4. pc'[h] = "idle"
  BY <1>2 DEF Finish, IInv, TypeOK
<1>5. ASSUME pc[h] # "edit", h \notin overtaken PROVE FALSE
  <2>1. pc[h] \in {"log", "advance"}
    BY <1>2, <1>5
  <2>2. seen[h] = mileage[c]
    BY <1>3, <1>5, <2>1 DEF IInv, FreshDecision
  <2>3. req[h].km \in Nat
    BY <2>1 DEF IInv, RequestShape
  <2>4. req[h].km >= mileage[c]
    BY <1>0, <2>1, <2>2, <2>3 DEF IInv, FreshDecision
  <2>5. ~(req[h].km < mileage[c])
    BY <1>0, <2>3, <2>4
  <2> QED
    BY <1>3, <2>5
<1> QED
  BY <1>2, <1>3, <1>4, <1>5

\* The mileage never falls when requests for a car do not overlap, except by an
\* edit.
THEOREM MileageFallsOnlyByOverlap == Spec => LossNeedsOverlap
<1>1. IInv /\ [Next]_vars =>
        [\A c \in Cars :
           mileage'[c] < mileage[c] =>
             \E h \in Handlers :
               /\ req[h].car = c /\ pc'[h] = "idle"
               /\ \/ pc[h] = "edit"
                  \/ pc[h] \in {"log", "advance"} /\ h \in overtaken]_vars
  BY FallNeedsOverlap
<1> QED
  BY <1>1, MileageInvariant, PTL DEF Spec, LossNeedsOverlap

\* A record lowers no mileage when requests come one at a time (recordMaintenance):
\* what the run of records refutes takes two.
THEOREM RecordsRaiseAlone ==
  ASSUME \A g, h \in Handlers : g = h
  PROVE  Spec => RecordsOnlyRaise
<1> DEFINE Alone == overtaken = {}
<1>1. Init => Alone
  BY DEF Init
<1>2. Alone /\ [Next]_vars => Alone'
  <2> SUFFICES ASSUME overtaken = {}, [Next]_vars PROVE overtaken' = {}
    OBVIOUS
  <2>1. ASSUME NEW h \in Handlers, Receive(h) PROVE overtaken' = {}
    BY <2>1 DEF Receive, RemoveCar, RefuseRemoved, AddFuelLog, RefuseFuelLog,
                RecordMaintenance, UpdateCar, Start, Read, vars
  <2>2. ASSUME NEW h \in Handlers, SetMileage(h) PROVE overtaken' = {}
    BY <2>2 DEF SetMileage
  <2>3. ASSUME NEW h \in Handlers, Work(h) \/ HandlerFails(h) PROVE overtaken' = {}
    BY <2>2, <2>3 DEF Work, HandlerFails, OpenFuelTx, RejectFuelLog, CommitFuelLog, CreateRecord,
                      AdvanceMileage, EditCar, SoftDeleteCar, Read
  <2> QED
    BY <2>1, <2>3 DEF Next, vars
<1>3. ASSUME IInv, IInv', overtaken = {}, Next, NEW h \in Handlers, pc[h] = "advance",
             pc'[h] = "idle"
      PROVE  mileage'[req[h].car] >= mileage[req[h].car]
  <2>1. req[h].car \in Cars
    BY <1>3 DEF IInv, RequestShape
  <2>2. mileage[req[h].car] \in Nat /\ mileage'[req[h].car] \in Nat
    BY <1>3, <2>1, MileageAssumption DEF IInv, TypeOK
  <2>3. CASE mileage'[req[h].car] < mileage[req[h].car]
    <3>1. PICK g \in Handlers : pc[g] = "edit" \/ g \in overtaken
      BY <1>3, <2>1, <2>3, FallNeedsOverlap
    <3> QED
      BY <1>3, <3>1
  <2> QED
    BY <2>2, <2>3
<1>4. IInv /\ IInv' /\ Alone /\ [Next]_vars =>
        [\A h \in Handlers :
           pc[h] = "advance" /\ pc'[h] = "idle" =>
             mileage'[req[h].car] >= mileage[req[h].car]]_vars
  BY <1>3
<1> HIDE DEF Alone
<1> QED
  BY <1>1, <1>2, <1>4, InitIInv, StepIInv, PTL DEF Spec, RecordsOnlyRaise

-----------------------------------------------------------------------------
(* Months and days.                                                        *)

LEMMA MonthLength == \A m \in Nat : DaysIn(m) \in 28..31
<1> SUFFICES ASSUME NEW m \in Nat PROVE DaysIn(m) \in 28..31
  OBVIOUS
<1>1. \A b \in BOOLEAN : (IF b THEN 29 ELSE 28) \in 28..31
  OBVIOUS
<1> QED
  BY <1>1 DEF DaysIn

\* The recursion of DaysBefore has a solution: the sum of the months so far.
LEMMA DaysBeforeStep ==
  /\ DaysBefore[0] = 0
  /\ \A n \in Nat : DaysBefore[n + 1] = DaysBefore[n] + DaysIn(n)
<1> DEFINE lengths == [k \in Nat |-> DaysIn(k)]
           days == [n \in Nat |-> SumFunctionOnSet(lengths, 0..(n - 1))]
           body(g) == [n \in Nat |-> IF n = 0 THEN 0 ELSE g[n - 1] + DaysIn(n - 1)]
<1>0. ASSUME NEW i \in Int
      PROVE  IsFiniteSet(0..i) /\ \A k \in 0..i : lengths[k] \in Nat
  <2>1. IsFiniteSet(0..i)
    BY FS_Interval
  <2>2. \A k \in 0..i : lengths[k] = DaysIn(k) /\ DaysIn(k) \in Nat
    BY MonthLength
  <2> QED
    BY <2>1, <2>2
<1>1. ASSUME NEW n \in Nat PROVE days[n] = body(days)[n]
  <2>1. IsFiniteSet(0..(n - 1)) /\ \A k \in 0..(n - 1) : lengths[k] \in Nat
    BY <1>0
  <2>2. CASE n = 0
    <3>1. 0..(n - 1) = {}
      BY <2>2
    <3>2. SumFunctionOnSet(lengths, 0..(n - 1)) = 0
      BY <2>1, <3>1, SumStep
    <3> QED
      BY <2>2, <3>2
  <2>3. CASE n # 0
    <3>1. n - 1 \in 0..(n - 1) /\ (0..(n - 1)) \ {n - 1} = 0..((n - 1) - 1) /\ n - 1 \in Nat
      BY <2>3
    <3> DEFINE rest == SumFunctionOnSet(lengths, 0..((n - 1) - 1))
    <3>2. SumFunctionOnSet(lengths, 0..(n - 1)) = lengths[n - 1] + rest
      <4> DEFINE S == 0..(n - 1)
      <4>1. S \ {n - 1} = 0..((n - 1) - 1) /\ n - 1 \in S
        BY <3>1
      <4> HIDE DEF lengths
      <4>2. IsFiniteSet(S) /\ \A k \in S : lengths[k] \in Nat
        BY <2>1
      <4> HIDE DEF S
      <4>3. SumFunctionOnSet(lengths, S) = lengths[n - 1] + SumFunctionOnSet(lengths, S \ {n - 1})
        BY <4>1, <4>2, SumStep
      <4> QED
        BY <4>1, <4>3, Zenon DEF S
    <3>3. lengths[n - 1] = DaysIn(n - 1) /\ DaysIn(n - 1) \in Nat /\ days[n - 1] = rest
      BY <3>1, MonthLength
    <3>4. rest \in Nat
      <4>1. IsFiniteSet(0..((n - 1) - 1)) /\ \A k \in 0..((n - 1) - 1) : lengths[k] \in Nat
        BY <1>0, <3>1
      <4> HIDE DEF lengths
      <4> QED
        BY <4>1, SumStep
    <3> HIDE DEF lengths, rest
    <3>5. SumFunctionOnSet(lengths, 0..(n - 1)) = rest + DaysIn(n - 1)
      BY <3>2, <3>3, <3>4
    <3> QED
      BY <2>3, <3>3, <3>5
  <2> QED
    BY <2>2, <2>3
<1>2. days = body(days)
  <2> DEFINE solution == body(days)
  <2>1. days = [n \in Nat |-> days[n]] /\ solution = [n \in Nat |-> solution[n]]
    OBVIOUS
  <2>2. \A n \in Nat : days[n] = solution[n]
    BY <1>1
  <2> HIDE DEF days, solution
  <2>3. days = solution
    BY <2>1, <2>2
  <2> QED
    BY <2>3 DEF solution
<1>3. DaysBefore = CHOOSE g : g = body(g)
  BY DEF DaysBefore
<1>4. DaysBefore = body(DaysBefore)
  <2> HIDE DEF days, body
  <2> QED
    BY <1>2, <1>3
<1>5. \A n \in Nat : DaysBefore[n] = IF n = 0 THEN 0 ELSE DaysBefore[n - 1] + DaysIn(n - 1)
  BY <1>4
<1>6. \A n \in Nat : n + 1 \in Nat /\ n + 1 # 0 /\ (n + 1) - 1 = n
  OBVIOUS
<1> QED
  BY <1>5, <1>6

LEMMA DaysBeforeType == \A n \in Nat : DaysBefore[n] \in Nat
<1> DEFINE Odd == {n \in Nat : DaysBefore[n] \notin Nat}
<1> SUFFICES ASSUME Odd # {} PROVE FALSE
  OBVIOUS
<1>1. PICK n \in Odd : \A k \in Odd : n <= k
  <2>1. Odd \in SUBSET Nat
    OBVIOUS
  <2> HIDE DEF Odd
  <2> QED
    BY <2>1, LeastNatural
<1>2. n # 0
  BY DaysBeforeStep
<1>3. n - 1 \in Nat /\ n = (n - 1) + 1 /\ n - 1 \notin Odd
  BY <1>1, <1>2
<1>4. DaysBefore[n - 1] \in Nat /\ DaysIn(n - 1) \in Nat
  BY <1>3, MonthLength
<1>5. DaysBefore[n] = DaysBefore[n - 1] + DaysIn(n - 1)
  BY <1>3, DaysBeforeStep
<1> QED
  BY <1>4, <1>5

\* A date at most four weeks later makes a service due at most two days earlier,
\* in any month and for an interval of any number of months.
THEOREM DueDates ==
  ASSUME NEW m \in Nat, NEW d \in 1..31, NEW months \in Nat, NEW days \in 1..28
  PROVE  LET first == [month |-> m, day |-> d, half |-> 0]
             next  == IF d + days <= DaysIn(m) THEN [first EXCEPT !.day = d + days]
                      ELSE [month |-> m + 1, day |-> d + days - DaysIn(m), half |-> 0]
         IN  NextDue(next, months) >= NextDue(first, months) - 4
<1> DEFINE first == [month |-> m, day |-> d, half |-> 0]
           later == [month |-> m, day |-> d + days, half |-> 0]
           over  == [month |-> m + 1, day |-> d + days - DaysIn(m), half |-> 0]
           before == DaysBefore[m + months]
<1>1. /\ DaysIn(m) \in 28..31 /\ DaysIn(m + months) \in 28..31 /\ before \in Nat
      /\ DaysBefore[(m + 1) + months] = before + DaysIn(m + months)
  <2>1. m \in Nat /\ m + months \in Nat /\ (m + 1) + months = (m + months) + 1
    OBVIOUS
  <2> QED
    BY <2>1, MonthLength, DaysBeforeType, DaysBeforeStep
<1>2. /\ NextDue(first, months) = 2 * (before + d - 1)
      /\ NextDue(later, months) = 2 * (before + (d + days) - 1)
      /\ NextDue(over, months)
           = 2 * ((before + DaysIn(m + months)) + (d + days - DaysIn(m)) - 1)
  BY <1>1 DEF NextDue, Instant
<1> HIDE DEF before
<1>3. NextDue(later, months) >= NextDue(first, months) - 4
  BY <1>1, <1>2
<1>4. NextDue(over, months) >= NextDue(first, months) - 4
  BY <1>1, <1>2
<1>5. [first EXCEPT !.day = d + days] = later
  OBVIOUS
<1> QED
  BY <1>3, <1>4, <1>5

LEMMA DueType ==
  ASSUME NEW date \in Dates, NEW months \in Nat
  PROVE  Instant(date) \in Int /\ NextDue(date, months) \in Int
<1>1. date \in [month : Nat, day : 1..31, half : 0..1]
  BY RulesAssumption
<1>2. DaysBefore[date.month] \in Nat /\ DaysBefore[date.month + months] \in Nat
  BY <1>1, DaysBeforeType
<1>3. Instant(date) \in Int
  BY <1>1, <1>2 DEF Instant
<1>4. NextDue(date, months) = 2 * (DaysBefore[date.month + months] + date.day - 1) + date.half
  BY <1>1 DEF NextDue, Instant
<1> QED
  BY <1>1, <1>2, <1>3, <1>4

-----------------------------------------------------------------------------
(* The scan and the worker.                                                *)

\* The inductive invariant: requests are as in Mileage, and the scan and the
\* queue name cars.
ChecksInv ==
  /\ IInv
  /\ scan \in SUBSET Cars
  /\ queued \in [Cars -> Nat]
  /\ active \in Cars \cup {None}
  /\ notified \in SUBSET Cars

LEMMA ChecksInvInit == ChecksInit => ChecksInv
BY InitIInv DEF ChecksInit, ChecksInv

\* A crash ends every request; what other requests read was not disturbed.
LEMMA CrashIInv == IInv /\ Crash => IInv'
<1> SUFFICES ASSUME IInv, Crash PROVE IInv'
  OBVIOUS
<1>1. TypeOK'
  BY DEF IInv, TypeOK, Crash, car, PC, Nothing
<1>2. RequestShape' /\ FreshDecision'
  BY DEF RequestShape, FreshDecision, Crash
<1> QED
  BY <1>1, <1>2 DEF IInv

LEMMA StepOrCrash == [ChecksNext]_allVars => [Next]_vars \/ Crash
BY DEF ChecksNext, ServeRequest, StartScan, QueueChunk, TakeCheck, RunCheck, CheckFails,
       Next, allVars

LEMMA ChecksInvNext == ChecksInv /\ [ChecksNext]_allVars => ChecksInv'
<1> SUFFICES ASSUME ChecksInv, [ChecksNext]_allVars PROVE ChecksInv'
  OBVIOUS
<1>1. IInv'
  BY StepOrCrash, StepIInv, CrashIInv DEF ChecksInv
<1>2. ASSUME UNCHANGED checks, notified' \in SUBSET Cars PROVE ChecksInv'
  BY <1>1, <1>2 DEF checks, ChecksInv
<1>3. CASE UNCHANGED allVars
  BY <1>2, <1>3 DEF allVars, ChecksInv
<1>4. ASSUME NEW h \in Handlers, ServeRequest(h) PROVE ChecksInv'
  BY <1>2, <1>4 DEF ServeRequest, Notified, ChecksInv
<1>5. CASE StartScan
  BY <1>1, <1>5 DEF StartScan, ActiveCars, ChecksInv
<1>6. ASSUME NEW chunk \in SUBSET Cars, NEW failed \in SUBSET chunk, QueueChunk(chunk, failed)
      PROVE  ChecksInv'
  BY <1>1, <1>6 DEF QueueChunk, ChecksInv
<1>7. ASSUME NEW c \in Cars, TakeCheck(c) PROVE ChecksInv'
  BY <1>1, <1>7 DEF TakeCheck, ChecksInv
<1>8. CASE RunCheck \/ CheckFails
  BY <1>1, <1>8 DEF RunCheck, CheckFails, Notified, ChecksInv
<1>9. CASE Crash
  BY <1>1, <1>9 DEF Crash, ChecksInv
<1> QED
  BY <1>3, <1>4, <1>5, <1>6, <1>7, <1>8, <1>9 DEF ChecksNext

\* Requests, the scan, the queue and the worker keep their state well-formed
\* through any number of crashes.
THEOREM ChecksInvariant == ChecksSpec => []ChecksInv
<1> QED
  BY ChecksInvInit, ChecksInvNext, PTL DEF ChecksSpec

\* A crash changes no mileage: with the scan, its queue and crashes around them,
\* requests still lose mileage only when they overlap.
THEOREM OverlapWithCrashes == ChecksSpec => LossNeedsOverlap
<1> DEFINE Lost == \A c \in Cars :
                     mileage'[c] < mileage[c] =>
                       \E h \in Handlers :
                         /\ req[h].car = c /\ pc'[h] = "idle"
                         /\ \/ pc[h] = "edit"
                            \/ pc[h] \in {"log", "advance"} /\ h \in overtaken
<1>1. ChecksInv /\ [ChecksNext]_allVars => [Lost]_vars
  <2> SUFFICES ASSUME ChecksInv, [ChecksNext]_allVars, NEW c \in Cars,
                      mileage'[c] < mileage[c], vars' # vars
               PROVE  \E h \in Handlers :
                        /\ req[h].car = c /\ pc'[h] = "idle"
                        /\ \/ pc[h] = "edit"
                           \/ pc[h] \in {"log", "advance"} /\ h \in overtaken
    OBVIOUS
  <2>1. ~Crash
    <3>1. mileage[c] \in Nat
      BY MileageAssumption DEF ChecksInv, IInv, TypeOK
    <3>2. Crash => mileage' = mileage
      BY DEF Crash, car
    <3> QED
      BY <3>1, <3>2
  <2> QED
    BY <2>1, StepOrCrash, FallNeedsOverlap DEF ChecksInv
<1> QED
  BY <1>1, ChecksInvInit, ChecksInvNext, PTL DEF ChecksSpec, LossNeedsOverlap

\* Once a car is removed its checks only get fewer: the scan no longer takes it,
\* and a crash puts back no more than the worker held (MaintenanceCron).
THEOREM RemovedChecksFade == ChecksSpec => RemovedFadesOut
<1>1. ASSUME ChecksInv, [ChecksNext]_allVars, NEW c \in removed
      PROVE  Pending(c)' <= Pending(c)
  <2>1. c \in Cars /\ queued[c] \in Nat /\ None \notin Cars
    BY <1>1, MileageAssumption DEF ChecksInv, IInv, TypeOK
  <2>2. CASE UNCHANGED checks
    BY <2>1, <2>2 DEF checks, Pending
  <2>3. CASE StartScan
    BY <2>1, <2>3 DEF StartScan, ActiveCars, Pending
  <2>4. ASSUME NEW chunk \in SUBSET Cars, NEW failed \in SUBSET chunk, QueueChunk(chunk, failed)
        PROVE  Pending(c)' <= Pending(c)
    <3>1. /\ queued'[c] = IF c \in chunk \ failed THEN queued[c] + 1 ELSE queued[c]
          /\ c \in chunk \ failed => c \in scan /\ c \notin scan'
          /\ c \in scan' => c \in scan
          /\ active' = active
      BY <2>1, <2>4 DEF QueueChunk
    <3> QED
      BY <2>1, <3>1 DEF Pending
  <2>5. ASSUME NEW d \in Cars, TakeCheck(d) PROVE Pending(c)' <= Pending(c)
    <3>1. /\ queued'[c] = IF c = d THEN queued[c] - 1 ELSE queued[c]
          /\ active = None /\ active' = d /\ scan' = scan
      BY <1>1, <2>1, <2>5 DEF TakeCheck, ChecksInv
    <3> QED
      BY <2>1, <3>1 DEF Pending
  <2>6. CASE RunCheck \/ CheckFails
    BY <2>1, <2>6 DEF RunCheck, CheckFails, Pending
  <2>7. CASE Crash
    <3>1. /\ \/ queued'[c] = queued[c]
             \/ active = c /\ queued'[c] = queued[c] + 1
          /\ active' = None /\ scan' = {}
      BY <1>1, <2>1, <2>7 DEF Crash, ChecksInv
    <3> QED
      BY <2>1, <3>1 DEF Pending
  <2> QED
    BY <1>1, <2>2, <2>3, <2>4, <2>5, <2>6, <2>7 DEF ChecksNext, ServeRequest, allVars
<1>2. ChecksInv /\ [ChecksNext]_allVars => [\A c \in removed : Pending(c)' <= Pending(c)]_allVars
  BY <1>1
<1> QED
  BY <1>2, ChecksInvInit, ChecksInvNext, PTL DEF ChecksSpec, RemovedFadesOut

-----------------------------------------------------------------------------
(* The report and the worker's check, on the same car.                     *)

\* A car that had the service has one latest record, at whatever date.
LEMMA LatestRecord ==
  ASSUME ChecksInv, NEW c \in Cars, NEW date \in Dates, lastKm[c] # Never
  PROVE  /\ lastKm[c] \in Nat /\ mileage[c] \in Nat
         /\ History(c, date) # {}
         /\ LastRecords(History(c, date)) = {[km |-> lastKm[c], date |-> date]}
<1>1. lastKm[c] \in Nat /\ mileage[c] \in Nat
  BY MileageAssumption DEF ChecksInv, IInv, TypeOK
<1>2. History(c, date) = {[km |-> lastKm[c], date |-> date]}
  BY DEF History
<1>3. Instant(date) <= Instant(date)
  BY DueType, RulesAssumption
<1> QED
  BY <1>1, <1>2, <1>3 DEF LastRecords

\* The worker and the report agree on which services a rule by distance makes overdue,
\* and neither a removed car nor a crash makes them differ; a rule by months alone is
\* reported but never alerted.
THEOREM AlertsAgree == ChecksSpec => []AlertsMatchReport
<1>1. ASSUME ChecksInv, NEW c \in Cars, NEW rule \in Rules, NEW date \in Dates,
             lastKm[c] # Never, NEW now \in TimesAround(date, rule)
      PROVE  "INTERVAL_EXCEEDED" \in Alerts(rule, History(c, date), mileage[c])
               <=> /\ rule.km # 0
                   /\ "OVERDUE" \in Report(rule, History(c, date), mileage[c], now)
  <2> DEFINE last == [km |-> lastKm[c], date |-> date]
             left == lastKm[c] + rule.km - mileage[c]
  <2>1. rule.km \in Nat /\ rule.months \in Nat /\ lastKm[c] \in Nat /\ mileage[c] \in Nat
    BY <1>1, RulesAssumption, LatestRecord DEF Rules
  <2>2. Alerts(rule, History(c, date), mileage[c])
          = {IF Exceeded(rule, last, mileage[c]) THEN "INTERVAL_EXCEEDED" ELSE "NONE"}
    BY <1>1, LatestRecord DEF Alerts
  <2>3. rule.km # 0 =>
          Report(rule, History(c, date), mileage[c], now) = {Band(left, 999)}
    <3>1. rule.km # 0 => StatusSince(rule, last, mileage[c], now) = Band(left, 999)
      BY DEF StatusSince
    <3>2. rule.km # 0 =>
            Report(rule, History(c, date), mileage[c], now)
              = {StatusSince(rule, latest, mileage[c], now) : latest \in {last}}
      BY <1>1, LatestRecord DEF Report
    <3> QED
      BY <3>1, <3>2
  <2>4. Band(left, 999) = "OVERDUE" <=> left <= 0
    BY <2>1 DEF Band
  <2>5. Exceeded(rule, last, mileage[c]) <=> rule.km # 0 /\ left <= 0
    BY <2>1 DEF Exceeded
  <2> HIDE DEF left, last
  <2> QED
    BY <2>2, <2>3, <2>4, <2>5
<1>2. ChecksInv => AlertsMatchReport
  BY <1>1 DEF AlertsMatchReport
<1> QED
  BY <1>2, ChecksInvariant, PTL

\* Less left is no better.
LEMMA BandWorsens ==
  ASSUME NEW soon \in Nat, NEW more \in Int, NEW less \in Int, less <= more
  PROVE  Severity(Band(more, soon)) <= Severity(Band(less, soon))
BY DEF Severity, Band

\* Time left only gets less.
LEMMA RemainingFalls ==
  ASSUME NEW due \in Int, NEW t1 \in Int, NEW t2 \in Int, t1 <= t2
  PROVE  /\ DaysRemaining(due, t1) \in Int /\ DaysRemaining(due, t2) \in Int
         /\ DaysRemaining(due, t2) <= DaysRemaining(due, t1)
BY DEF DaysRemaining

\* A report gets no better by driving on and waiting.
THEOREM ReportsWorsen == ChecksSpec => StatusOnlyWorsens
<1>1. ASSUME ChecksInv, ChecksInv', NEW c \in Cars, mileage'[c] > mileage[c],
             lastKm'[c] = lastKm[c], NEW rule \in Rules, NEW date \in Dates,
             NEW t1 \in TimesAround(date, rule), NEW t2 \in TimesAround(date, rule), t1 <= t2,
             NEW was \in Report(rule, History(c, date), mileage[c], t1),
             NEW is \in Report(rule, History(c, date), mileage'[c], t2)
      PROVE  Severity(was) <= Severity(is)
  <2> DEFINE last == [km |-> lastKm[c], date |-> date]
             due == NextDue(date, rule.months)
  <2>1. /\ rule.km \in Nat /\ rule.months \in Nat
        /\ mileage[c] \in Nat /\ mileage'[c] \in Nat
    BY <1>1, RulesAssumption, MileageAssumption DEF Rules, ChecksInv, IInv, TypeOK
  <2>2. CASE lastKm[c] = Never
    <3>1. was = FirstService(rule, mileage[c]) /\ is = FirstService(rule, mileage'[c])
      BY <1>1, <2>2 DEF Report, History
    <3> QED
      BY <1>1, <2>1, <3>1 DEF FirstService, Severity
  <2>3. CASE lastKm[c] # Never
    <3>1. /\ was = StatusSince(rule, last, mileage[c], t1)
          /\ is = StatusSince(rule, last, mileage'[c], t2)
      BY <1>1, <2>3, LatestRecord DEF Report
    <3>2. lastKm[c] \in Nat
      BY <1>1, <2>3, LatestRecord
    <3>3. CASE rule.km # 0
      <4> DEFINE more == lastKm[c] + rule.km - mileage[c]
                 less == lastKm[c] + rule.km - mileage'[c]
      <4>1. was = Band(more, 999) /\ is = Band(less, 999)
        BY <3>1, <3>3 DEF StatusSince
      <4>2. more \in Int /\ less \in Int /\ less <= more
        BY <1>1, <2>1, <3>2
      <4> HIDE DEF more, less
      <4> QED
        BY <4>1, <4>2, BandWorsens
    <3>4. CASE rule.km = 0
      <4>1. was = Band(DaysRemaining(due, t1), 14) /\ is = Band(DaysRemaining(due, t2), 14)
        BY <3>1, <3>4 DEF StatusSince
      <4>2. due \in Int
        BY <2>1, DueType
      <4>3. t1 \in Int /\ t2 \in Int
        BY <3>4, <4>2 DEF TimesAround
      <4> HIDE DEF due
      <4> QED
        BY <1>1, <4>1, <4>2, <4>3, RemainingFalls, BandWorsens
    <3> QED
      BY <3>3, <3>4
  <2> QED
    BY <2>2, <2>3
<1>2. ChecksInv /\ ChecksInv' =>
        [\A c \in Cars :
           mileage'[c] > mileage[c] /\ lastKm'[c] = lastKm[c] =>
             \A rule \in Rules, date \in Dates :
               \A t1, t2 \in TimesAround(date, rule) :
                 t1 <= t2 =>
                   \A was \in Report(rule, History(c, date), mileage[c], t1),
                      is \in Report(rule, History(c, date), mileage'[c], t2) :
                     Severity(was) <= Severity(is)]_allVars
  BY <1>1
<1> QED
  BY <1>2, ChecksInvInit, ChecksInvNext, PTL DEF ChecksSpec, StatusOnlyWorsens
=============================================================================
