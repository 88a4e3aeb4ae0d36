----------------------------- MODULE FleetProofs -----------------------------
(***************************************************************************)
(* Theorems about CarLimits, for any number of requests, and about the     *)
(* reports of FleetReports, for any fleet and any number of fuel logs.     *)
(***************************************************************************)
EXTENDS FleetReports, FiniteSums

-----------------------------------------------------------------------------
(* The limit on cars: requests that overlap exceed it by less than their   *)
(* number.                                                                 *)

\* The cars of an owner and the requests about to add one can be counted.
LEMMA PlacesFinite ==
  ASSUME NEW o \in Owners
  PROVE  /\ IsFiniteSet(Cars(o)) /\ Cardinality(Cars(o)) \in Nat
         /\ IsFiniteSet(Inserting(o)) /\ Cardinality(Inserting(o)) \in Nat
         /\ Cardinality(Inserting(o)) <= Cardinality(Handlers)
         /\ Cardinality(Handlers) \in Nat \ {0}
         /\ Limit[o] \in Nat \ {0}
<1>1. Cars(o) \in SUBSET Plates /\ Inserting(o) \in SUBSET Handlers
  BY DEF Cars, Inserting
<1>2. IsFiniteSet(Cars(o)) /\ IsFiniteSet(Inserting(o))
      /\ Cardinality(Inserting(o)) <= Cardinality(Handlers)
  BY <1>1, FS_Subset, LimitsAssumption
<1>3. Cardinality(Handlers) \in Nat \ {0}
  BY FS_CardinalityType, FS_EmptySet, LimitsAssumption
<1> QED
  BY <1>2, <1>3, FS_CardinalityType, LimitsAssumption

\* A step that adds no car and no insert to come keeps the bound.
LEMMA FewerPlaces ==
  ASSUME IInv, NEW o \in Owners,
         Cars(o)' \in SUBSET Cars(o), Inserting(o)' \in SUBSET Inserting(o)
  PROVE  Cardinality(Cars(o)') + Cardinality(Inserting(o)')
           <= Limit[o] + Cardinality(Handlers) - 1
<1>1. /\ Cardinality(Cars(o)') <= Cardinality(Cars(o)) /\ IsFiniteSet(Cars(o)')
      /\ Cardinality(Inserting(o)') <= Cardinality(Inserting(o)) /\ IsFiniteSet(Inserting(o)')
  BY PlacesFinite, FS_Subset
<1>2. Cardinality(Cars(o)') \in Nat /\ Cardinality(Inserting(o)') \in Nat
  BY <1>1, FS_CardinalityType
<1>3. Cardinality(Cars(o)) + Cardinality(Inserting(o)) <= Limit[o] + Cardinality(Handlers) - 1
  BY DEF IInv, PlacesBounded
<1> QED
  BY <1>1, <1>2, <1>3, PlacesFinite

LEMMA InitIInv == Init => IInv
<1> SUFFICES ASSUME Init PROVE IInv
  OBVIOUS
<1>1. TypeOK /\ BarcodesUnique
  BY DEF Init, TypeOK, Request, Nothing, BarcodesUnique
<1>2. ASSUME NEW o \in Owners
      PROVE  Cardinality(Cars(o)) + Cardinality(Inserting(o))
               <= Limit[o] + Cardinality(Handlers) - 1
  <2>1. Cars(o) = {} /\ Inserting(o) = {}
    BY LimitsAssumption DEF Init, Cars, Inserting
  <2> QED
    BY <2>1, PlacesFinite, FS_EmptySet
<1> QED
  BY <1>1, <1>2 DEF IInv, PlacesBounded

LEMMA TypeStep == TypeOK /\ [Next]_vars => TypeOK'
<1> SUFFICES ASSUME TypeOK, [Next]_vars PROVE TypeOK'
  OBVIOUS
<1>a. CASE UNCHANGED vars
  BY <1>a DEF vars, cars, TypeOK
<1> SUFFICES ASSUME NEW h \in Handlers, Receive(h) \/ Work(h) PROVE TypeOK'
  BY <1>a DEF Next
<1>1. ASSUME NEW o \in Owners, NEW p \in Plates, Create(h, o, p) PROVE TypeOK'
  BY <1>1 DEF Create, Start, cars, TypeOK, Request
<1>2. ASSUME NEW o \in Owners, RefuseLimit(h, o) PROVE TypeOK'
  BY <1>a, <1>2 DEF RefuseLimit
<1>3. ASSUME NEW p \in Plates, Remove(h, p) PROVE TypeOK'
  BY <1>3 DEF Remove, Start, cars, TypeOK, Request
<1>4. ASSUME NEW p \in Plates, RefuseMissing(h, p) \/ RefuseBarcode(h, p) PROVE TypeOK'
  BY <1>a, <1>4 DEF RefuseMissing, RefuseBarcode
<1>5. ASSUME NEW p \in Plates, NEW b \in Barcodes, AssignBarcode(h, p, b) PROVE TypeOK'
  BY <1>5 DEF AssignBarcode, Start, cars, TypeOK, Request
<1>6. CASE Work(h)
  <2>1. Nothing \in Request
    BY DEF Nothing, Request
  <2>2. CASE InsertCar(h)
    BY <2>1, <2>2, LimitsAssumption DEF InsertCar, Finish, TypeOK
  <2>3. CASE SoftDelete(h) \/ PutBarcode(h)
    BY <2>1, <2>3 DEF SoftDelete, PutBarcode, Finish, TypeOK
  <2>4. CASE RefuseDuplicate(h) \/ HandlerFails(h)
    BY <2>1, <2>4 DEF RefuseDuplicate, HandlerFails, Finish, cars, TypeOK
  <2> QED
    BY <1>6, <2>2, <2>3, <2>4 DEF Work
<1> QED
  BY <1>1, <1>2, <1>3, <1>4, <1>5, <1>6 DEF Receive, ReceiveBarcode

\* A barcode is written to a fleet vehicle, and only if no other car has it.
LEMMA ScansStep == IInv /\ [Next]_vars => BarcodesUnique'
<1> SUFFICES ASSUME IInv, [Next]_vars PROVE BarcodesUnique'
  OBVIOUS
<1>1. CASE UNCHANGED cars
  BY <1>1 DEF cars, BarcodesUnique, IInv
<1>2. ASSUME NEW h \in Handlers, InsertCar(h) PROVE BarcodesUnique'
  BY <1>2, LimitsAssumption DEF InsertCar, BarcodesUnique, IInv, TypeOK
<1>3. ASSUME NEW h \in Handlers, SoftDelete(h) PROVE BarcodesUnique'
  BY <1>3 DEF SoftDelete, BarcodesUnique, IInv
<1>4. ASSUME NEW h \in Handlers, PutBarcode(h) PROVE BarcodesUnique'
  BY <1>4 DEF PutBarcode, BarcodeTaken, BarcodesUnique, IInv, TypeOK
<1> QED
  BY <1>1, <1>2, <1>3, <1>4
     DEF Next, Receive, ReceiveBarcode, Work, Create, Remove, AssignBarcode, Start,
        RefuseLimit, RefuseMissing,
         RefuseBarcode, RefuseDuplicate, HandlerFails, vars

LEMMA PlacesStep == IInv /\ [Next]_vars => PlacesBounded'
<1> SUFFICES ASSUME IInv, [Next]_vars, NEW o \in Owners
             PROVE  Cardinality(Cars(o)') + Cardinality(Inserting(o)')
                      <= Limit[o] + Cardinality(Handlers) - 1
  BY DEF PlacesBounded
<1>a. CASE UNCHANGED vars
  BY <1>a, FewerPlaces DEF vars, cars, Cars, Inserting
<1> SUFFICES ASSUME NEW h \in Handlers, Receive(h) \/ Work(h)
             PROVE  Cardinality(Cars(o)') + Cardinality(Inserting(o)')
                      <= Limit[o] + Cardinality(Handlers) - 1
  BY <1>a DEF Next
\* The count was below the limit: at most every request inserts.
<1>1. ASSUME NEW p \in Plates, Create(h, o, p)
      PROVE  Cardinality(Cars(o)') + Cardinality(Inserting(o)')
               <= Limit[o] + Cardinality(Handlers) - 1
  <2>1. Cars(o)' = Cars(o) /\ Cardinality(Cars(o)) < Limit[o]
    BY <1>1 DEF Create, Start, cars, BelowLimit, Cars
  <2>2. Inserting(o)' \in SUBSET Handlers
    BY DEF Inserting
  <2>3. Cardinality(Inserting(o)') <= Cardinality(Handlers) /\ IsFiniteSet(Inserting(o)')
    BY <2>2, FS_Subset, LimitsAssumption
  <2>4. Cardinality(Inserting(o)') \in Nat
    BY <2>3, FS_CardinalityType
  <2> QED
    BY <2>1, <2>3, <2>4, PlacesFinite
<1>2. ASSUME NEW q \in Owners \ {o}, NEW p \in Plates, Create(h, q, p)
      PROVE  Cardinality(Cars(o)') + Cardinality(Inserting(o)')
               <= Limit[o] + Cardinality(Handlers) - 1
  <2>1. Cars(o)' = Cars(o) /\ Inserting(o)' \in SUBSET Inserting(o)
    BY <1>2 DEF Create, Start, cars, Cars, Inserting, IInv, TypeOK
  <2> QED
    BY <2>1, FewerPlaces
<1>3. ASSUME NEW q \in Owners, RefuseLimit(h, q)
      PROVE  Cardinality(Cars(o)') + Cardinality(Inserting(o)')
               <= Limit[o] + Cardinality(Handlers) - 1
  BY <1>a, <1>3 DEF RefuseLimit
<1>4. ASSUME NEW p \in Plates,
             \/ Remove(h, p) \/ RefuseMissing(h, p) \/ RefuseBarcode(h, p)
             \/ \E b \in Barcodes : AssignBarcode(h, p, b)
      PROVE  Cardinality(Cars(o)') + Cardinality(Inserting(o)')
               <= Limit[o] + Cardinality(Handlers) - 1
  <2>1. Cars(o)' = Cars(o) /\ Inserting(o)' \in SUBSET Inserting(o)
    BY <1>4 DEF Remove, AssignBarcode, RefuseMissing, RefuseBarcode, Start, vars, cars, Cars,
                Inserting, IInv, TypeOK
  <2> QED
    BY <2>1, FewerPlaces
\* The place of the request becomes the place of the car.
<1>5. CASE InsertCar(h) /\ req[h].owner = o
  <2> DEFINE p == req[h].plate
  <2>1. h \in Inserting(o)
    BY <1>5 DEF InsertCar, Inserting
  <2>2. Inserting(o)' = Inserting(o) \ {h}
    BY <1>5 DEF InsertCar, Finish, Inserting, IInv, TypeOK
  <2>3. Cars(o)' \in SUBSET (Cars(o) \cup {p})
    BY <1>5 DEF InsertCar, Cars, IInv, TypeOK
  <2>4. Cardinality(Inserting(o) \ {h}) = Cardinality(Inserting(o)) - 1
    BY <2>1, PlacesFinite, FS_RemoveElement
  <2>5. /\ IsFiniteSet(Cars(o) \cup {p})
        /\ Cardinality(Cars(o) \cup {p}) <= Cardinality(Cars(o)) + 1
        /\ Cardinality(Cars(o) \cup {p}) \in Nat
    <3>1. /\ IsFiniteSet(Cars(o) \cup {p})
          /\ \/ Cardinality(Cars(o) \cup {p}) = Cardinality(Cars(o))
             \/ Cardinality(Cars(o) \cup {p}) = Cardinality(Cars(o)) + 1
      BY PlacesFinite, FS_AddElement
    <3> QED
      BY <3>1, PlacesFinite
  <2>6. Cardinality(Cars(o)') <= Cardinality(Cars(o) \cup {p}) /\ IsFiniteSet(Cars(o)')
    BY <2>3, <2>5, FS_Subset
  <2>7. Cardinality(Cars(o)') \in Nat
    BY <2>6, FS_CardinalityType
  <2>8. Cardinality(Cars(o)) + Cardinality(Inserting(o)) <= Limit[o] + Cardinality(Handlers) - 1
    BY DEF IInv, PlacesBounded
  <2> QED
    BY <2>2, <2>4, <2>5, <2>6, <2>7, <2>8, PlacesFinite
<1>6. CASE Work(h) /\ ~(InsertCar(h) /\ req[h].owner = o)
  <2>1. Cars(o)' \in SUBSET Cars(o)
    BY <1>6, LimitsAssumption
       DEF Work, InsertCar, RefuseDuplicate, SoftDelete, PutBarcode, HandlerFails, cars, Cars,
           IInv, TypeOK
  <2>2. Inserting(o)' \in SUBSET Inserting(o)
    BY <1>6 DEF Work, InsertCar, RefuseDuplicate, SoftDelete, PutBarcode, HandlerFails, Finish,
                Inserting, IInv, TypeOK
  <2> QED
    BY <2>1, <2>2, FewerPlaces
<1> QED
  BY <1>1, <1>2, <1>3, <1>4, <1>5, <1>6 DEF Receive, ReceiveBarcode

\* An owner's cars and the requests about to add one are bounded by the limit and
\* the number of requests at a time.
THEOREM PlacesInvariant == Spec => []IInv
<1>1. IInv /\ [Next]_vars => IInv'
  BY TypeStep, PlacesStep, ScansStep DEF IInv
<1> QED
  BY InitIInv, <1>1, PTL DEF Spec

\* A barcode is never on two cars, or on a car of a user, however the assignments
\* and the removals overlap.
THEOREM Scans == Spec => []ScansExact
<1>1. IInv => ScansExact
  BY DEF IInv, BarcodesUnique, ScansExact, authenticateVehicle, findCarByBarcode
<1> QED
  BY PlacesInvariant, <1>1, PTL

\* For any limit and any number of overlapping requests n, an owner has at most
\* n - 1 cars beyond the limit; one request at a time keeps it.
THEOREM Overrun == Spec => []OverrunBounded
<1>1. IInv => OverrunBounded
  <2> SUFFICES ASSUME IInv, NEW o \in Owners
               PROVE  Cardinality(Cars(o)) <= Limit[o] + Cardinality(Handlers) - 1
    BY DEF OverrunBounded
  <2>1. Cardinality(Cars(o)) + Cardinality(Inserting(o)) <= Limit[o] + Cardinality(Handlers) - 1
    BY DEF IInv, PlacesBounded
  <2> QED
    BY <2>1, PlacesFinite
<1> QED
  BY PlacesInvariant, <1>1, PTL

-----------------------------------------------------------------------------
(* Figures over the logs.                                                  *)

\* A query reads some of the first n logs.
LEMMA LogsCounted ==
  ASSUME logs \in Seq(FuelLog), NEW n \in 0..Len(logs), NEW cs, NEW ds, NEW f
  PROVE  /\ Of(cs, ds, buildFuelLogDateFilter(f, n)) \in SUBSET (1..n)
         /\ IsFiniteSet(Of(cs, ds, buildFuelLogDateFilter(f, n)))
         /\ Fuel(cs, ds, f, n) \in Nat
<1>1. Of(cs, ds, buildFuelLogDateFilter(f, n)) \in SUBSET (1..n)
  BY DEF Of, buildFuelLogDateFilter
<1>2. IsFiniteSet(1..n)
  BY FS_Interval
<1> QED
  BY <1>1, <1>2, FS_Subset, FS_CardinalityType DEF Fuel

\* What a car has been read to is a finite set of numbers.
LEMMA ReadingsFacts ==
  ASSUME logs \in Seq(FuelLog), NEW n \in 0..Len(logs), NEW c, NEW ds, NEW f
  PROVE  Readings(c, ds, f, n) \in SUBSET Nat /\ IsFiniteSet(Readings(c, ds, f, n))
<1> DEFINE I == Of({c}, ds, buildFuelLogDateFilter(f, n))
           km == [i \in I |-> logs[i].km]
<1>1. I \subseteq 1..n /\ IsFiniteSet(I)
  BY LogsCounted
<1>2. \A i \in I : logs[i] \in FuelLog
  BY <1>1
<1>3. Readings(c, ds, f, n) = {km[i] : i \in I}
  BY DEF Readings
<1>4. IsFiniteSet({km[i] : i \in I})
  <2> HIDE DEF I, km
  <2> QED
    BY <1>1, Image
<1>5. \A i \in I : logs[i].km \in Nat
  BY <1>2, ReportsAssumption DEF FuelLog
<1> QED
  BY <1>3, <1>4, <1>5

\* More readings of a car span no less.
LEMMA SpanGrows ==
  ASSUME NEW A \in SUBSET Nat, NEW B \in SUBSET Nat, A \subseteq B, A # {}, IsFiniteSet(B)
  PROVE  Span(A) \in Nat /\ Span(B) \in Nat /\ Span(A) <= Span(B)
<1>1. IsFiniteSet(A)
  BY FS_Subset
<1>2. A \in SUBSET Int /\ B \in SUBSET Int /\ B # {}
  <2>1. Nat \subseteq Int
    OBVIOUS
  <2> QED
    BY <2>1, Zenon
<1>3. /\ Max(A) \in A /\ \A y \in A : y <= Max(A)
      /\ Min(A) \in A /\ \A y \in A : Min(A) <= y
  BY <1>1, <1>2, Extremes
<1>4. /\ Max(B) \in B /\ \A y \in B : y <= Max(B)
      /\ Min(B) \in B /\ \A y \in B : Min(B) <= y
  BY <1>2, Extremes
<1>5. /\ Max(A) \in Nat /\ Min(A) \in Nat /\ Max(B) \in Nat /\ Min(B) \in Nat
      /\ Min(A) <= Max(A) /\ Max(A) <= Max(B) /\ Min(B) <= Min(A)
  BY <1>3, <1>4
<1> QED
  BY <1>5 DEF Span

\* More logs, and of more drivers, make no figure smaller.
LEMMA FiguresGrow ==
  ASSUME logs \in Seq(FuelLog), NEW m \in 0..Len(logs), NEW n \in 0..Len(logs), m <= n,
         NEW cs \in SUBSET Plates, NEW ds, NEW es, ds \subseteq es, NEW f
  PROVE  /\ Fuel(cs, ds, f, m) \in Nat /\ Fuel(cs, es, f, n) \in Nat
         /\ Fuel(cs, ds, f, m) <= Fuel(cs, es, f, n)
         /\ Distance(cs, ds, f, m) \in Nat /\ Distance(cs, es, f, n) \in Nat
         /\ Distance(cs, ds, f, m) <= Distance(cs, es, f, n)
<1>1. \A p : Of(p, ds, buildFuelLogDateFilter(f, m)) \subseteq Of(p, es, buildFuelLogDateFilter(f, n))
  BY DEF Of, buildFuelLogDateFilter
<1>2. /\ Fuel(cs, ds, f, m) \in Nat /\ Fuel(cs, es, f, n) \in Nat
      /\ Fuel(cs, ds, f, m) <= Fuel(cs, es, f, n)
  BY <1>1, LogsCounted, FS_Subset DEF Fuel
<1> DEFINE S == {p \in cs : Readings(p, ds, f, m) # {}}
           T == {p \in cs : Readings(p, es, f, n) # {}}
           F == [c \in S |-> Span(Readings(c, ds, f, m))]
           G == [c \in T |-> Span(Readings(c, es, f, n))]
<1>3. \A p : Readings(p, ds, f, m) \subseteq Readings(p, es, f, n)
  BY <1>1 DEF Readings
<1>4. S \subseteq T /\ T \subseteq Plates /\ IsFiniteSet(T)
  BY <1>3, LimitsAssumption, FS_Subset
<1>5. \A p \in T : G[p] \in Nat
  BY ReadingsFacts, SpanGrows
<1>6. \A p \in S : F[p] \in Nat /\ F[p] <= G[p]
  BY <1>3, <1>4, ReadingsFacts, SpanGrows
<1>7. /\ SumFunctionOnSet(F, S) \in Nat /\ SumFunctionOnSet(G, T) \in Nat
      /\ SumFunctionOnSet(F, S) <= SumFunctionOnSet(G, T)
  <2> HIDE DEF S, T, F, G
  <2> QED
    BY <1>4, <1>5, <1>6, SumMonotonic
<1>8. /\ Distance(cs, ds, f, m) = SumFunctionOnSet(F, S)
      /\ Distance(cs, es, f, n) = SumFunctionOnSet(G, T)
  BY DEF Distance, SumFunction
<1> QED
  BY <1>2, <1>7, <1>8
\* Figures over the first n logs do not depend on those that follow.
LEMMA Appended ==
  ASSUME NEW cs, NEW ds, NEW f, NEW n \in Nat, \A i \in 1..n : logs'[i] = logs[i]
  PROVE  /\ Fuel(cs, ds, f, n)' = Fuel(cs, ds, f, n)
         /\ Distance(cs, ds, f, n)' = Distance(cs, ds, f, n)
<1>1. \A i \in 1..n : logs'[i] = logs[i]
  OBVIOUS
<1>2. \A p : Of(p, ds, buildFuelLogDateFilter(f, n))' = Of(p, ds, buildFuelLogDateFilter(f, n))
  BY <1>1 DEF Of, buildFuelLogDateFilter
<1>3. Fuel(cs, ds, f, n)' = Fuel(cs, ds, f, n)
  BY <1>2 DEF Fuel
<1>4. \A p : Readings(p, ds, f, n)' = Readings(p, ds, f, n)
  <2> TAKE p
  <2>1. Of({p}, ds, buildFuelLogDateFilter(f, n))' = Of({p}, ds, buildFuelLogDateFilter(f, n))
    BY <1>2
  <2>2. Of({p}, ds, buildFuelLogDateFilter(f, n)) \subseteq 1..n
    BY DEF Of, buildFuelLogDateFilter
  <2> QED
    BY <1>1, <2>1, <2>2 DEF Readings
<1>5. Distance(cs, ds, f, n)' = Distance(cs, ds, f, n)
  BY <1>4 DEF Distance
<1> QED BY <1>3, <1>5

-----------------------------------------------------------------------------
(* Cars and reports together.                                              *)

\* A log is of a car of its driver's organization, which keeps it.
LogsOK ==
  /\ logs \in Seq(FuelLog)
  /\ \A i \in DOMAIN logs : owner[logs[i].car] = DriverOrg[logs[i].driver]

Reports(n) ==
  [by : Handlers, org : Fleets \cup {None}, cars : SUBSET Plates,
   drivers : SUBSET Drivers, filter : Asked, logged : 0..n,
   cost : Nat \cup {None}, kms : Nat \cup {None}]

\* The report of a caller, which read its cars when there were `logged' logs and
\* has no figure before.
ReportOK ==
  report # NoReport =>
    /\ report \in Reports(Len(logs))
    /\ report.cars = {} => report.cost = None /\ report.kms = None

ReportsInv == IInv /\ LogsOK /\ ReportOK /\ FiguresBracketed

\* The car requests go on as without reports.
LEMMA CarSteps == [ReportsNext]_allVars => [Next]_vars
<1> SUFFICES ASSUME ReportsNext PROVE [Next]_vars
  BY DEF allVars, vars
<1>1. ASSUME NEW h \in Handlers, CarStep(h) PROVE Next
  BY <1>1 DEF CarStep, Next
<1>2. ASSUME NEW h \in Handlers, Ask(h) PROVE UNCHANGED vars
  BY <1>2 DEF Ask, BeginForVehicle, BeginForAdmin, BeginForManager, BeginForDriver, Begin,
              RefuseReport, allVars
<1>3. ASSUME NEW l \in FuelLog, LogFuel(l) PROVE UNCHANGED vars
  BY <1>3 DEF LogFuel
<1>4. ASSUME ReadCars \/ QueryCost \/ QueryKms \/ EndReport PROVE UNCHANGED vars
  BY <1>4 DEF ReadCars, QueryCost, QueryKms, EndReport
<1>5. ASSUME NEW d \in Drivers, RemoveDriver(d) PROVE UNCHANGED vars
  BY <1>5 DEF RemoveDriver
<1> QED
  BY <1>1, <1>2, <1>3, <1>4, <1>5 DEF ReportsNext

LEMMA CarsOfReports == ReportsSpec => Spec
<1>1. ReportsInit => Init
  BY DEF ReportsInit
<1> QED
  BY <1>1, CarSteps, PTL DEF ReportsSpec, Spec

\* No row ever changes its owner.
LEMMA OwnersStay ==
  ASSUME TypeOK, [Next]_vars, NEW p \in Plates, owner[p] # None
  PROVE  owner'[p] = owner[p]
<1>1. CASE UNCHANGED owner
  BY <1>1
<1>2. ASSUME NEW h \in Handlers, InsertCar(h) PROVE owner'[p] = owner[p]
  BY <1>2 DEF InsertCar, TypeOK
<1> QED
  BY <1>1, <1>2
     DEF Next, Receive, ReceiveBarcode, Work, Create, Remove, AssignBarcode, Start,
         SoftDelete, PutBarcode, RefuseLimit, RefuseMissing, RefuseBarcode, RefuseDuplicate,
         HandlerFails, vars, cars

\* The logs stay as they are, or one is added.
LEMMA LogsGrow ==
  ASSUME LogsOK, [ReportsNext]_allVars
  PROVE  \/ UNCHANGED logs
         \/ \E l \in FuelLog : logs' = Append(logs, l) /\ LogFuel(l) /\ UNCHANGED report
<1>1. ASSUME NEW l \in FuelLog, LogFuel(l)
      PROVE  logs' = Append(logs, l) /\ LogFuel(l) /\ UNCHANGED report
  BY <1>1 DEF LogFuel
<1>2. ASSUME NEW h \in Handlers, CarStep(h) \/ Ask(h) PROVE UNCHANGED logs
  BY <1>2 DEF CarStep, Ask, BeginForVehicle, BeginForAdmin, BeginForManager, BeginForDriver,
              Begin, RefuseReport, allVars
<1>3. ASSUME ReadCars \/ QueryCost \/ QueryKms \/ EndReport PROVE UNCHANGED logs
  BY <1>3 DEF ReadCars, QueryCost, QueryKms, EndReport
<1>4. CASE UNCHANGED allVars
  BY <1>4 DEF allVars
<1>5. ASSUME NEW d \in Drivers, RemoveDriver(d) PROVE UNCHANGED logs
  BY <1>5 DEF RemoveDriver
<1> QED
  BY <1>1, <1>2, <1>3, <1>4, <1>5 DEF ReportsNext

LEMMA LogsStep == IInv /\ LogsOK /\ [ReportsNext]_allVars => LogsOK'
<1> SUFFICES ASSUME IInv, LogsOK, [ReportsNext]_allVars PROVE LogsOK'
  OBVIOUS
<1>1. \A i \in DOMAIN logs : logs[i].car \in Plates /\ logs[i].driver \in Drivers
  <2>1. \A i \in DOMAIN logs : logs[i] \in FuelLog
    BY DEF LogsOK
  <2> QED
    BY <2>1 DEF FuelLog
<1>2. \A i \in DOMAIN logs : owner'[logs[i].car] = DriverOrg[logs[i].driver]
  <2> TAKE i \in DOMAIN logs
  <2>1. owner[logs[i].car] = DriverOrg[logs[i].driver] /\ DriverOrg[logs[i].driver] # None
    BY <1>1, ReportsAssumption, LimitsAssumption DEF LogsOK
  <2> QED
    BY <1>1, <2>1, CarSteps, OwnersStay DEF IInv
<1>3. CASE UNCHANGED logs
  BY <1>2, <1>3 DEF LogsOK
<1>4. ASSUME NEW l \in FuelLog, logs' = Append(logs, l), LogFuel(l) PROVE LogsOK'
  <2>1. logs' \in Seq(FuelLog) /\ DOMAIN logs' = 1..(Len(logs) + 1)
    BY <1>4 DEF LogsOK
  <2>2. \A i \in 1..Len(logs) : logs'[i] = logs[i] /\ i \in DOMAIN logs
    BY <1>4 DEF LogsOK
  <2>3. logs'[Len(logs) + 1] = l /\ owner'[l.car] = DriverOrg[l.driver]
    BY <1>4 DEF LogsOK, LogFuel, vars, cars
  <2>4. \A i \in 1..(Len(logs) + 1) : i \in 1..Len(logs) \/ i = Len(logs) + 1
    BY DEF LogsOK
  <2>5. \A i \in DOMAIN logs' : owner'[logs'[i].car] = DriverOrg[logs'[i].driver]
    BY <1>2, <2>1, <2>2, <2>3, <2>4
  <2> QED
    BY <2>1, <2>5 DEF LogsOK
<1> QED
  BY <1>3, <1>4, LogsGrow

FiguresMonotone ==
  \A n \in 0..Len(logs) : \A m \in 0..n : \A cs \in SUBSET Plates : \A ds, f :
    /\ Fuel(cs, ds, f, m) \in Nat /\ Distance(cs, ds, f, m) \in Nat
    /\ Fuel(cs, ds, f, m) <= Fuel(cs, ds, f, n)
    /\ Distance(cs, ds, f, m) <= Distance(cs, ds, f, n)

LEMMA Monotone == LogsOK => FiguresMonotone
<1> SUFFICES ASSUME LogsOK, NEW n \in 0..Len(logs), NEW m \in 0..n, NEW cs \in SUBSET Plates,
                    NEW ds, NEW f
             PROVE  /\ Fuel(cs, ds, f, m) \in Nat /\ Distance(cs, ds, f, m) \in Nat
                    /\ Fuel(cs, ds, f, m) <= Fuel(cs, ds, f, n)
                    /\ Distance(cs, ds, f, m) <= Distance(cs, ds, f, n)
  BY DEF FiguresMonotone
<1>1. logs \in Seq(FuelLog) /\ m \in 0..Len(logs) /\ m <= n
  BY DEF LogsOK
<1> QED
  BY <1>1, FiguresGrow

\* A figure between those over the first k logs and over all logs stays between
\* them when a log is added.
LEMMA BracketsStay ==
  ASSUME LogsOK, LogsOK', [ReportsNext]_allVars,
         NEW cs \in SUBSET Plates, NEW ds, NEW f, NEW k \in 0..Len(logs)
  PROVE  /\ k \in 0..Len(logs')
         /\ Fuel(cs, ds, f, k)..Fuel(cs, ds, f, Len(logs))
              \subseteq (Fuel(cs, ds, f, k)..Fuel(cs, ds, f, Len(logs)))'
         /\ Distance(cs, ds, f, k)..Distance(cs, ds, f, Len(logs))
              \subseteq (Distance(cs, ds, f, k)..Distance(cs, ds, f, Len(logs)))'
<1>1. PICK n \in Nat : n = Len(logs)
  BY DEF LogsOK
<1>2. /\ \A i \in 1..n : logs'[i] = logs[i]
      /\ Len(logs') \in Nat /\ n <= Len(logs')
  BY <1>1, LogsGrow DEF LogsOK
<1>3. FiguresMonotone'
  <2>1. LogsOK' => FiguresMonotone'
    BY Monotone, PTL
  <2> QED
    BY <2>1
<1>4. PICK m \in Nat : m = Len(logs')
  BY <1>2
<1>5. k \in 0..n /\ n \in 0..m /\ m \in 0..Len(logs') /\ k \in 0..m /\ k \in Nat
  BY <1>1, <1>2, <1>4
<1>6. /\ Fuel(cs, ds, f, k)' = Fuel(cs, ds, f, k) /\ Distance(cs, ds, f, k)' = Distance(cs, ds, f, k)
      /\ Fuel(cs, ds, f, n)' = Fuel(cs, ds, f, n) /\ Distance(cs, ds, f, n)' = Distance(cs, ds, f, n)
  BY <1>2, <1>5, Appended
<1>7. /\ Fuel(cs, ds, f, n)' \in Nat /\ Distance(cs, ds, f, n)' \in Nat
      /\ Fuel(cs, ds, f, n)' <= Fuel(cs, ds, f, m)'
      /\ Distance(cs, ds, f, n)' <= Distance(cs, ds, f, m)'
  BY <1>3, <1>5 DEF FiguresMonotone
<1>8. /\ Fuel(cs, ds, f, k)' \in Nat /\ Distance(cs, ds, f, k)' \in Nat
      /\ Fuel(cs, ds, f, m)' \in Nat /\ Distance(cs, ds, f, m)' \in Nat
  BY <1>3, <1>5 DEF FiguresMonotone
<1>9. /\ Fuel(cs, ds, f, k)..Fuel(cs, ds, f, n) \subseteq Fuel(cs, ds, f, k)'..Fuel(cs, ds, f, m)'
      /\ Distance(cs, ds, f, k)..Distance(cs, ds, f, n)
           \subseteq Distance(cs, ds, f, k)'..Distance(cs, ds, f, m)'
  BY <1>6, <1>7, <1>8
<1> QED
  BY <1>1, <1>4, <1>5, <1>9

\* A step of other requests leaves a report within its brackets.
LEMMA UnhandledReport ==
  ASSUME ReportsInv, LogsOK', [ReportsNext]_allVars, report' = report
  PROVE  ReportOK' /\ FiguresBracketed'
<1> SUFFICES ASSUME report # NoReport PROVE ReportOK' /\ FiguresBracketed'
  BY DEF ReportOK, FiguresBracketed, NoReport
<1>1. PICK r : r = report /\ r = report'
  OBVIOUS
<1>2. /\ r \in Reports(Len(logs)) /\ r # NoReport
      /\ r.cars = {} => r.cost = None /\ r.kms = None
  BY <1>1 DEF ReportsInv, ReportOK
<1>3. /\ r.cars \in SUBSET Plates /\ r.logged \in 0..Len(logs) /\ r.org \in Fleets \cup {None}
  BY <1>2 DEF Reports
<1>4. /\ r.logged \in 0..Len(logs')
      /\ Fuel(r.cars, r.drivers, r.filter, r.logged)..Fuel(r.cars, r.drivers, r.filter, Len(logs))
           \subseteq (Fuel(r.cars, r.drivers, r.filter, r.logged)
                       ..Fuel(r.cars, r.drivers, r.filter, Len(logs)))'
      /\ Distance(r.cars, r.drivers, r.filter, r.logged)
           ..Distance(r.cars, r.drivers, r.filter, Len(logs))
           \subseteq (Distance(r.cars, r.drivers, r.filter, r.logged)
                       ..Distance(r.cars, r.drivers, r.filter, Len(logs)))'
  BY <1>3, BracketsStay DEF ReportsInv
<1>5. ASSUME r.org # None, NEW c \in r.cars PROVE owner'[c] = r.org
  <2>1. owner[c] = r.org /\ c \in Plates /\ r.org # None
    BY <1>1, <1>2, <1>3, <1>5 DEF ReportsInv, FiguresBracketed
  <2> QED
    BY <2>1, CarSteps, OwnersStay DEF ReportsInv, IInv
<1>6. ReportOK'
  BY <1>1, <1>2, <1>4 DEF ReportOK, Reports
<1>7. FiguresBracketed'
  BY <1>1, <1>2, <1>4, <1>5 DEF ReportsInv, FiguresBracketed
<1> QED
  BY <1>6, <1>7

\* A report begins with the cars of its caller and no figure yet.
LEMMA BegunReport ==
  ASSUME LogsOK, LogsOK', NEW h \in Handlers, NEW o \in Fleets \cup {None},
         NEW cs \in SUBSET Plates, NEW ds \in SUBSET Drivers, NEW f \in Asked,
         o # None => \A c \in cs : owner[c] = o, Begin(h, o, cs, ds, f)
  PROVE  ReportOK' /\ FiguresBracketed'
<1>1. /\ report' = [by |-> h, org |-> o, cars |-> cs, drivers |-> ds, filter |-> f,
                    logged |-> Len(logs), cost |-> None, kms |-> None]
      /\ logs' = logs /\ owner' = owner /\ Len(logs) \in 0..Len(logs)
  BY DEF Begin, LogsOK, vars, cars
<1>2. ReportOK'
  BY <1>1 DEF ReportOK, Reports
<1> QED
  BY <1>1, <1>2 DEF FiguresBracketed

\* The cars of a driver's report are read before any figure.
LEMMA CarsRead ==
  ASSUME ReportsInv, LogsOK', ReadCars
  PROVE  ReportOK' /\ FiguresBracketed'
<1>1. PICK r : r = report
  OBVIOUS
<1> DEFINE cs == getOrgCarIds(r.org)
<1>2. /\ r \in Reports(Len(logs)) /\ r.cost = None /\ r.kms = None
      /\ report' = [r EXCEPT !.cars = cs, !.logged = Len(logs)]
      /\ logs' = logs /\ owner' = owner /\ Len(logs) \in 0..Len(logs)
  BY <1>1 DEF ReportsInv, ReportOK, ReadCars, LogsOK, vars, cars
<1>3. cs \in SUBSET Plates /\ \A c \in cs : owner[c] = r.org
  BY DEF getOrgCarIds
<1> HIDE DEF cs
<1>4. /\ report'.org = r.org /\ report'.cars = cs /\ report'.cost = None /\ report'.kms = None
      /\ report' \in Reports(Len(logs))
  BY <1>2, <1>3 DEF Reports
<1>5. ReportOK'
  BY <1>2, <1>4 DEF ReportOK, Reports
<1> QED
  BY <1>2, <1>3, <1>4, <1>5 DEF FiguresBracketed

\* A query is answered with a figure between the brackets.
LEMMA QueriedReport ==
  ASSUME ReportsInv, LogsOK', QueryCost \/ QueryKms
  PROVE  ReportOK' /\ FiguresBracketed'
<1>1. PICK r : r = report
  OBVIOUS
<1>2. PICK n \in Nat : n = Len(logs)
  BY DEF ReportsInv, LogsOK
<1> DEFINE fuel  == Fuel(r.cars, r.drivers, r.filter, n)
           kms   == Distance(r.cars, r.drivers, r.filter, n)
<1>3. r \in Reports(n) /\ r # NoReport /\ r.cars # {}
  BY <1>1, <1>2 DEF ReportsInv, ReportOK, QueryCost, QueryKms
<1>4. n \in 0..Len(logs) /\ r.logged \in 0..n /\ r.cars \in SUBSET Plates /\ n \in 0..n
  BY <1>2, <1>3 DEF Reports
<1>5. /\ fuel \in Nat /\ Fuel(r.cars, r.drivers, r.filter, r.logged) \in Nat
      /\ kms \in Nat /\ Distance(r.cars, r.drivers, r.filter, r.logged) \in Nat
      /\ Fuel(r.cars, r.drivers, r.filter, r.logged) <= fuel
      /\ Distance(r.cars, r.drivers, r.filter, r.logged) <= kms
  BY <1>4, Monotone DEF FiguresMonotone, ReportsInv
<1>6. /\ fuel \in Fuel(r.cars, r.drivers, r.filter, r.logged)..fuel
      /\ kms \in Distance(r.cars, r.drivers, r.filter, r.logged)..kms
  BY <1>5
<1>7. /\ logs' = logs /\ owner' = owner
      /\ report' \in {[r EXCEPT !.cost = fuel], [r EXCEPT !.kms = kms]}
  BY <1>1, <1>2 DEF QueryCost, QueryKms, vars, cars
<1>8. \A p, ds, f, k : Fuel(p, ds, f, k)' = Fuel(p, ds, f, k)
                       /\ Distance(p, ds, f, k)' = Distance(p, ds, f, k)
  BY <1>7 DEF Fuel, Distance, Readings, Of, buildFuelLogDateFilter
<1> HIDE DEF fuel, kms
<1>9. ReportOK'
  BY <1>2, <1>3, <1>5, <1>7 DEF ReportOK, Reports
<1>10. /\ r.org # None => \A c \in r.cars : owner[c] = r.org
       /\ r.cost # None => r.cost \in Fuel(r.cars, r.drivers, r.filter, r.logged)..fuel
       /\ r.kms # None => r.kms \in Distance(r.cars, r.drivers, r.filter, r.logged)..kms
  BY <1>1, <1>2, <1>3 DEF ReportsInv, FiguresBracketed, fuel, kms
<1>11. CASE report' = [r EXCEPT !.cost = fuel]
  <2>1. /\ report'.org = r.org /\ report'.cars = r.cars /\ report'.drivers = r.drivers
        /\ report'.filter = r.filter /\ report'.logged = r.logged /\ report'.cost = fuel
        /\ report'.kms = r.kms
    BY <1>3, <1>11 DEF Reports
  <2> QED
    BY <1>2, <1>6, <1>7, <1>8, <1>9, <1>10, <2>1 DEF FiguresBracketed, fuel, kms
<1>12. CASE report' = [r EXCEPT !.kms = kms]
  <2>1. /\ report'.org = r.org /\ report'.cars = r.cars /\ report'.drivers = r.drivers
        /\ report'.filter = r.filter /\ report'.logged = r.logged /\ report'.kms = kms
        /\ report'.cost = r.cost
    BY <1>3, <1>12 DEF Reports
  <2> QED
    BY <1>2, <1>6, <1>7, <1>8, <1>9, <1>10, <2>1 DEF FiguresBracketed, fuel, kms
<1> QED
  BY <1>7, <1>9, <1>11, <1>12

LEMMA ReportStep ==
  ASSUME ReportsInv, LogsOK', [ReportsNext]_allVars
  PROVE  ReportOK' /\ FiguresBracketed'
<1>1. CASE UNCHANGED report
  BY <1>1, UnhandledReport
<1>2. CASE QueryCost \/ QueryKms
  BY <1>2, QueriedReport
<1>3. CASE EndReport
  BY <1>3 DEF EndReport, ReportOK, FiguresBracketed
<1>4. ASSUME NEW h \in Handlers, NEW o \in Fleets, NEW c \in Plates, NEW f \in Asked,
             BeginForVehicle(h, o, c, f)
      PROVE  ReportOK' /\ FiguresBracketed'
  <2>1. /\ o # None /\ owner[c] = o /\ Begin(h, o, {c}, Drivers, f)
        /\ {c} \in SUBSET Plates /\ Drivers \in SUBSET Drivers
    BY <1>4, LimitsAssumption DEF BeginForVehicle, getOrgCarIds
  <2> QED
    BY <2>1, BegunReport DEF ReportsInv
<1>5. ASSUME NEW h \in Handlers, NEW ds \in {Drivers} \cup {{d} : d \in Drivers}, NEW f \in Asked,
             BeginForAdmin(h, ds, f)
      PROVE  ReportOK' /\ FiguresBracketed'
  <2>1. Plates \in SUBSET Plates /\ ds \in SUBSET Drivers /\ Begin(h, None, Plates, ds, f)
    BY <1>5 DEF BeginForAdmin
  <2> QED
    BY <2>1, BegunReport DEF ReportsInv
<1>6. ASSUME NEW h \in Handlers, NEW o \in Fleets, NEW f \in Asked, BeginForManager(h, o, f)
      PROVE  ReportOK' /\ FiguresBracketed'
  <2>1. /\ getOrgCarIds(o) \in SUBSET Plates /\ \A c \in getOrgCarIds(o) : owner[c] = o
        /\ Begin(h, o, getOrgCarIds(o), Drivers, f) /\ Drivers \in SUBSET Drivers
    BY <1>6 DEF BeginForManager, getOrgCarIds
  <2> QED
    BY <2>1, BegunReport DEF ReportsInv
<1>7. ASSUME NEW h \in Handlers, NEW o \in Fleets, NEW d \in Drivers, NEW f \in Asked,
             BeginForDriver(h, o, d, f)
      PROVE  ReportOK' /\ FiguresBracketed'
  <2>1. {} \in SUBSET Plates /\ {d} \in SUBSET Drivers /\ Begin(h, o, {}, {d}, f)
    BY <1>7 DEF BeginForDriver
  <2> QED
    BY <2>1, BegunReport DEF ReportsInv
<1>8. ASSUME NEW h \in Handlers, Ask(h) PROVE ReportOK' /\ FiguresBracketed'
  <2>1. CASE \E o \in Fleets, d \in Drivers, c \in Plates : RefuseReport(h, o, d, c)
    BY <1>1, <2>1 DEF RefuseReport, allVars
  <2> QED
    BY <1>4, <1>5, <1>6, <1>7, <1>8, <2>1 DEF Ask
<1>9. ASSUME ReportsNext, ~UNCHANGED report
      PROVE  ReadCars \/ QueryCost \/ QueryKms \/ EndReport \/ \E h \in Handlers : Ask(h)
  BY <1>9 DEF ReportsNext, LogFuel, RemoveDriver, CarStep
<1> QED
  BY <1>1, <1>2, <1>3, <1>8, <1>9, CarsRead DEF allVars

\* Figures of a report that other requests overtake lie between those of the logs
\* at its start and those of the logs by now, for any fleet and any filter.
THEOREM ReportsInvariant == ReportsSpec => []ReportsInv
<1>1. ReportsInit => ReportsInv
  BY InitIInv DEF ReportsInit, ReportsInv, LogsOK, ReportOK, FiguresBracketed
<1>2. ReportsInv /\ [ReportsNext]_allVars => ReportsInv'
  <2>1. IInv /\ [ReportsNext]_allVars => IInv'
    BY CarSteps, TypeStep, PlacesStep, ScansStep DEF IInv
  <2> QED
    BY <2>1, LogsStep, ReportStep DEF ReportsInv
<1> QED
  BY <1>1, <1>2, PTL DEF ReportsSpec

\* So they do for the report a manager waits for.
THEOREM Brackets == ReportsSpec => []FiguresBracketed
<1>1. ReportsInv => FiguresBracketed
  BY DEF ReportsInv
<1> QED
  BY ReportsInvariant, <1>1, PTL

\* Reports and logs leave the limit on cars and the barcodes as they were.
THEOREM FleetUnderReports == ReportsSpec => [](PlacesBounded /\ ScansExact)
<1>1. IInv => PlacesBounded
  BY DEF IInv
<1> QED
  BY CarsOfReports, PlacesInvariant, Scans, <1>1, PTL

-----------------------------------------------------------------------------
(* Reports at rest.                                                        *)

LEMMA LogFacts ==
  ASSUME LogsOK
  PROVE  /\ DOMAIN logs = 1..Len(logs) /\ Len(logs) \in 0..Len(logs)
         /\ \A i \in DOMAIN logs : /\ logs[i].car \in Plates /\ logs[i].driver \in Drivers
                                   /\ logs[i].km \in Nat /\ logs[i].at \in Nat
         /\ IsFiniteSet(DOMAIN logs)
<1>1. DOMAIN logs = 1..Len(logs) /\ Len(logs) \in Nat /\ \A i \in DOMAIN logs : logs[i] \in FuelLog
  BY DEF LogsOK
<1>2. \A i \in DOMAIN logs : /\ logs[i].car \in Plates /\ logs[i].driver \in Drivers
                             /\ logs[i].km \in Nat /\ logs[i].at \in Nat
  BY <1>1, ReportsAssumption DEF FuelLog
<1>3. IsFiniteSet(1..Len(logs))
  BY <1>1, FS_Interval
<1> QED
  BY <1>1, <1>2, <1>3

\* Logs counted by car, by driver, or by the owner of the car.
LEMMA CountByCar ==
  ASSUME LogsOK, NEW I \in SUBSET DOMAIN logs, NEW K \in SUBSET Plates,
         \A i \in I : logs[i].car \in K
  PROVE  SumFunction([c \in K |-> Cardinality({i \in I : logs[i].car = c})]) = Cardinality(I)
<1> DEFINE h == [i \in I |-> logs[i].car]
<1>1. IsFiniteSet(I) /\ IsFiniteSet(K) /\ \A i \in I : h[i] \in K
  BY LogFacts, LimitsAssumption, FS_Subset
<1>2. [c \in K |-> Cardinality({i \in I : logs[i].car = c})]
        = [c \in K |-> Cardinality({i \in I : h[i] = c})]
  <2>1. \A c : {i \in I : logs[i].car = c} = {i \in I : h[i] = c}
    OBVIOUS
  <2> QED
    BY <2>1
<1> HIDE DEF h
<1>3. SumFunction([c \in K |-> Cardinality({i \in I : h[i] = c})]) = Cardinality(I)
  BY <1>1, SumOfClasses
<1> QED
  BY <1>2, <1>3

LEMMA CountByDriver ==
  ASSUME LogsOK, NEW I \in SUBSET DOMAIN logs, NEW K \in SUBSET Drivers,
         \A i \in I : logs[i].driver \in K
  PROVE  SumFunction([d \in K |-> Cardinality({i \in I : logs[i].driver = d})]) = Cardinality(I)
<1> DEFINE h == [i \in I |-> logs[i].driver]
<1>1. IsFiniteSet(I) /\ IsFiniteSet(K) /\ \A i \in I : h[i] \in K
  BY LogFacts, ReportsAssumption, FS_Subset
<1>2. [d \in K |-> Cardinality({i \in I : logs[i].driver = d})]
        = [d \in K |-> Cardinality({i \in I : h[i] = d})]
  <2>1. \A d : {i \in I : logs[i].driver = d} = {i \in I : h[i] = d}
    OBVIOUS
  <2> QED
    BY <2>1
<1> HIDE DEF h
<1>3. SumFunction([d \in K |-> Cardinality({i \in I : h[i] = d})]) = Cardinality(I)
  BY <1>1, SumOfClasses
<1> QED
  BY <1>2, <1>3

LEMMA CountByOwner ==
  ASSUME LogsOK, NEW I \in SUBSET DOMAIN logs, \A i \in I : owner[logs[i].car] \in Fleets
  PROVE  SumFunction([o \in Fleets |-> Cardinality({i \in I : owner[logs[i].car] = o})])
           = Cardinality(I)
<1> DEFINE h == [i \in I |-> owner[logs[i].car]]
<1>1. IsFiniteSet(I) /\ IsFiniteSet(Fleets) /\ \A i \in I : h[i] \in Fleets
  BY LogFacts, ReportsAssumption, FS_Subset
<1>2. [o \in Fleets |-> Cardinality({i \in I : owner[logs[i].car] = o})]
        = [o \in Fleets |-> Cardinality({i \in I : h[i] = o})]
  <2>1. \A o : {i \in I : owner[logs[i].car] = o} = {i \in I : h[i] = o}
    OBVIOUS
  <2> QED
    BY <2>1
<1> HIDE DEF h
<1>3. SumFunction([o \in Fleets |-> Cardinality({i \in I : h[i] = o})]) = Cardinality(I)
  BY <1>1, SumOfClasses
<1> QED
  BY <1>2, <1>3

\* The two date filters let the same logs through.
LEMMA SameFilter ==
  ASSUME LogsOK, NEW f \in Filters
  PROVE  buildDateFilter(f) = buildFuelLogDateFilter(f, Len(logs))
<1>1. f.from \in Days \cup {None} /\ f.to \in Days \cup {None}
  BY DEF Filters
<1>2. f.from # None => Midnight(f.from) \in Int
  BY <1>1, ReportsAssumption DEF Midnight
<1>3. f.to # None => EndOfDay(f.to) \in Int
  BY <1>1, ReportsAssumption DEF EndOfDay
<1> QED
  BY <1>2, <1>3, LogFacts DEF buildDateFilter, buildFuelLogDateFilter

LEMMA Agree == LogsOK => ReportsAgree
<1> SUFFICES ASSUME LogsOK, NEW o \in Fleets, NEW f \in Filters
             PROVE  LET kpis      == getFleetDashboardKpis(o, f)
                        byVehicle == getCostAnalyticsByVehicle(o, f)
                        byDriver  == getCostAnalyticsByDriver(o, f)
                        answer    == [d \in Drivers |-> getDriverEfficiency(d, o, f)]
                        shown     == {d \in Drivers : answer[d] # Forbidden}
                    IN  /\ SumFunction([c \in DOMAIN byVehicle |-> byVehicle[c].totalFuelCost])
                             = kpis.cost
                        /\ SumFunction(byDriver) = kpis.cost
                        /\ SumFunction([c \in getOrgCarIds(o) |-> getVehicleTco(c, f)])
                             = kpis.cost
                        /\ SumFunction([d \in shown |-> answer[d].cost])
                             + SumFunction([d \in gone \cap DOMAIN byDriver |-> byDriver[d]])
                             = kpis.cost
                        /\ \A d \in shown : answer[d].kms <= kpis.kms
  BY DEF ReportsAgree
<1> DEFINE cs == getOrgCarIds(o)
           byVehicle == getCostAnalyticsByVehicle(o, f)
           byDriver  == getCostAnalyticsByDriver(o, f)
           answer    == [d \in Drivers |-> getDriverEfficiency(d, o, f)]
           shown     == {d \in Drivers : answer[d] # Forbidden}
           I == Of(cs, Drivers, buildFuelLogDateFilter(f, Len(logs)))
           K == {logs[i].car : i \in I}
           D == {logs[i].driver : i \in I}
<1>1. o # None /\ cs \in SUBSET Plates
  BY LimitsAssumption DEF getOrgCarIds
<1>2. I \in SUBSET DOMAIN logs
  BY LogFacts, LogsCounted DEF LogsOK
<1>3. /\ getFleetDashboardKpis(o, f).cost = Cardinality(I)
      /\ getFleetDashboardKpis(o, f).kms = Distance(cs, Drivers, f, Len(logs))
  BY <1>1 DEF getFleetDashboardKpis, Fuel
<1>4. I = {i \in buildDateFilter(f) : logs[i].car \in getOrgCarIds(o)}
  BY SameFilter, LogFacts DEF Of, buildDateFilter
<1>5. SumFunction([c \in DOMAIN byVehicle |-> byVehicle[c].totalFuelCost]) = Cardinality(I)
  <2>1. DOMAIN byVehicle = K
        /\ \A c \in K : byVehicle[c].totalFuelCost = Cardinality({i \in I : logs[i].car = c})
    BY <1>4, Zenon DEF getCostAnalyticsByVehicle
  <2>2. [c \in DOMAIN byVehicle |-> byVehicle[c].totalFuelCost]
          = [c \in K |-> Cardinality({i \in I : logs[i].car = c})]
    BY <2>1, Zenon
  <2>3. K \in SUBSET Plates /\ \A i \in I : logs[i].car \in K
    BY <1>2, LogFacts
  <2>4. SumFunction([c \in K |-> Cardinality({i \in I : logs[i].car = c})]) = Cardinality(I)
    <3> HIDE DEF I, K
    <3> QED
      BY <1>2, <2>3, CountByCar
  <2> QED
    BY <2>2, <2>4, Zenon
<1>6. SumFunction(byDriver) = Cardinality(I)
  <2>1. byDriver = [d \in D |-> Cardinality({i \in I : logs[i].driver = d})]
    BY <1>4, Zenon DEF getCostAnalyticsByDriver
  <2>2. D \in SUBSET Drivers /\ \A i \in I : logs[i].driver \in D
    BY <1>2, LogFacts
  <2>3. SumFunction([d \in D |-> Cardinality({i \in I : logs[i].driver = d})]) = Cardinality(I)
    <3> HIDE DEF I, D
    <3> QED
      BY <1>2, <2>2, CountByDriver
  <2> QED
    BY <2>1, <2>3, Zenon
<1>7. SumFunction([c \in cs |-> getVehicleTco(c, f)]) = Cardinality(I)
  <2>1. \A c \in cs : getVehicleTco(c, f) = Cardinality({i \in I : logs[i].car = c})
    <3> TAKE c \in cs
    <3>1. Of({c}, Drivers, buildFuelLogDateFilter(f, Len(logs))) = {i \in I : logs[i].car = c}
      BY DEF Of
    <3> QED
      BY <3>1 DEF getVehicleTco, Fuel
  <2>2. [c \in cs |-> getVehicleTco(c, f)]
          = [c \in cs |-> Cardinality({i \in I : logs[i].car = c})]
    BY <2>1
  <2>3. \A i \in I : logs[i].car \in cs
    BY DEF Of
  <2>4. SumFunction([c \in cs |-> Cardinality({i \in I : logs[i].car = c})]) = Cardinality(I)
    <3> HIDE DEF I, cs
    <3> QED
      BY <1>1, <1>2, <2>3, CountByCar
  <2> QED
    BY <2>2, <2>4, Zenon
<1>8. shown = {d \in Drivers : DriverFound(d, o)}
      /\ \A d \in shown :
           /\ answer[d].cost = Cardinality({i \in I : logs[i].driver = d})
           /\ answer[d].kms = Distance(cs, {d}, f, Len(logs))
  <2>1. ASSUME NEW d \in Drivers, DriverFound(d, o)
        PROVE  /\ answer[d] # Forbidden
               /\ answer[d].cost = Cardinality({i \in I : logs[i].driver = d})
               /\ answer[d].kms = Distance(cs, {d}, f, Len(logs))
    <3>1. Of(cs, {d}, buildFuelLogDateFilter(f, Len(logs))) = {i \in I : logs[i].driver = d}
      BY DEF Of
    <3>2. answer[d] = [cost |-> Fuel(cs, {d}, f, Len(logs)),
                       kms |-> Distance(cs, {d}, f, Len(logs)),
                       status |-> EfficiencyStatus(Fuel(cs, {d}, f, Len(logs)),
                                                   Distance(cs, {d}, f, Len(logs)))]
      BY <1>1, <2>1 DEF getDriverEfficiency
    <3>3. answer[d].status # "FORBIDDEN"
      BY <3>2 DEF EfficiencyStatus
    <3>4. answer[d] # Forbidden
      BY <3>3 DEF Forbidden
    <3>5. Fuel(cs, {d}, f, Len(logs)) = Cardinality({i \in I : logs[i].driver = d})
      BY <3>1, Zenon DEF Fuel
    <3> HIDE DEF answer, I, cs
    <3> QED
      BY <3>2, <3>4, <3>5
  <2>2. ASSUME NEW d \in Drivers, ~DriverFound(d, o) PROVE answer[d] = Forbidden
    BY <1>1, <2>2 DEF getDriverEfficiency
  <2> HIDE DEF answer, I
  <2> QED
    BY <2>1, <2>2
\* A log of a car of the organization is by one of its drivers, who is still
\* there or removed.
<1>9. SumFunction([d \in shown |-> answer[d].cost])
        + SumFunction([d \in gone \cap DOMAIN byDriver |-> byDriver[d]]) = Cardinality(I)
  <2> DEFINE stay == {i \in I : logs[i].driver \notin gone}
             left == {i \in I : logs[i].driver \in gone}
             past == gone \cap DOMAIN byDriver
  <2>1. /\ DOMAIN byDriver = D
        /\ \A d \in D : byDriver[d] = Cardinality({i \in I : logs[i].driver = d})
    BY <1>4, Zenon DEF getCostAnalyticsByDriver
  <2>2. \A i \in I : /\ logs[i].driver \in Drivers /\ logs[i].driver \in D
                     /\ DriverOrg[logs[i].driver] = o
    BY <1>2, LogFacts DEF LogsOK, Of, getOrgCarIds
  <2>3. D \in SUBSET Drivers
    BY <2>2
  <2> HIDE DEF I, D, byDriver, answer
  <2>4. /\ stay \in SUBSET DOMAIN logs /\ shown \in SUBSET Drivers
        /\ \A i \in stay : logs[i].driver \in shown
    BY <1>2, <1>8, <2>2 DEF DriverFound
  <2>5. /\ left \in SUBSET DOMAIN logs /\ past \in SUBSET Drivers
        /\ \A i \in left : logs[i].driver \in past
    BY <1>2, <2>1, <2>2, <2>3
  <2>6. \A d \in shown : answer[d].cost = Cardinality({i \in stay : logs[i].driver = d})
    <3> TAKE d \in shown
    <3>1. {i \in stay : logs[i].driver = d} = {i \in I : logs[i].driver = d}
      BY <1>8 DEF DriverFound
    <3> HIDE DEF shown, stay
    <3> QED
      BY <1>8, <3>1
  <2>7. \A d \in past : byDriver[d] = Cardinality({i \in left : logs[i].driver = d})
    <3> TAKE d \in past
    <3>1. {i \in left : logs[i].driver = d} = {i \in I : logs[i].driver = d}
      OBVIOUS
    <3> QED
      BY <2>1, <3>1
  <2> HIDE DEF stay, left, past, shown
  <2>8. SumFunction([d \in shown |-> answer[d].cost]) = Cardinality(stay)
    <3>1. [d \in shown |-> answer[d].cost]
            = [d \in shown |-> Cardinality({i \in stay : logs[i].driver = d})]
      BY <2>6
    <3>2. SumFunction([d \in shown |-> Cardinality({i \in stay : logs[i].driver = d})])
            = Cardinality(stay)
      BY <2>4, CountByDriver
    <3> QED
      BY <3>1, <3>2, Zenon
  <2>9. SumFunction([d \in past |-> byDriver[d]]) = Cardinality(left)
    <3>1. [d \in past |-> byDriver[d]]
            = [d \in past |-> Cardinality({i \in left : logs[i].driver = d})]
      BY <2>7
    <3>2. SumFunction([d \in past |-> Cardinality({i \in left : logs[i].driver = d})])
            = Cardinality(left)
      BY <2>5, CountByDriver
    <3> QED
      BY <3>1, <3>2, Zenon
  <2>10. Cardinality(stay) + Cardinality(left) = Cardinality(I)
    <3>1. IsFiniteSet(stay) /\ IsFiniteSet(left)
      BY <2>4, <2>5, LogFacts, FS_Subset
    <3>2. stay \cap left = {} /\ stay \cup left = I
      BY DEF stay, left
    <3> QED
      BY <3>1, <3>2, DisjointUnion
  <2> QED
    BY <2>8, <2>9, <2>10, Zenon DEF past
<1>10. ASSUME NEW d \in shown
       PROVE  answer[d].kms <= getFleetDashboardKpis(o, f).kms
  <2>1. answer[d].kms = Distance(cs, {d}, f, Len(logs)) /\ d \in Drivers
    BY <1>8
  <2>2. Len(logs) \in 0..Len(logs) /\ Len(logs) <= Len(logs) /\ {d} \subseteq Drivers
    BY <2>1, LogFacts
  <2>3. Distance(cs, {d}, f, Len(logs)) <= Distance(cs, Drivers, f, Len(logs))
    <3> HIDE DEF cs
    <3> QED
      BY <1>1, <2>2, FiguresGrow DEF LogsOK
  <2> QED
    BY <1>3, <2>1, <2>3
<1> HIDE DEF cs, byVehicle, byDriver, answer, shown, I, K, D
<1> QED
  BY <1>3, <1>5, <1>6, <1>7, <1>9, <1>10 DEF cs, byVehicle, byDriver, answer, shown

\* The six functions agree on every figure, whatever was removed, for any fleet.
THEOREM Agreement == ReportsSpec => []ReportsAgree
<1>1. ReportsInv => ReportsAgree
  BY Agree DEF ReportsInv
<1> QED
  BY ReportsInvariant, <1>1, PTL

\* Over all days every log of the cars and drivers counts.
LEMMA AllLogs ==
  ASSUME LogsOK, NEW cs, NEW ds
  PROVE  Of(cs, ds, buildFuelLogDateFilter(AllDays, Len(logs)))
           = {i \in DOMAIN logs : logs[i].car \in cs /\ logs[i].driver \in ds}
BY LogFacts DEF Of, buildFuelLogDateFilter, AllDays

LEMMA PeriodsStep == LogsOK => PeriodsAddUp
<1> SUFFICES ASSUME LogsOK, NEW c \in Plates
             PROVE  LET history == Cardinality(LogsOfCar(c, Len(logs))) IN
                    /\ getVehicleTco(c, AllDays) = history
                    /\ \A d \in Days :
                         getVehicleTco(c, [AllDays EXCEPT !.to = d])
                           + getVehicleTco(c, [AllDays EXCEPT !.from = d + 1]) = history
  BY DEF PeriodsAddUp
<1> DEFINE H == LogsOfCar(c, Len(logs))
<1>1. H = {i \in DOMAIN logs : logs[i].car = c} /\ IsFiniteSet(H)
  BY LogFacts, FS_Subset DEF LogsOfCar
<1>2. getVehicleTco(c, AllDays) = Cardinality(H)
  <2>1. Of({c}, Drivers, buildFuelLogDateFilter(AllDays, Len(logs))) = H
    BY <1>1, AllLogs, LogFacts
  <2> QED
    BY <2>1 DEF getVehicleTco, Fuel
<1>3. ASSUME NEW d \in Days
      PROVE  getVehicleTco(c, [AllDays EXCEPT !.to = d])
               + getVehicleTco(c, [AllDays EXCEPT !.from = d + 1]) = Cardinality(H)
  <2> DEFINE upTo == {i \in H : logs[i].at <= 2 * d}
             from == {i \in H : logs[i].at >= 2 * d + 1}
  <2>1. d \in Nat /\ d + 1 \in Nat /\ None \notin Nat
    BY ReportsAssumption
  <2>2. Of({c}, Drivers, buildFuelLogDateFilter([AllDays EXCEPT !.to = d], Len(logs))) = upTo
    BY <1>1, <2>1, LogFacts DEF Of, buildFuelLogDateFilter, AllDays, EndOfDay
  <2>3. Of({c}, Drivers, buildFuelLogDateFilter([AllDays EXCEPT !.from = d + 1], Len(logs)))
          = from
    <3>1. Midnight(d + 1) = 2 * d + 1
      BY <2>1 DEF Midnight
    <3> QED
      BY <1>1, <2>1, <3>1, LogFacts DEF Of, buildFuelLogDateFilter, AllDays
  <2>4. upTo \cup from = H /\ upTo \cap from = {}
    BY <1>1, <2>1, LogFacts
  <2>5. IsFiniteSet(upTo) /\ IsFiniteSet(from)
    BY <1>1, FS_Subset
  <2>6. Cardinality(upTo \cup from) = Cardinality(upTo) + Cardinality(from)
    <3> HIDE DEF upTo, from
    <3> QED
      BY <2>4, <2>5, DisjointUnion
  <2> QED
    BY <2>2, <2>3, <2>4, <2>6 DEF getVehicleTco, Fuel
<1> QED
  BY <1>2, <1>3

\* Two periods that meet miss no log and count none twice, for any days.
THEOREM Periods == ReportsSpec => []PeriodsAddUp
<1>1. ReportsInv => PeriodsAddUp
  BY PeriodsStep DEF ReportsInv
<1> QED
  BY ReportsInvariant, <1>1, PTL

LEMMA AdminStep == IInv /\ LogsOK => AdminSeesAll
<1> SUFFICES ASSUME IInv, LogsOK
             PROVE  getFleetDashboardKpis(None, AllDays).cost
                      = SumFunction([o \in Fleets |-> getFleetDashboardKpis(o, AllDays).cost])
                          + SumFunction([c \in removed |-> getVehicleTco(c, AllDays)])
  BY DEF AdminSeesAll
<1> DEFINE away == {i \in DOMAIN logs : logs[i].car \in removed}
           here == {i \in DOMAIN logs : logs[i].car \notin removed}
<1>1. getFleetDashboardKpis(None, AllDays).cost = Cardinality(DOMAIN logs)
  <2>1. Of(Plates, Drivers, buildFuelLogDateFilter(AllDays, Len(logs))) = DOMAIN logs
    BY AllLogs, LogFacts
  <2> QED
    BY <2>1 DEF getFleetDashboardKpis, Fuel
<1>2. SumFunction([o \in Fleets |-> getFleetDashboardKpis(o, AllDays).cost]) = Cardinality(here)
  <2>1. ASSUME NEW o \in Fleets
        PROVE  getFleetDashboardKpis(o, AllDays).cost
                 = Cardinality({i \in here : owner[logs[i].car] = o})
    <3>1. o # None
      BY LimitsAssumption
    <3>2. Of(getOrgCarIds(o), Drivers, buildFuelLogDateFilter(AllDays, Len(logs)))
            = {i \in here : owner[logs[i].car] = o}
      BY AllLogs, LogFacts DEF getOrgCarIds
    <3> QED
      BY <3>1, <3>2 DEF getFleetDashboardKpis, Fuel
  <2>2. [o \in Fleets |-> getFleetDashboardKpis(o, AllDays).cost]
          = [o \in Fleets |-> Cardinality({i \in here : owner[logs[i].car] = o})]
    BY <2>1
  <2>3. \A i \in here : owner[logs[i].car] \in Fleets
    BY LogFacts, ReportsAssumption DEF LogsOK
  <2>4. SumFunction([o \in Fleets |-> Cardinality({i \in here : owner[logs[i].car] = o})])
          = Cardinality(here)
    <3>1. here \in SUBSET DOMAIN logs
      OBVIOUS
    <3> HIDE DEF here
    <3> QED
      BY <2>3, <3>1, CountByOwner
  <2> QED
    BY <2>2, <2>4, Zenon
<1>3. SumFunction([c \in removed |-> getVehicleTco(c, AllDays)]) = Cardinality(away)
  <2>1. ASSUME NEW c \in removed
        PROVE  getVehicleTco(c, AllDays) = Cardinality({i \in away : logs[i].car = c})
    <3>1. Of({c}, Drivers, buildFuelLogDateFilter(AllDays, Len(logs)))
            = {i \in away : logs[i].car = c}
      BY AllLogs, LogFacts
    <3> QED
      BY <3>1 DEF getVehicleTco, Fuel
  <2>2. [c \in removed |-> getVehicleTco(c, AllDays)]
          = [c \in removed |-> Cardinality({i \in away : logs[i].car = c})]
    BY <2>1
  <2>3. removed \in SUBSET Plates /\ away \in SUBSET DOMAIN logs
        /\ \A i \in away : logs[i].car \in removed
    BY DEF IInv, TypeOK
  <2>4. SumFunction([c \in removed |-> Cardinality({i \in away : logs[i].car = c})])
          = Cardinality(away)
    <3> HIDE DEF away
    <3> QED
      BY <2>3, CountByCar
  <2> QED
    BY <2>2, <2>4, Zenon
<1>4. here \cup away = DOMAIN logs /\ here \cap away = {}
      /\ IsFiniteSet(here) /\ IsFiniteSet(away)
  BY LogFacts, FS_Subset
<1>5. Cardinality(here \cup away) = Cardinality(here) + Cardinality(away)
  <2> HIDE DEF here, away
  <2> QED
    BY <1>4, DisjointUnion
<1> QED
  BY <1>1, <1>2, <1>3, <1>4, <1>5

\* An administrator's figure is that of all organizations and the removed cars.
THEOREM AdminTotal == ReportsSpec => []AdminSeesAll
<1>1. ReportsInv => AdminSeesAll
  BY AdminStep DEF ReportsInv
<1> QED
  BY ReportsInvariant, <1>1, PTL

\* Readings of a car span nothing exactly when they are all one.
LEMMA SpanPositive ==
  ASSUME NEW R \in SUBSET Nat, IsFiniteSet(R), R # {}
  PROVE  Span(R) \in Nat /\ (Span(R) # 0 <=> \E a, b \in R : a < b)
<1>1. R \in SUBSET Int
  <2>1. Nat \subseteq Int
    OBVIOUS
  <2> QED
    BY <2>1, Zenon
<1>2. /\ Max(R) \in R /\ \A y \in R : y <= Max(R)
      /\ Min(R) \in R /\ \A y \in R : Min(R) <= y
  BY <1>1, Extremes
<1>3. Max(R) \in Nat /\ Min(R) \in Nat /\ Min(R) <= Max(R)
  BY <1>2
<1>4. Max(R) - Min(R) \in Nat /\ (Max(R) - Min(R) # 0 <=> Min(R) < Max(R))
  BY <1>3
<1>5. (\E a, b \in R : a < b) => Min(R) < Max(R)
  <2> SUFFICES ASSUME NEW a \in R, NEW b \in R, a < b PROVE Min(R) < Max(R)
    OBVIOUS
  <2>1. a \in Nat /\ b \in Nat /\ Min(R) <= a /\ b <= Max(R)
    BY <1>2
  <2> QED
    BY <1>3, <2>1
<1> QED
  BY <1>2, <1>4, <1>5 DEF Span

LEMMA Known ==
  ASSUME NEW litres, NEW kms \in Nat
  PROVE  EfficiencyStatus(litres, kms) # "UNKNOWN" <=> kms # 0
BY DEF EfficiencyStatus

LEMMA RatedStep == LogsOK => RatedByDistance
<1> SUFFICES ASSUME LogsOK, NEW d \in Drivers
             PROVE  getDriverEfficiency(d, None, AllDays).status # "UNKNOWN" <=>
                      \E i, j \in LogsOfDriver(d, Len(logs)) :
                        logs[i].car = logs[j].car /\ logs[i].km < logs[j].km
  BY DEF RatedByDistance
<1> DEFINE R(p) == Readings(p, {d}, AllDays, Len(logs))
           T == {p \in Plates : R(p) # {}}
           F == [c \in T |-> Span(R(c))]
           kms == Distance(Plates, {d}, AllDays, Len(logs))
<1>1. \A p : R(p) = {logs[i].km : i \in {j \in DOMAIN logs : logs[j].car = p
                                                           /\ logs[j].driver = d}}
  <2> TAKE p
  <2>1. Of({p}, {d}, buildFuelLogDateFilter(AllDays, Len(logs)))
          = {j \in DOMAIN logs : logs[j].car = p /\ logs[j].driver = d}
    BY AllLogs
  <2> QED
    BY <2>1 DEF Readings
<1>2. \A p : R(p) \in SUBSET Nat /\ IsFiniteSet(R(p))
  BY ReadingsFacts, LogFacts DEF LogsOK
<1>3. IsFiniteSet(T) /\ \A p \in T : F[p] = Span(R(p)) /\ F[p] \in Nat
  BY <1>2, SpanPositive, LimitsAssumption, FS_Subset
<1>4. kms = SumFunctionOnSet(F, T)
  BY DEF Distance, SumFunction
<1>5. SumFunctionOnSet(F, T) \in Nat /\ (SumFunctionOnSet(F, T) = 0 <=> \A p \in T : F[p] = 0)
  <2> HIDE DEF F, T
  <2> QED
    BY <1>3, SumStep, SumZero
<1>6. kms # 0 <=> \E p \in T : \E a, b \in R(p) : a < b
  <2>1. \A p \in T : F[p] # 0 <=> \E a, b \in R(p) : a < b
    BY <1>2, <1>3, SpanPositive
  <2> HIDE DEF F, T, R, kms
  <2> QED
    BY <1>4, <1>5, <2>1
<1>7. (\E p \in T : \E a, b \in R(p) : a < b)
        <=> \E i, j \in LogsOfDriver(d, Len(logs)) :
              logs[i].car = logs[j].car /\ logs[i].km < logs[j].km
  <2>1. LogsOfDriver(d, Len(logs)) = {i \in DOMAIN logs : logs[i].driver = d}
    BY LogFacts DEF LogsOfDriver
  <2>2. ASSUME NEW p \in T, NEW a \in R(p), NEW b \in R(p), a < b
        PROVE  \E i, j \in LogsOfDriver(d, Len(logs)) :
                 logs[i].car = logs[j].car /\ logs[i].km < logs[j].km
    <3> HIDE DEF T, R
    <3>1. PICK i, j \in DOMAIN logs : /\ logs[i].car = p /\ logs[i].driver = d /\ logs[i].km = a
                                      /\ logs[j].car = p /\ logs[j].driver = d /\ logs[j].km = b
      BY <1>1, <2>2
    <3> QED
      BY <2>1, <2>2, <3>1
  <2>3. ASSUME NEW i \in LogsOfDriver(d, Len(logs)), NEW j \in LogsOfDriver(d, Len(logs)),
               logs[i].car = logs[j].car, logs[i].km < logs[j].km
        PROVE  \E p \in T : \E a, b \in R(p) : a < b
    <3> HIDE DEF R
    <3>1. logs[i].km \in R(logs[i].car) /\ logs[j].km \in R(logs[i].car)
      BY <1>1, <2>1, <2>3
    <3>2. logs[i].car \in T
      BY <2>1, <3>1, LogFacts
    <3> QED
      BY <2>3, <3>1, <3>2
  <2> HIDE DEF T, R
  <2> QED
    BY <2>2, <2>3
<1>8. getDriverEfficiency(d, None, AllDays).status
        = EfficiencyStatus(Fuel(Plates, {d}, AllDays, Len(logs)), kms)
  BY DEF getDriverEfficiency
<1>9. kms \in Nat
  BY <1>4, <1>5
<1> HIDE DEF kms, T, R
<1> QED
  BY <1>6, <1>7, <1>8, <1>9, Known

\* A rating needs two readings of one car, however many cars a driver has driven.
THEOREM Ratings == ReportsSpec => []RatedByDistance
<1>1. ReportsInv => RatedByDistance
  BY RatedStep DEF ReportsInv
<1> QED
  BY ReportsInvariant, <1>1, PTL


\* Page k of a history is asked for when there are n[k] logs: the rows X before a
\* log only grow from page to page, so one page is asked for when their number is
\* its own.
LEMMA PagesMeet ==
  ASSUME LogsOK, NEW X \in SUBSET DOMAIN logs, NEW n \in [0..Len(logs) -> 0..Len(logs)],
         \A k, l \in DOMAIN n : k <= l => n[k] <= n[l]
  PROVE  \E k \in DOMAIN n : Cardinality(X \cap (1..n[k])) = k
<1> DEFINE L == Len(logs)
           g == [k \in 0..L |-> Cardinality(X \cap (1..n[k]))]
<1>1. L \in Nat /\ DOMAIN logs = 1..L /\ DOMAIN n = 0..L
  BY DEF LogsOK
<1>2. IsFiniteSet(1..L) /\ Cardinality(1..L) = L
  <2>1. 1 \in Int /\ L \in Int /\ (1 > L => L = 0) /\ L - 1 + 1 = L
    BY <1>1
  <2> HIDE DEF L
  <2> QED
    BY <2>1, FS_Interval
<1>3. \A k \in 0..L : /\ IsFiniteSet(X \cap (1..n[k]))
                      /\ Cardinality(X \cap (1..n[k])) \in Nat
                      /\ Cardinality(X \cap (1..n[k])) <= L
  <2> TAKE k \in 0..L
  <2>1. X \cap (1..n[k]) \in SUBSET (1..L)
    BY <1>1
  <2> QED
    BY <1>2, <2>1, FS_Subset, FS_CardinalityType
<1>4. g \in [0..L -> 0..L]
  BY <1>1, <1>3
<1>5. ASSUME NEW k \in 0..L, NEW l \in 0..L, k <= l PROVE g[k] <= g[l]
  <2>1. n[k] \in Nat /\ n[l] \in Nat /\ n[k] <= n[l]
    BY <1>1, <1>5
  <2>2. X \cap (1..n[k]) \in SUBSET (X \cap (1..n[l]))
    BY <2>1
  <2>3. Cardinality(X \cap (1..n[k])) <= Cardinality(X \cap (1..n[l]))
    BY <1>3, <2>2, FS_Subset
  <2> QED
    BY <2>3
<1>6. \E k \in 0..L : g[k] = k
  <2> HIDE DEF g, L
  <2> QED
    BY <1>1, <1>4, <1>5, FixedPoint
<1> QED
  BY <1>1, <1>6

LEMMA PagesStep == LogsOK => PagesMissNothing
<1> SUFFICES ASSUME LogsOK, NEW n \in [0..Len(logs) -> 0..Len(logs)],
                    \A k, l \in DOMAIN n : k <= l => n[k] <= n[l]
             PROVE  /\ \A c \in Plates : \A i \in LogsOfCar(c, n[0]) :
                         \E k \in DOMAIN n : i \in getFuelLogHistory(c, n[k], k, 1)
                    /\ \A d \in Drivers : \A i \in LogsOfDriver(d, n[0]) :
                         \E k \in DOMAIN n : i \in getDriverFuelLogs(d, n[k], k, 1)
  BY DEF PagesMissNothing
<1>1. /\ Len(logs) \in Nat /\ DOMAIN logs = 1..Len(logs) /\ DOMAIN n = 0..Len(logs)
      /\ 0 \in DOMAIN n
      /\ \A k \in DOMAIN n : n[k] \in 0..Len(logs) /\ n[0] <= n[k]
  BY DEF LogsOK
<1>2. ASSUME NEW c \in Plates, NEW i \in LogsOfCar(c, n[0])
      PROVE  \E k \in DOMAIN n : i \in getFuelLogHistory(c, n[k], k, 1)
  <2> DEFINE X == {j \in DOMAIN logs : logs[j].car = c /\ logs[j].at < logs[i].at}
  <2>1. PICK k \in DOMAIN n : Cardinality(X \cap (1..n[k])) = k
    <3>1. X \in SUBSET DOMAIN logs
      OBVIOUS
    <3> HIDE DEF X
    <3> QED
      BY <3>1, PagesMeet
  <2>2. i \in LogsOfCar(c, n[k])
    BY <1>1 DEF LogsOfCar
  <2>3. {j \in LogsOfCar(c, n[k]) : logs[j].at < logs[i].at} = X \cap (1..n[k])
    BY <1>1 DEF LogsOfCar
  <2>4. k \in Int /\ k \in k..(k + 1 - 1)
    BY <1>1
  <2> HIDE DEF X
  <2> QED
    BY <2>1, <2>2, <2>3, <2>4 DEF getFuelLogHistory, Page
<1>3. ASSUME NEW d \in Drivers, NEW i \in LogsOfDriver(d, n[0])
      PROVE  \E k \in DOMAIN n : i \in getDriverFuelLogs(d, n[k], k, 1)
  <2> DEFINE X == {j \in DOMAIN logs : logs[j].driver = d /\ logs[j].at > logs[i].at}
  <2>1. PICK k \in DOMAIN n : Cardinality(X \cap (1..n[k])) = k
    <3>1. X \in SUBSET DOMAIN logs
      OBVIOUS
    <3> HIDE DEF X
    <3> QED
      BY <3>1, PagesMeet
  <2>2. i \in LogsOfDriver(d, n[k])
    BY <1>1 DEF LogsOfDriver
  <2>3. {j \in LogsOfDriver(d, n[k]) : logs[j].at > logs[i].at} = X \cap (1..n[k])
    BY <1>1 DEF LogsOfDriver
  <2>4. k \in Int /\ k \in k..(k + 1 - 1)
    BY <1>1
  <2> HIDE DEF X
  <2> QED
    BY <2>1, <2>2, <2>3, <2>4 DEF getDriverFuelLogs, Page
<1> QED
  BY <1>2, <1>3

\* However many logs commit between two pages, and with whatever instants, every
\* log that was there at the first page is on one of them.
THEOREM Pages == ReportsSpec => []PagesMissNothing
<1>1. ReportsInv => PagesMissNothing
  BY PagesStep DEF ReportsInv
<1> QED
  BY ReportsInvariant, <1>1, PTL
=============================================================================
