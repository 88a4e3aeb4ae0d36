---------------------------- MODULE FleetReports ----------------------------
(***************************************************************************)
(* What managers and administrators are told about a fleet (src/fleet and  *)
(* src/admin/reports) while cars and drivers come and go and fuel is       *)
(* logged.  A report is several statements: whose, which cars, then each   *)
(* figure by a query of its own, with whatever other requests commit in    *)
(* between.  Six functions compute figures from the same logs, each on its *)
(* own way.                                                                *)
(***************************************************************************)
EXTENDS CarLimits, Sequences, FiniteSetsExt, Functions

CONSTANTS
  Drivers,    \* users with the role DRIVER
  DriverOrg,  \* the organization of each driver
  Odometers,  \* readings drivers log (bounds the DTO's integer)
  Times,      \* instants of logs: two per day, its midnight and its end
  Days,       \* days of the filters
  Asked,      \* filters of the reports that other requests overlap (bounds them)
  MaxLogs     \* fuel logs (bounds the FuelLog table)

ASSUME ReportsAssumption ==
  /\ IsFiniteSet(Drivers) /\ IsFiniteSet(Fleets)
  /\ DriverOrg \in [Drivers -> Fleets]
  /\ Odometers \cup Times \cup Days \subseteq Nat /\ MaxLogs \in Nat
  /\ None \notin Nat

VARIABLES
  gone,       \* drivers with deletedAt set
  logs,       \* FuelLog rows, in the order of their commits
  report      \* the report a handler computes, or NoReport

allVars == <<vars, gone, logs, report>>

\* Each log is for one litre at the price of one.
FuelLog == [car : Plates, driver : Drivers, km : Odometers, at : Times]

NoReport == [by |-> None]

-----------------------------------------------------------------------------
(* Date filters, whole days from one and to one, both optional.            *)

Midnight(d) == 2 * d - 1

\* Mutant: the end date stays the midnight it is parsed to.
StartOfEndDay(d) == 2 * d - 1

EndOfDay(d) == 2 * d

\* parseDateFilter and parseDateRange; a start after the end is refused (400).
Filters ==
  {f \in [from : Days \cup {None}, to : Days \cup {None}] :
     None \in {f.from, f.to} \/ Midnight(f.from) <= EndOfDay(f.to)}

AllDays == [from |-> None, to |-> None]

\* The logs of the first n that buildFuelLogDateFilter lets through.
buildFuelLogDateFilter(f, n) ==
  {i \in 1..n : /\ f.from # None => logs[i].at >= Midnight(f.from)
                /\ f.to # None => logs[i].at <= EndOfDay(f.to)}

\* Mutant: the start itself is left out.
buildDateFilterAfter(f) ==
  {i \in DOMAIN logs : /\ f.from # None => logs[i].at > Midnight(f.from)
                      /\ f.to # None => logs[i].at <= EndOfDay(f.to)}

\* The same in fleet.prisma.repository.ts.
buildDateFilter(f) ==
  DOMAIN logs \ {i \in DOMAIN logs : \/ f.from # None /\ logs[i].at < Midnight(f.from)
                                     \/ f.to # None /\ logs[i].at > EndOfDay(f.to)}

-----------------------------------------------------------------------------
(* Figures.  Sums of litres and costs are numbers of logs.                 *)

\* Cars of the organization that are not removed.
getOrgCarIds(o) == {p \in Plates : owner[p] = o} \ removed

Of(cs, ds, I) == {i \in I : logs[i].car \in cs /\ logs[i].driver \in ds}

\* aggregate: _sum of litres and totalCost.
Fuel(cs, ds, f, n) == Cardinality(Of(cs, ds, buildFuelLogDateFilter(f, n)))

\* Mutant: the smallest reading of all cars instead of each car's.
DistanceOverall(cs, ds, f, n) ==
  LET readings == {logs[i].km : i \in Of(cs, ds, buildFuelLogDateFilter(f, n))} IN
  IF readings = {} THEN 0 ELSE Max(readings) - Min(readings)

Readings(c, ds, f, n) == {logs[i].km : i \in Of({c}, ds, buildFuelLogDateFilter(f, n))}

\* _max less _min of the odometer.
Span(readings) == Max(readings) - Min(readings)

\* groupBy carId: a span for each car with logs, summed over the cars.
Distance(cs, ds, f, n) ==
  SumFunction([c \in {p \in cs : Readings(p, ds, f, n) # {}} |-> Span(Readings(c, ds, f, n))])

\* totalFleetCost and totalKmsDriven, without organization (ADMIN) of all cars.
getFleetDashboardKpis(o, f) ==
  LET cs == IF o = None THEN Plates ELSE getOrgCarIds(o) IN
  [cost |-> Fuel(cs, Drivers, f, Len(logs)), kms |-> Distance(cs, Drivers, f, Len(logs))]

\* Litres for 100 km below 8, to 12 or more; nothing is known without distance.
EfficiencyStatus(litres, kms) ==
  CASE kms = 0                -> "UNKNOWN"
    [] kms > 0 /\ litres * 100 < 8 * kms -> "EXCELLENT"
    [] kms > 0 /\ litres * 100 \in (8 * kms)..(12 * kms) -> "NORMAL"
    [] OTHER -> "POOR"

\* findFirst of the driver within the organization; removed ones are left out.
DriverFound(d, o) == DriverOrg[d] = o /\ d \notin gone

\* The answer 403.
Forbidden == [cost |-> None, kms |-> None, status |-> "FORBIDDEN"]

\* For an account manager of organization o; an ADMIN (None) may ask for anyone.
getDriverEfficiency(d, o, f) ==
  LET cs     == IF o = None THEN Plates ELSE getOrgCarIds(o)
      litres == Fuel(cs, {d}, f, Len(logs))
      kms    == Distance(cs, {d}, f, Len(logs))
  IN  IF o # None /\ ~DriverFound(d, o) THEN Forbidden
      ELSE [cost |-> litres, kms |-> kms, status |-> EfficiencyStatus(litres, kms)]

\* fuelCost of a vehicle; what its orders cost is not part of the model.
getVehicleTco(c, f) == Fuel({c}, Drivers, f, Len(logs))

\* groupBy carId and by driverId: rows only for those with logs.
getCostAnalyticsByVehicle(o, f) ==
  LET I == {i \in buildDateFilter(f) : logs[i].car \in getOrgCarIds(o)} IN
  [c \in {logs[i].car : i \in I} |->
     [totalFuelCost |-> Cardinality({i \in I : logs[i].car = c}),
      lastOdometer  |-> Max({logs[i].km : i \in {j \in I : logs[j].car = c}})]]

getCostAnalyticsByDriver(o, f) ==
  LET I == {i \in buildDateFilter(f) : logs[i].car \in getOrgCarIds(o)} IN
  [d \in {logs[i].driver : i \in I} |-> Cardinality({i \in I : logs[i].driver = d})]

-----------------------------------------------------------------------------
(* Histories, page by page.                                                *)

\* Mutant: the row at `skip' itself is skipped as well.
PageAfterSkip(before, skip, take) ==
  {i \in DOMAIN before : before[i] \in (skip + 1)..(skip + take)}

\* The rows with skip to skip + take - 1 rows before them.
Page(before, skip, take) == {i \in DOMAIN before : before[i] \in skip..(skip + take - 1)}

LogsOfCar(c, n)    == {i \in 1..n : logs[i].car = c}
LogsOfDriver(d, n) == {i \in 1..n : logs[i].driver = d}

\* Pages of a car's history, oldest first, and of a driver's, latest first, when
\* there are n logs; rows of one instant would be in any order.
getFuelLogHistory(c, n, skip, take) ==
  LET I == LogsOfCar(c, n) IN
  Page([i \in I |-> Cardinality({j \in I : logs[j].at < logs[i].at})], skip, take)

getDriverFuelLogs(d, n, skip, take) ==
  LET I == LogsOfDriver(d, n) IN
  Page([i \in I |-> Cardinality({j \in I : logs[j].at > logs[i].at})], skip, take)

-----------------------------------------------------------------------------
ReportsInit == Init /\ gone = {} /\ logs = <<>> /\ report = NoReport

\* A step of the car requests, on a handler that is not busy with a report.
CarStep(h) ==
  /\ report.by # h
  /\ Receive(h) \/ Work(h)
  /\ UNCHANGED <<gone, logs, report>>

\* An ADMIN removes a driver (softDelete of src/users; see Accounts).
RemoveDriver(d) ==
  /\ d \notin gone
  /\ gone' = gone \cup {d}
  /\ UNCHANGED <<vars, logs, report>>

\* A fuel log commits (addFuelLog; the transaction itself is in Mileage): its
\* driver belongs to the organization of the car.  Both may be removed: no query
\* asks for deletedAt, and an access token outlives its user.  createdAt is taken
\* before the commit, so not in the order of commits.
LogFuel(l) ==
  /\ Len(logs) < MaxLogs
  /\ owner[l.car] = DriverOrg[l.driver]
  /\ logs' = Append(logs, l)
  /\ UNCHANGED <<vars, gone, report>>

\* The first statement of a report is answered: it is about the cars cs, or a
\* query for the cars follows; `org' is the caller's, or None for an ADMIN.
Begin(h, o, cs, ds, f) ==
  /\ pc[h] = "idle"
  /\ report = NoReport
  /\ report' = [by |-> h, org |-> o, cars |-> cs, drivers |-> ds, filter |-> f,
                logged |-> Len(logs), cost |-> None, kms |-> None]
  /\ UNCHANGED <<vars, gone, logs>>

\* getFleetDashboard and getDriverAnalysis for an ADMIN: no car is looked up.
BeginForAdmin(h, ds, f) == Begin(h, None, Plates, ds, f)

\* getFleetDashboard for an account manager; with no car the answer is zero
\* without a query.
BeginForManager(h, o, f) ==
  getOrgCarIds(o) # {} /\ Begin(h, o, getOrgCarIds(o), Drivers, f)

\* getVehicleAnalysis: findFirst of the car within the organization.
BeginForVehicle(h, o, c, f) == c \in getOrgCarIds(o) /\ Begin(h, o, {c}, Drivers, f)

\* getDriverAnalysis for an account manager: the driver first, ...
BeginForDriver(h, o, d, f) == DriverFound(d, o) /\ Begin(h, o, {}, {d}, f)

\* ... then the cars; the driver may have been removed since.
ReadCars ==
  /\ report # NoReport /\ report.cars = {} /\ report.org # None
  /\ getOrgCarIds(report.org) # {}
  /\ report' = [report EXCEPT !.cars = getOrgCarIds(report.org), !.logged = Len(logs)]
  /\ UNCHANGED <<vars, gone, logs>>

\* The driver or the vehicle is not the organization's (403), or it has no cars.
RefuseReport(h, o, d, c) ==
  /\ pc[h] = "idle"
  /\ ~DriverFound(d, o) \/ c \notin getOrgCarIds(o) \/ getOrgCarIds(o) = {}
  /\ UNCHANGED allVars

\* Promise.all: the two queries are answered in any order.
QueryCost ==
  /\ report # NoReport /\ report.cars # {}
  /\ report.cost = None
  /\ report' = [report EXCEPT !.cost =
                  Fuel(report.cars, report.drivers, report.filter, Len(logs))]
  /\ UNCHANGED <<vars, gone, logs>>

\* Mutant: the second query forgets the driver.
QueryKmsOfAll ==
  /\ report # NoReport /\ report.cars # {}
  /\ report.kms = None
  /\ report' = [report EXCEPT !.kms = Distance(report.cars, Drivers, report.filter, Len(logs))]
  /\ UNCHANGED <<vars, gone, logs>>

QueryKms ==
  /\ report # NoReport /\ report.cars # {}
  /\ report.kms = None
  /\ report' = [report EXCEPT !.kms =
                  Distance(report.cars, report.drivers, report.filter, Len(logs))]
  /\ UNCHANGED <<vars, gone, logs>>

\* The report is answered, or a query of it failed.
EndReport ==
  /\ report # NoReport
  /\ report' = NoReport
  /\ UNCHANGED <<vars, gone, logs>>

Ask(h) ==
  \/ \E f \in Asked :
       \/ \E o \in Fleets, c \in Plates : BeginForVehicle(h, o, c, f)
       \/ \E o \in Fleets : BeginForManager(h, o, f)
       \/ \E o \in Fleets, d \in Drivers : BeginForDriver(h, o, d, f)
       \/ \E ds \in {Drivers} \cup {{d} : d \in Drivers} : BeginForAdmin(h, ds, f)
  \/ \E o \in Fleets, d \in Drivers, c \in Plates : RefuseReport(h, o, d, c)

ReportsNext ==
  \/ \E l \in FuelLog : LogFuel(l)
  \/ \E d \in Drivers : RemoveDriver(d)
  \/ \E h \in Handlers : CarStep(h) \/ Ask(h)
  \/ ReadCars \/ QueryCost \/ QueryKms \/ EndReport

ReportsSpec == ReportsInit /\ [][ReportsNext]_allVars

-----------------------------------------------------------------------------
(* Properties.                                                             *)

\* The queries of a report run while cars are added and removed and fuel is
\* logged, and each may see another moment: still each figure lies between that
\* of the logs at the start and that of the logs by now, for the cars read first
\* and only those, so a report nothing overtakes is exact.
FiguresBracketed ==
  report # NoReport =>
    LET cost(n) == Fuel(report.cars, report.drivers, report.filter, n)
        kms(n)  == Distance(report.cars, report.drivers, report.filter, n)
    IN  /\ report.org # None => \A c \in report.cars : owner[c] = report.org
        /\ report.cost # None => report.cost \in cost(report.logged)..cost(Len(logs))
        /\ report.kms # None => report.kms \in kms(report.logged)..kms(Len(logs))

\* Every content of the tables occurs while no report is under way.
AtRest == report = NoReport

\* The dashboard, the two analytics of src/fleet, the vehicles' and the drivers'
\* reports add up to one another for every organization and every filter, also
\* when cars with logs are removed; no driver is credited more than the fleet.
\* What the drivers' reports lack is the share of removed drivers, which the
\* analytics by driver still show and getDriverEfficiency refuses.
ReportsAgree ==
  AtRest =>
  \A o \in Fleets, f \in Filters :
    LET kpis      == getFleetDashboardKpis(o, f)
        byVehicle == getCostAnalyticsByVehicle(o, f)
        byDriver  == getCostAnalyticsByDriver(o, f)
        answer    == [d \in Drivers |-> getDriverEfficiency(d, o, f)]
        shown     == {d \in Drivers : answer[d] # Forbidden}
    IN  /\ SumFunction([c \in DOMAIN byVehicle |-> byVehicle[c].totalFuelCost]) = kpis.cost
        /\ SumFunction(byDriver) = kpis.cost
        /\ SumFunction([c \in getOrgCarIds(o) |-> getVehicleTco(c, f)]) = kpis.cost
        /\ SumFunction([d \in shown |-> answer[d].cost])
             + SumFunction([d \in gone \cap DOMAIN byDriver |-> byDriver[d]]) = kpis.cost
        /\ \A d \in shown : answer[d].kms <= kpis.kms

\* Reports for days up to one and from the next miss no log and count none
\* twice: the end date stands for the whole day (parseDateFilter), the start
\* date for its midnight.  Over all days each vehicle's report is its history.
PeriodsAddUp ==
  AtRest => \A c \in Plates :
    LET history == Cardinality(LogsOfCar(c, Len(logs))) IN
    /\ getVehicleTco(c, AllDays) = history
    /\ \A d \in Days :
         getVehicleTco(c, [AllDays EXCEPT !.to = d])
           + getVehicleTco(c, [AllDays EXCEPT !.from = d + 1]) = history

\* Who reads a car's or a driver's history page after page, while logs commit
\* that carry earlier instants than logs already shown, sees each log that was
\* there when they began: rows may be shown twice and never slip by
\* (getFuelLogHistory, getDriverFuelLogs), as long as no two carry one instant.
PagesMissNothing ==
  AtRest /\ (\A i, j \in DOMAIN logs : logs[i].at = logs[j].at => i = j) =>
  \A n \in [0..Len(logs) -> 0..Len(logs)] :
    (\A k, l \in DOMAIN n : k <= l => n[k] <= n[l]) =>
      /\ \A c \in Plates : \A i \in LogsOfCar(c, n[0]) :
           \E k \in DOMAIN n : i \in getFuelLogHistory(c, n[k], k, 1)
      /\ \A d \in Drivers : \A i \in LogsOfDriver(d, n[0]) :
           \E k \in DOMAIN n : i \in getDriverFuelLogs(d, n[k], k, 1)

\* "Never aggregate soft-deleted vehicles" (the comment of getOrgCarIds) does not
\* hold of the dashboard an ADMIN sees, which asks for no list of cars.  Its cost is
\* what the organizations are told and the fuel of the cars they have removed, the
\* latter being all it has too much.
AdminSeesAll ==
  AtRest =>
  getFleetDashboardKpis(None, AllDays).cost
    = SumFunction([o \in Fleets |-> getFleetDashboardKpis(o, AllDays).cost])
        + SumFunction([c \in removed |-> getVehicleTco(c, AllDays)])

\* A driver is rated exactly when two of their logs for one car show a distance:
\* readings of different cars are never compared (getDriverEfficiency).
RatedByDistance ==
  AtRest => \A d \in Drivers :
    getDriverEfficiency(d, None, AllDays).status # "UNKNOWN" <=>
      \E i, j \in LogsOfDriver(d, Len(logs)) :
        logs[i].car = logs[j].car /\ logs[i].km < logs[j].km
==============================================================================
