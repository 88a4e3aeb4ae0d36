# TLA+ models of the car-service backend

These modules specify the parts of the NestJS backend (`src/`) whose
correctness depends on how requests, transactions, queues, caches and failures
interleave. TLC checks each module on small instances; TLAPS proves the
properties that matter most for every value of the constants. Paths below are
relative to the repository (`src/...` is the NestJS application, `prisma/...`
the schema and its migrations).

## 1. Inventory of the system

One Node.js process serves HTTP requests, runs two BullMQ workers and one cron
job. Handlers are asynchronous: every `await` is a point where another request
can run. The shared state is a PostgreSQL database (through Prisma), two BullMQ
queues in Redis, and a cache inside the process.

| Component | State | Operations | Interacts with | What makes it correct |
|---|---|---|---|---|
| Orders (`src/orders`) | `Order`, `OrderItem`, `Part.quantity` | `createTransactional`, `updateStatus`, `cancelOrder`, reads | Inventory (same rows), stock alerts (enqueue after commit), cars (access) | no unit lost or restocked twice; statuses follow the state machine; a request has its whole effect or none; every request is answered |
| Inventory (`src/inventory`) | `Part` | create, update (absolute quantity), remove | Orders | SKU unique; quantities consistent with orders |
| Stock alerts (`src/inventory/stock.*`) | stock queue, worker | `checkStock`, `handleCheckStock` | Orders, notifications | a part left low is alerted; no check for an order that was rolled back |
| Fleet (`src/fleet`, `src/admin/fleet`) | `FuelLog`, `Car.mileageKm`, `Car.barcode` | `addFuelLog`; the barcode scan, analytics and paged histories read | Cars, maintenance | mileage never falls behind an accepted log; a scan finds the right car; a history shows every log |
| Maintenance (`src/maintenance`) | `MaintenanceRule`, `MaintenanceRecord`, `Car.mileageKm` | `createRule`, `recordMaintenance`, status report | Cars, services | records are kept and raise the mileage; due services are recognised |
| Maintenance checks (`maintenance.cron/jobs/processor`) | maintenance queue, worker, scan | `scanAllCars`, `scheduleCheck`, `handleCheckMaintenance` | Cars, rules, notifications | an overdue car is reported; a removed car gets no new checks |
| Cars (`src/cars`) | `Car` | create, update, assignBarcode, remove | everything about cars | limit per owner; plate and barcode unique |
| Services (`src/services`) | `Service`, list cache | create, update, remove, list | orders, maintenance | names unique among live services; lists converge to the table |
| Brands and models (`src/admin/brands`) | `CarBrand`, `CarModel`, list cache | create, list | - | lists converge to the tables |
| Users and authentication (`src/users`, `src/auth`) | `User`, `Organization`, `RefreshToken` | sign up, create, edit, remove, log in, refresh, log out | all handlers (caller context) | no organization without a member; tokens follow edits; removal and logout end sessions |
| Reports (`src/admin/reports`) | none | fleet, vehicle and driver reports, low parts | reads cars, logs, parts | totals agree with the rows and with one another |
| Seed (`prisma/seed.ts`) | the same tables, from a process of its own | find or create services, brands, models, rules | services, rules, brands | can be cut off and run again; leaves everything it lists |
| Notifications, health, HTTP plumbing, configuration | none | log lines, pings, formatting, start-up | - | no state of their own |

What is hard here: check-then-write without locks (stock, mileage, limits,
names, barcodes, rules, SKUs, e-mail addresses); two isolation levels in one component (READ
COMMITTED orders against SERIALIZABLE cancellations) with no retry and no lock
order; work after COMMIT that a crash loses (stock checks, cache deletions);
at-least-once jobs; workers that read a later state than the one that queued
them; cache fills that overlap the change they should show; reports that are
several statements, and totals computed along several paths; a seed without a
transaction that runs beside the API. The list with
source lines is `hazards` in `PROJECT.json`.

## 2. Modules

| Module | Models | Extends / instantiates |
|---|---|---|
| `OrderStatus` | `VALID_TRANSITIONS` and its two predicates | - |
| `OrderLedger` | abstract: orders and stock with atomic Place, Move, SetQuantity | `OrderStatus` |
| `Orders` | the transactions of orders and part edits over PostgreSQL | `OrderStatus`; `Ledger == INSTANCE OrderLedger WITH ...` |
| `StockAlerts` | enqueue, queue, worker, crashes on top of the orders | `Orders` |
| `Mileage` | the four writers of a car's mileage | - |
| `MaintenanceRules` | the status report and the worker's decision as operators | - |
| `MaintenanceChecks` | nightly scan, queue, worker, crashes on top of the mileage | `Mileage`, `MaintenanceRules` |
| `CarLimits` | cars per owner, barcodes and scans | - |
| `FleetReports` | fuel logs, reports, analytics and histories on top of the cars | `CarLimits` |
| `Accounts` | users, organizations and refresh tokens | - |
| `ServiceNames` | the table of services, the name check and the unique index | - |
| `ServiceLists` | list requests, cache and invalidation on top of the table | `ServiceNames` |
| `Seeding` | the seed, maintenance rules, brands and models beside the API | `ServiceLists` |
| `BrandsCache` | brands, models and their cached lists, the seed's inserts beside them | - |
| `MCOrders`, `MCMileage`, `MCMaintenanceChecks`, `MCFleetReports`, `MCAccounts`, `MCSeeding`, `MCBrandsCache` | symmetry sets and constant values for TLC | the module they name |
| `OrdersProofs`, `StockProofs`, `MileageProofs`, `FleetProofs`, `AccountsProofs`, `ServicesProofs`, `BrandsCacheProofs` | theorems and their proofs | the module they are about |
| `FiniteSums` | lemmas: induction over finite sets and naturals, sums and counts | - |

Common shape: `pc[h]` is the place of handler (request) `h`, `req[h]` its
argument. One action is what the handler does between two points where another
request can intervene, i.e. one database statement with the synchronous code
after it. `HandlerFails` ends a request anywhere: a lost connection, a failed
statement, the time limit of an interactive transaction; what was committed
stays, an open transaction is rolled back. Guards named "bound" in a comment
keep the instance finite and stand for no code.

### Orders

`createTransactional` is `CreateOrder`, then `ValidateCart` or `RejectCart`
(steps 1 to 4: reads without locks), one `DecrementPart` per part (step 5) and
`CommitOrder`. A status change is `UpdateStatus` / `CancelOrder` (the read and
the check outside the transaction), `BeginStatusTx`, `LockOrder` or
`RejectTransition` (`SELECT ... FOR UPDATE`, second check), `RestockPart` per
part of a cancellation, `CommitStatus`. Inventory edits are `UpdatePart` +
`PutPart` and `RemovePart` + `SoftDeletePart`.

PostgreSQL is modelled from how the code uses it. A transaction's writes are
private until its commit installs them, so only `held[h]`, the rows it has
written and locked, is state. READ COMMITTED decrements are relative to the
last committed quantity. A SERIALIZABLE transaction takes its snapshot at its
first statement; `stale[h]` collects rows that others commit after that, and a
statement that needs such a row fails (`SerializationFailure`). Waiting is a
guard on `RowFree`; a cycle of waiting transactions is broken by
`DeadlockVictim`. The order in which the rows of one request are locked is
arbitrary, since the client chooses the order of items. Serializable failures
of the read/write-dependency kind are covered by `HandlerFails`. Prices, and
order lines for services, touch no shared state and are left out; a cart is
the number of units per part, which is what the loop over the items computes. A
cancellation restocks a part once with that sum; the code does so item by item,
on a row the first item has locked.

### StockAlerts

`PlaceOrder` is `CommitOrder` together with the calls of `checkStock` that
`OrdersService.create` makes, one for each item of the order: a part may stand on
several items of a cart (`Itemised`), and `lines` keeps how many, as the table
`OrderItem` does. A call is answered by `AddJob` or `AddFails`
(the rejection is swallowed). The worker runs one job at a time (`TakeJob`,
`CheckStock`, `CheckFails`). `Crash` drops requests and unanswered calls and
leaves a running job stalled: run again or, the second time, failed. The
history variables `owed` (parts an order brought onto the dashboard's list of
low parts, `getLowStockParts`, that stayed there and are not yet alerted) and
`lost` (parts whose check a failure dropped) serve the properties only; `lost` is
kept for good, so of a part that lost a check once nothing more is promised. The
list and the worker (`AlertDue`) compare with the threshold each on its own;
`LowStockAlerted` ties the one to the other.

### Mileage and MaintenanceChecks

`addFuelLog` compares the odometer before and again inside its transaction
(`OpenFuelTx`, `CommitFuelLog`); `recordMaintenance` reads the car, inserts
the record (`CreateRecord`) and overwrites the mileage in a third statement
(`AdvanceMileage`); `EditCar` and `SoftDeleteCar` are the writes of
`CarsService`. `overtaken` is a history variable: requests whose car was
written by another one since they last read it.

`MaintenanceChecks` adds the cron's scan by chunks (one failing job ends the
scan), delayed jobs, the worker, crashes. It has one rule by distance; a job's
delay is that it is taken at any later time.

`MaintenanceRules` has no state: `Report` is `getCarMaintenanceStatus` for one
rule and `Alerts` what the worker decides for it. Both use the latest record;
of two with one `performedAt` either may be taken. `NextDue` follows `setMonth`:
the 31st of January and one month is the third of March, or the second; the
theorem `DueDates` says by how much this can reverse the order of two due dates
(two days). Rules without any interval are included, because `IsOptional` next to `ValidateIf`
lets them pass the validation, and so are intervals of less than 1000 km,
because each interval is only checked when the other is missing.
`MaintenanceChecks` decides with `Alerts` in the worker, and with `Report` in
its properties.

### CarLimits and FleetReports

`CarLimits`: `Create` counts and compares, `InsertCar` inserts, or fails on
the unique plate, which removed cars keep. `AssignBarcode` is `findOne` with
its access and fleet checks, `PutBarcode` the write by id, refused only by the
unique column (`BarcodeTaken`); `authenticateVehicle` is the scan.

`FleetReports` adds `FuelLog` rows and what is computed from them. A report
(`getFleetDashboard`, `getVehicleAnalysis`, `getDriverAnalysis`) is first the
choice of whose it is (`BeginFor...`; for a driver's report of an organization the
cars are a statement of their own, `ReadCars`), then one query per figure
(`QueryCost`, `QueryKms`), then the answer; cars are added and removed, drivers
are removed (`RemoveDriver`) and fuel is logged in between. A removed driver's
report is refused to the organization (`DriverFound`), while the driver's logs
stay in the dashboard and in the analytics: `ReportsAgree` counts them as what the
drivers' reports lack. A driver's access token outlives the removal, so
`LogFuel` does not ask for it. Everything that is one query, and the functions as a whole when
nothing overtakes them, are operators. A log is one litre at the price of one,
so sums are numbers of logs; a reading may be followed by any other, since the
mileage can be edited. Instants are midnight and the end of a day, the two the
filters tell apart. A log's instant (`createdAt`) is that of its transaction's
start, so logs need not commit in its order. `Page` is `skip` and `take` over a
history ordered by it; when two logs carry one instant their order within a
page is the database's, so the property about pages is restricted to distinct
instants. Plates are not edited, and what the orders of a vehicle cost is left
out.

### Accounts

A sign-up is `Register` (the address is looked up among users that are not
removed; then the hash, an await), `InsertUser` (with the organization, in one
transaction, when it names one) or `RefuseDuplicate`, then the tokens:
`StoreToken` is the hash and the upsert of the one row per user. Creation by
an administrator or a manager is `CreateUser`, `Login` and `Validate` +
`Refresh` read the user and go on to the tokens with what they read. `Logout`,
`adminUpdate` and `softDelete` are one write each. A token is the fact that a
row for the user exists: which of two overlapping refreshes wins is not told
apart, since either way one token is valid. The organization of a manager's
token is any organization that exists, more than the code allows. The seed's
upsert, which may promote a user and move them to another organization, is left
out.

### ServiceNames, ServiceLists, BrandsCache

`ServiceNames`: `CheckName` / `RejectName` are `findByName`, then
`InsertService` or `PutService` by id, admitted by the index
`Service_name_active_key` (migration `20260330023123`; it is not in
`schema.prisma`), which ignores removed rows. `ServiceLists` adds `findAll` in
its two steps, the time to live, and `invalidateListCache`, whose registry is
always empty because no code writes it; one list stands for the pages and
categories, and the cache miss and the read of the table are one step.
`BrandsCache` has these steps with deletions that work, and the miss apart from
the read; `listBrands` reads the brands (`QueryBrands`) and their models
(`QueryIncluded`) in two statements, as Prisma's `include` does. `SeedBrand` and
`SeedModel` are the rows the production seed inserts from its own process, which
cannot delete a key of this cache. `drop` are keys a creation has still to delete;
`outrun`, `seeded` and `lost` record why a cached list may be stale.

### Seeding

The production path of `prisma/seed.ts`: for each service, brand, model and
rule a lookup (`FindService`, `FindRow`, `FindRule`) and an insert when nothing
was found (`SeedService`, `SeedRow`, `SeedRule`), each a statement.
`AbortSeed` is the unique-key failure that ends the process, `KillSeed` any
other end; `BeginSeed` may follow again. Beside it run the service requests of
`ServiceLists`, administrators' rules (`CreateRule` looks a rule up by service
and model, `InsertRule` inserts it) and brands and models (`AddRow`). The seed
writes to the tables and not to the API's caches. As in the code, the services
it finds include removed ones (`findFirst` has no `deletedAt` condition), so a
rule may be attached to a removed service; of several rows of one name
`serviceMap` takes any; and a rule of another distance makes the insert fail on
`@@unique([serviceId, modelId])` and ends the seed. `alone`, `quiet` and `whole` are
history variables for the properties.

## 3. Runs

| Run | Question | Instance |
|---|---|---|
| `orders_handlers` | Does the second check hold until COMMIT; do statuses follow the machine; is every unit accounted for; how far below zero can the stock go? | 2 requests, 1 part, 3 orders, all statuses, quantities 0 and 1 |
| `orders_answers` | Do the transactions implement the ledger, is `IInv` invariant, is every request answered? | 2 requests, 2 parts, 2 orders: rows locked in opposite orders |
| `orders_oversell` (violation) | Can the last unit be sold twice? | 2 requests, 1 part |
| `alerts` | Does a part left low keep a check until it is alerted; how many checks can there be? | 2 requests, 2 orders, a stock of 2, carts of up to 2 units on one or two items, threshold 1 |
| `mileage` | When can a mileage fall? | 3 requests, 1 car, 3 readings |
| `mileage_records` (violation) | Does a record only raise the mileage? | 2 requests, 1 car |
| `checks` | Do removed cars fade out; are cars that the report calls overdue alerted; do report and worker agree; does a report only get worse? | 2 cars, chunks of 1, no fuel logs; mileages 1000 and 2000; rules of 0, 500, 1000 and 1999 km, 0 and 1 month, and times on both sides of their bands |
| `fleet` | By how much can a limit be exceeded; does a scan find the right car? Do the reports, the analytics and the histories agree; what may a report say that others overtake? | 2 requests, 2 plates, 1 barcode, 1 organization with 2 drivers, a user; limit 1; 2 logs, readings 0 and 25, 2 instants, 2 days |
| `accounts` | Do organizations have members; do tokens follow edits; do removal and logout end sessions? | 2 requests, 2 users, 2 addresses, 2 organizations |
| `services` | Are names unique, is no service refused its own name, do lists catch up, can the seed be repeated? | a request, a list request, a clerk and the seed; 2 rows, 2 names, one of them seeded, a brand with a model, rules of 10 and 20 km |
| `services_invalidated` (violation) | Does a change invalidate the lists? | 1 request, a list request |
| `brands` | Why can a list be stale, and for how long? | 2 requests and the seed, 2 brands |

Why the bounds are enough: each race here needs two requests for the same row
and one more that changes what the first has read, hence two or three
handlers (in `Accounts` logouts, edits and removals, in `FleetReports` scans, logs and removals
of drivers, in `BrandsCache` the seed, and in `Seeding` the seed and a clerk are actors beside the
handlers); lock-order problems need two rows; an amount that can be exceeded
needs a limit of one or two. The quantities 0, 1 and 2 give the cases short,
just enough and more than enough. The readings 0 and 25 with up to two litres
give a driver each of the four efficiency bands. Where the argument matters for
every size it is a theorem (section 5).

Bounds that are not sizes: in `fleet`, the reports that other requests overtake
are those over all days (`Asked`), while every filter is compared at rest, and
barcodes and the cars of a user's own are explored before any fuel is logged, as they
share no state with logs and reports (`Unmixed`); in
`services`, `Unmixed` explores an administrator's rules only while no list is
cached or read, as lists and rules share no state, and `Room` leaves a row for
each insert to come.

The violations are the findings: the unlocked stock check oversells, a record
can lower the mileage, and `invalidateListCache` deletes nothing. The passing
runs beside them say how bad it gets (`OversellBounded`, `LossNeedsOverlap`,
`ListsCatchUp`). One more disagreement has no run of its own: the comment in
`getOrgCarIds` (`reports.prisma.repository.ts`, 42) says "never aggregate
soft-deleted vehicles", but the dashboard of an administrator does not go through
that function (141) and counts the fuel of removed cars. The theorem `AdminTotal`
says that this is exactly what it has beyond the organizations' dashboards. The bounds of other passing properties are tight too: a
fuel log can be accepted below the mileage (`LossNeedsOverlap` allows it to an
overtaken request), a limit can be exceeded by overlapping creations
(`OverrunBounded`, a theorem), a report over an organization can show a total
that never held at one moment (`FiguresBracketed` gives what it lies between),
a request that had read a user before the removal still gets tokens
(`RemovalEndsSessions` allows those and no others), tokens may carry a role that
was edited while they were made (`TokensFallBehindByEdit`), and the read after a
brand's creation may still miss it (`CacheInv` names the causes). A comment of
`logout` (`auth.service.ts`, 77) says that deleting the stored token ends the
session; `LogoutHolds` shows it for a logout that no login or refresh overlaps,
for one under way stores its token afterwards.

## 4. Fairness

- `Orders`: strong fairness on a handler's progress: PostgreSQL queues the
  waiters of a row, so a request that can go on again and again does; weak
  fairness on `DeadlockVictim`, the deadlock detector. Failures and new
  requests are not fair.
- `StockAlerts`, `MaintenanceChecks`: Redis answers calls; the worker is
  restarted and a job is not interrupted for ever; the cron fires each night
  and does not fail each night. A failure may still happen any number of times.
- `ServiceLists`, `BrandsCache`: entries expire (`CACHE_TTL`), requests end. In
  `Seeding` this holds of the lists alone; the seed and the clerks may stop
  anywhere for ever.
- `Mileage`, `FleetReports`, `Accounts`: none; their properties are about
  safety.

## 5. Proofs

Every safety invariant and every action property of a passing run is a theorem.
Only the liveness properties are checked by TLC alone.

| Module | Theorems | Argument |
|---|---|---|
| `OrdersProofs` | `InductiveInvariant`, `TypeCorrect`, `DecisionStable`, `OrdersFollowMachine`, `Refinement`, `StockConserved` | `DecisionHolds` is not inductive by itself: another commit could change the status. `IInv` adds that row locks are exclusive and that a transaction at COMMIT has written exactly the rows of its request. Under it, each commit is one ledger operation and all else stutters. Conservation is then proved of the ledger, counting units as pairs (order, k), with a counting lemma for a changed block of them. |
| `StockProofs` | `Oversell`, `Sequential` of the orders alone; `AlertsTypeCorrect`, `LowStockRemembered`, `ChecksOfOrders` of the queue; `LedgerThroughCrashes`, `ConservedThroughCrashes`, `OversellThroughCrashes`, `MachineThroughCrashes` | Of the requests past the check that have units of a part to commit, one was checked last: the stock covers that one in full and each of the others with the most an order may ask for (`Covers`). For the queue: a part that is owed an alert is on the dashboard's list, so a check that reads it alerts. A check is counted where it is (call, place in the list, worker); it moves from one to the next, and the items of an order that commits pay for it. A step of the composition is a step of the orders or a crash, and a crash keeps their invariants, as it ends every request at once and leaves what committed. |
| `MileageProofs` | `MileageInvariant`, `MileageFallsOnlyByOverlap`, `RecordsRaiseAlone` of the requests; `ChecksInvariant`, `OverlapWithCrashes`, `RemovedChecksFade` with the scan and the worker; `AlertsAgree`, `DueDates`, `ReportsWorsen` of the rules | A request that nobody overtook still sees the mileage it decided on. A check of a car is counted where it is; only a scan makes new ones, and it leaves removed cars out. The calendar: `DaysBefore` satisfies its recursion because the sum of the months' lengths does, and a month has 28 to 31 days. A report's bands follow what is left, which driving and waiting only lessen. |
| `FleetProofs` | `PlacesInvariant`, `Scans`, `Overrun` of the cars alone; `ReportsInvariant`, `FleetUnderReports`, `Brackets` beside the reports; `Agreement`, `Periods`, `AdminTotal`, `Ratings`, `Pages` of what they compute | Cars plus inserts to come: a request joins only while the count is below the limit, and an insert turns the one into the other. A barcode names one row, removed ones included, and a row never changes its owner. Logs only grow and a sum or a span over more logs is no less, so a query's figure lies between that of the logs at the start and that of the logs by now. Totals agree because each is the number of the same logs, sorted into classes (by car, by driver, by organization: `SumOfClasses`); the classes of removed drivers are set apart. Over pages the position of a log only moves towards later pages, so a page number that equals it exists (`FixedPoint`). |
| `BrandsCacheProofs` | `CacheInvariant` | A stale list has a cause: a deletion under way, an overtaken fill, a lost answer, a row of the seed's. A list read in two statements is what the tables hold unless a brand is inserted after the first or a model after the second: a model belongs to a brand that is there (`ModelsOfBrands`), so none is missed that a brand of the list lacks. |
| `ServicesProofs` | `UniqueNames`, `OwnName` of the services alone; `SeedTypeCorrect`, `UniqueNamesSeeded`, `Resumes`, `Completes` with the seed | Uniqueness among live rows is kept by each write the index admits; with it, a service's own name is found only in its own row. That the seed can be resumed needs more than is visible at its lookup: `SeedInv` adds that every rule is one it lists, under the service of that name, as long as nobody else wrote; two rules that `seed-data.ts` lists for one model differ in the service (`SeedAssumption`), so a taken pair is its own rule and was found. |
| `AccountsProofs` | `AccountsInvariant`, `Organizations`, `Tokens`, `Removal`, `Logouts`, `Drivers` | A request that is about to sign was so before the step, or has just read or inserted the row (`SigningStep`); only a PATCH changes a row that is there. A request that creates a user carries what it resolved before the hash (`RequestsResolved`). |
| `FiniteSums` | lemmas only | See below. |

Induction over data. The library's induction theorems take the hypothesis as an
operator, which the provers cannot instantiate. `FiniteSums` states induction
with a set, `Good`, instead (`SubsetInduction`), and takes a least element
outside of it, which the library's `WFMin` gives; so it does for the natural
numbers (`LeastNatural`). A sum of natural numbers is the size of the area under
the function (`SumIsArea`), which turns sums into counting.

Assumptions are the named ASSUMEs of the modules (finite sets of handlers, rows,
drivers and organizations, null values outside the sets, no duplicate in the seed's
data); TLC evaluates each in a run. Two theorems add one of their own, that
requests do not overlap (`Sequential`, `RecordsRaiseAlone`): they show that
`NoOversell` and `RecordsOnlyRaise`, which the runs refute, fail only by overlap.
Proved and in no run: `OverrunBounded`, `NewDriversBelong` (a driver joins an
organization that had a member before), `AdminSeesAll` (what the administrators'
dashboard has beyond the organizations' is the fuel of removed cars) and `DueDates`.

Model-checked only: liveness under fairness (`EveryRequestAnswered`,
`LowStockAlerted`, `OverdueCarReported`, `ListsCatchUp`, `ModelsGetShown`),
which is beyond the prover.

## 6. Not modelled, and what is left

- Inventory: creation of parts and the SKU check. It is a lookup before an
  insert under a unique column, as in `ServiceNames`.
- Orders: items that are services, and the total. An edit of a part is the
  administrators' count of it: that it writes an absolute quantity, over sales made
  since they looked, is in the model and no property calls it wrong.
- Unique columns: that two addresses, or two rules for one model and service, are
  never stored is the table's promise (`EmailFree`, `PairFree`); the properties are
  about what a request does that meets it.
- `maintenance.processor.ts`, 89 and 108: the alert goes to `recipientEmail`, when
  there is one; the models decide whether there is an alert.
- Maintenance checks with several rules per model. A record that is stored while
  the mileage is not (`maintenance.service.ts`, 43) is a step of `Mileage`
  without a property of its own: no code repairs it.
- Lists of services: pages, categories and filters.
- Users: `updateProfile` and `changePassword`. Authentication: what a token
  says, its expiry, the access token, which no table holds and which outlives the
  removal of its user, and the guards.
- Reports: the counts of `getDashboardMetrics` and the best-selling services;
  the cost of orders in a vehicle's total.
- Seed: the wipe of the development mode (lines 12 to 29) and the users and
  organizations (96 to 126). Its upsert may give a user another role and another
  organization, so that tokens fall behind by it too, and its organization is there
  before its user: the properties of `Accounts` are about the API without it.
- Formatting, validation messages, token signing and password hashing (library
  calls), e-mail delivery (a log line), health checks and start-up.
