----------------------------- MODULE StockAlerts -----------------------------
(***************************************************************************)
(* Low-stock alerts: OrdersService.create hands the part of every item of  *)
(* a committed order to the `stock' queue (BullMQ over Redis) without      *)
(* waiting for the answer, and StockProcessor, one job at a time, reads    *)
(* the part and alerts when its quantity is at or below the threshold.     *)
(* Composes Orders with the queue, the worker and a crash of the process   *)
(* running both.                                                           *)
(***************************************************************************)
EXTENDS Orders, Sequences

CONSTANT Threshold      \* Part.lowStockThreshold, the same for every part

VARIABLES
  lines,      \* OrderItem rows of each order, counted per part
  calls,      \* queue.add calls not answered yet, per part
  jobs,       \* the waiting list in Redis, first in first out
  active,     \* part whose job the worker runs, or None
  owed,       \* history: parts an order brought onto the dashboard's list, which
              \* stayed there since and were not alerted
  lost        \* history: parts one of whose checks was dropped by a failure

alerting == <<calls, jobs, active, lost>>
allVars  == <<vars, lines, alerting, owed>>

\* The dashboard's list (AdminReportsRepository), which leaves out removed parts.
getLowStockParts == {p \in Parts : stock[p] <= Threshold /\ p \notin removed}

AlertsInit ==
  /\ Init
  /\ lines = [o \in OrderIds |-> NoItems]
  /\ calls = [p \in Parts |-> 0]
  /\ jobs = <<>>
  /\ active = None
  /\ owed = {}
  /\ lost = {}

\* What a change of stock leaves owed.
StillOwed(parts) == owed' = parts \cap getLowStockParts'

\* The items of a cart: one or more for each part in it, of one unit or more,
\* for a part may stand on several items, whose units Orders adds up.
Itemised(cart) ==
  {rows \in Cart : \A p \in Parts : rows[p] <= cart[p] /\ (cart[p] > 0 => rows[p] > 0)}

\* Mutant: the order is returned without calling checkStock.
PlaceOrderSilently(h, o) ==
  /\ CommitOrder(h, o)
  /\ \E rows \in Itemised(req[h].cart) : lines' = [lines EXCEPT ![o] = rows]
  /\ StillOwed(owed \cup PartsOf(req[h].cart))
  /\ UNCHANGED alerting

\* The order commits and OrdersService.create calls checkStock for its items.
PlaceOrder(h, o) ==
  /\ CommitOrder(h, o)
  /\ \E rows \in Itemised(req[h].cart) :
       /\ lines' = [lines EXCEPT ![o] = rows]
       /\ calls' = [p \in Parts |-> calls[p] + rows[p]]
  /\ StillOwed(owed \cup PartsOf(req[h].cart))
  /\ UNCHANGED <<jobs, active, lost>>

\* Any other step of a request.
ServeRequest(h) ==
  /\ Receive(h) \/ Work(h) \/ HandlerFails(h) \/ DeadlockVictim(h)
  /\ StillOwed(owed)
  /\ UNCHANGED <<lines, alerting>>

\* Mutant: the call is repeated after it was answered.
AddJobAgain(p) ==
  /\ calls[p] > 0
  /\ jobs' = Append(jobs, p)
  /\ UNCHANGED <<vars, lines, calls, active, owed, lost>>

\* StockJobs.checkStock: Redis stores the job...
AddJob(p) ==
  /\ calls[p] > 0
  /\ calls' = [calls EXCEPT ![p] = @ - 1]
  /\ jobs' = Append(jobs, p)
  /\ UNCHANGED <<vars, lines, active, owed, lost>>

\* Mutant: a failure is reported with no call outstanding.
AddFailsAnytime(p) ==
  /\ calls' = [calls EXCEPT ![p] = @ - 1]
  /\ lost' = lost \cup {p}
  /\ UNCHANGED <<vars, lines, jobs, active, owed>>

\* ... or does not, and the rejection is swallowed.
AddFails(p) ==
  /\ calls[p] > 0
  /\ calls' = [calls EXCEPT ![p] = @ - 1]
  /\ lost' = lost \cup {p}
  /\ UNCHANGED <<vars, lines, jobs, active, owed>>

\* The worker takes the oldest job; its concurrency is one.
TakeJob ==
  /\ active = None
  /\ jobs # <<>>
  /\ active' = Head(jobs)
  /\ jobs' = Tail(jobs)
  /\ UNCHANGED <<vars, lines, calls, owed, lost>>

\* Mutant: alerts only below the threshold.
AlertDueBelow(p) == stock[p] < Threshold

AlertDue(p) == stock[p] <= Threshold

\* handleCheckStock: read the part as it is now, alert if it is low.
CheckStock ==
  /\ active # None
  /\ active' = None
  /\ owed' = IF AlertDue(active) THEN owed \ {active} ELSE owed
  /\ UNCHANGED <<vars, lines, calls, jobs, lost>>

\* The read fails; the job was added without attempts, so it is not run again.
CheckFails ==
  /\ active # None
  /\ active' = None
  /\ lost' = lost \cup {active}
  /\ UNCHANGED <<vars, lines, calls, jobs, owed>>

\* The process dies: requests are rolled back by the database, calls Redis had
\* not answered are gone, a running job is found stalled, and put back or (the second time) failed.
Crash ==
  /\ pc' = [h \in Handlers |-> "idle"]
  /\ req' = [h \in Handlers |-> Nothing]
  /\ held' = [h \in Handlers |-> {}]
  /\ want' = [h \in Handlers |-> None]
  /\ stale' = [h \in Handlers |-> {}]
  /\ calls' = [p \in Parts |-> 0]
  /\ \/ /\ jobs' = IF active = None THEN jobs ELSE <<active>> \o jobs
        /\ lost' = lost \cup {p \in Parts : calls[p] > 0}
     \/ /\ jobs' = jobs
        /\ lost' = lost \cup {p \in Parts : calls[p] > 0 \/ p = active}
  /\ active' = None
  /\ UNCHANGED <<db, lines, owed>>

AlertsNext ==
  \/ \E h \in Handlers : ServeRequest(h) \/ \E o \in OrderIds : PlaceOrder(h, o)
  \/ \E p \in Parts : AddJob(p) \/ AddFails(p)
  \/ TakeJob \/ CheckStock \/ CheckFails \/ Crash

\* Redis answers every call and the worker keeps running when it is not crashed
\* (a job that keeps being interrupted is run again: strong fairness).
AlertsFairness ==
  /\ \A p \in Parts : WF_allVars(AddJob(p) \/ AddFails(p))
  /\ SF_allVars(TakeJob)
  /\ SF_allVars(CheckStock \/ CheckFails)

AlertsSpec     == AlertsInit /\ [][AlertsNext]_allVars
FairAlertsSpec == AlertsSpec /\ AlertsFairness

-----------------------------------------------------------------------------
(* Properties.                                                             *)

AlertsTypeOK ==
  /\ TypeOK
  /\ lines \in [OrderIds -> Cart]
  /\ calls \in [Parts -> Nat]
  /\ jobs \in Seq(Parts)
  /\ active \in Parts \cup {None}
  /\ owed \in SUBSET Parts
  /\ lost \in SUBSET Parts

CheckPending(p) ==
  calls[p] > 0 \/ active = p \/ \E i \in DOMAIN jobs : jobs[i] = p

\* An order that leaves a part low always has a check on its way to the worker
\* until the alert is out; only a swallowed enqueue failure, a failed job or a
\* crash between COMMIT and the answer of Redis loses it (OrdersService.create
\* lines 33-43, StockJobs.checkStock, StockProcessor.handleCheckStock).
LowStockHasCheck ==
  \A p \in owed : CheckPending(p) \/ p \in lost

\* A part an order leaves low is alerted, unless it leaves the dashboard's list
\* first or a failure dropped its check, although the worker reads a later
\* quantity than the one the order left and asks a condition of its own
\* (StockProcessor against AdminReportsRepository.getLowStockParts).
LowStockAlerted ==
  \A p \in Parts : p \in owed ~> p \notin owed \/ p \in lost

\* Where a part stands in a list of jobs.
Places(list, p) == {i \in DOMAIN list : list[i] = p}

\* The order items with the part, those of cancelled orders included.
ItemsOf(p) == {i \in OrderIds \X (1..MaxQty) : i[2] <= lines[i[1]][p]}

\* A check exists only for the items of committed orders: a transaction that
\* rolls back enqueues nothing, a part on several items is checked once for
\* each, and no check is run twice for one item unless a crash interrupted it
\* (OrdersService.create, StockJobs.checkStock, StockProcessor).
ChecksBounded ==
  \A p \in Parts :
    calls[p] + Cardinality(Places(jobs, p)) + (IF active = p THEN 1 ELSE 0)
      <= Cardinality(ItemsOf(p))
==============================================================================
