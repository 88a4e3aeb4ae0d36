------------------------------- MODULE Orders -------------------------------
(***************************************************************************)
(* Concurrent HTTP requests that create orders, move them along the state  *)
(* machine, cancel them, and edit the part rows they draw on, over a       *)
(* PostgreSQL database.  Sources: src/orders and src/inventory.            *)
(*                                                                         *)
(* A handler serves one request at a time.  One action is what it does     *)
(* between two points where another request can intervene: a statement     *)
(* outside a transaction, the reads that open a transaction, each UPDATE   *)
(* that may wait for a row lock, and COMMIT.  A transaction's writes are   *)
(* private until it commits: `held' says which rows it has written (and so *)
(* locked), and the commit installs them at once.                          *)
(*                                                                         *)
(* createTransactional runs at the database's default READ COMMITTED: its  *)
(* relative decrements apply to whatever was last committed.               *)
(* updateStatusAtomically runs at SERIALIZABLE: it sees the snapshot its   *)
(* first statement took, and writing a row that another transaction        *)
(* changed since (`stale') fails with error 40001, which nothing retries.  *)
(***************************************************************************)
EXTENDS Integers, FiniteSets, OrderStatus

CONSTANTS
  Handlers,   \* requests in progress at the same time
  Parts,      \* part rows
  OrderIds,   \* order rows that can be inserted (bounds the number of orders)
  MaxQty,     \* units of one part an order may ask for (bounds the DTO's quantity)
  Quantities, \* quantities a stock keeper may set (bounds the DTO's quantity)
  Goals,      \* statuses requests ask for
  None        \* no row

ASSUME OrdersAssumption ==
  /\ IsFiniteSet(Handlers) /\ Handlers # {}
  /\ IsFiniteSet(OrderIds)
  /\ MaxQty \in Nat
  /\ Quantities \in SUBSET Nat
  /\ Goals \in SUBSET Status /\ "CANCELLED" \in Goals
  /\ Parts \cap OrderIds = {}
  /\ None \notin Parts \cup OrderIds

VARIABLES
  stock,      \* Part.quantity as last committed
  removed,    \* parts with deletedAt set
  status,     \* Order.status as last committed, or Absent
  items,      \* OrderItem rows of an order: units per part
  supplied,   \* history: units ever put on the shelf by the stock keeper
  pc,         \* where each handler is
  req,        \* what each handler was asked to do
  held,       \* rows each handler's transaction has locked
  want,       \* row whose lock each handler's next statement needs, or None
  stale       \* rows changed by others since a SERIALIZABLE snapshot

db       == <<stock, removed, status, items, supplied>>
sessions == <<pc, req, held, want, stale>>
vars     == <<db, sessions>>

Rows    == Parts \cup OrderIds
Cart    == [Parts -> 0..MaxQty]
NoItems == [p \in Parts |-> 0]
Nothing == [cart |-> NoItems, order |-> None, goal |-> Absent,
            part |-> None, qty |-> 0]

\* Program points; a SERIALIZABLE snapshot exists at the last two.
PC == {"idle", "validate", "decrement", "put", "remove", "begin", "lock", "restock"}
Serializable == {"lock", "restock"}

PartsOf(cart) == {p \in Parts : cart[p] > 0}

\* Lines of an order are updated one after another, in the order of the
\* request's items, which the client chooses.
NextIsLast(todo) == {None}   \* mutant: only one row is written
NextOf(todo) == IF todo = {} THEN {None} ELSE todo

RowFree(row) == \A h \in Handlers : row \notin held[h]

Init ==
  /\ stock \in [Parts -> Quantities]
  /\ supplied = stock
  /\ removed = {}
  /\ status = [o \in OrderIds |-> Absent]
  /\ items = [o \in OrderIds |-> NoItems]
  /\ pc = [h \in Handlers |-> "idle"]
  /\ req = [h \in Handlers |-> Nothing]
  /\ held = [h \in Handlers |-> {}]
  /\ want = [h \in Handlers |-> None]
  /\ stale = [h \in Handlers |-> {}]

-----------------------------------------------------------------------------
(* Steps every request is made of.                                         *)

Start(h, at, r) ==
  /\ pc[h] = "idle"
  /\ pc' = [pc EXCEPT ![h] = at]
  /\ req' = [req EXCEPT ![h] = r]
  /\ UNCHANGED <<db, held, want, stale>>

\* The request is answered and its locks are gone; `written' are the rows its
\* commit changed, which open SERIALIZABLE snapshots do not see.
Finish(h, written) ==
  /\ pc' = [pc EXCEPT ![h] = "idle"]
  /\ req' = [req EXCEPT ![h] = Nothing]
  /\ held' = [held EXCEPT ![h] = {}]
  /\ want' = [want EXCEPT ![h] = None]
  /\ stale' = [g \in Handlers |->
                 IF g # h /\ pc[g] \in Serializable THEN stale[g] \cup written
                 ELSE IF g = h THEN {} ELSE stale[g]]

\* The UPDATE of the wanted row gets its lock; the next statement wants one of
\* `todo'.
Acquire(h, todo) ==
  /\ RowFree(want[h])
  /\ held' = [held EXCEPT ![h] = @ \cup {want[h]}]
  /\ \E row \in NextOf(todo) : want' = [want EXCEPT ![h] = row]

-----------------------------------------------------------------------------
(* POST /orders: OrdersService.create, then createTransactional.           *)

\* The car check passed; the guard on OrderIds is the bound on orders.
CreateOrder(h, cart) ==
  /\ Cardinality({g \in Handlers : pc[g] \in {"validate", "decrement"}})
       < Cardinality({o \in OrderIds : status[o] = Absent})
  /\ Start(h, "validate", [Nothing EXCEPT !.cart = cart])

\* Mutant: quantities are not compared.
CartExists(cart) == \A p \in PartsOf(cart) : p \notin removed

CartAvailable(cart) ==
  \A p \in PartsOf(cart) : p \notin removed /\ stock[p] >= cart[p]

\* Steps 1 to 4: read the parts without locking them, check every line.
ValidateCart(h) ==
  /\ pc[h] = "validate"
  /\ CartAvailable(req[h].cart)
  /\ pc' = [pc EXCEPT ![h] = "decrement"]
  /\ \E row \in NextOf(PartsOf(req[h].cart)) : want' = [want EXCEPT ![h] = row]
  /\ UNCHANGED <<db, req, held, stale>>

\* A part is gone (404) or short (400).
RejectCart(h) ==
  /\ pc[h] = "validate"
  /\ ~CartAvailable(req[h].cart)
  /\ Finish(h, {})
  /\ UNCHANGED db

\* Step 5: one UPDATE ... SET quantity = quantity - n per part.
DecrementPart(h) ==
  /\ pc[h] = "decrement"
  /\ want[h] # None
  /\ Acquire(h, PartsOf(req[h].cart) \ (held[h] \cup {want[h]}))
  /\ UNCHANGED <<db, pc, req, stale>>

\* Step 6 and COMMIT.
CommitOrder(h, o) ==
  /\ pc[h] = "decrement"
  /\ want[h] = None
  /\ status[o] = Absent
  /\ status' = [status EXCEPT ![o] = DefaultStatus]
  /\ items' = [items EXCEPT ![o] = req[h].cart]
  /\ stock' = [p \in Parts |->
                 IF p \in held[h] THEN stock[p] - req[h].cart[p] ELSE stock[p]]
  /\ Finish(h, held[h])
  /\ UNCHANGED <<removed, supplied>>

-----------------------------------------------------------------------------
(* PATCH /orders/:id/status and /orders/:id/cancel.                        *)

\* findById outside any transaction, the access check (passed), and the first
\* assertValidTransition.
UpdateStatus(h, o, goal) ==
  /\ ValidTransition(status[o], goal)
  /\ Start(h, "begin", [Nothing EXCEPT !.order = o, !.goal = goal])

CancelOrder(h, o) == UpdateStatus(h, o, "CANCELLED")

\* No such order (404), or not from its present status (400).
RefuseStatus(h, o, goal) ==
  /\ pc[h] = "idle"
  /\ ~ValidTransition(status[o], goal)
  /\ UNCHANGED vars

\* BEGIN ISOLATION LEVEL SERIALIZABLE; SELECT ... FOR UPDATE takes the snapshot
\* and starts to wait.
BeginStatusTx(h) ==
  /\ pc[h] = "begin"
  /\ pc' = [pc EXCEPT ![h] = "lock"]
  /\ want' = [want EXCEPT ![h] = req[h].order]
  /\ UNCHANGED <<db, req, held, stale>>

\* Mutant: a cancellation only changes the status.
RestockNothing(h) == {}

\* The part items whose quantity the transaction gives back.
ToRestock(h) ==
  IF IsCancellation(req[h].goal) THEN PartsOf(items[req[h].order]) ELSE {}

\* Mutant: the check before the transaction is trusted.
NoRecheck(h) == TRUE

\* The second assertValidTransition, on the row just locked.
Recheck(h) == ValidTransition(status[want[h]], req[h].goal)

\* The lock is granted; findUnique and the second assertValidTransition.
LockOrder(h) ==
  /\ pc[h] = "lock"
  /\ want[h] \notin stale[h]
  /\ Recheck(h)
  /\ Acquire(h, ToRestock(h))
  /\ pc' = [pc EXCEPT ![h] = "restock"]
  /\ UNCHANGED <<db, req, stale>>

\* Mutant: the error leaves the transaction open.
RejectionHangs(h) == FALSE

\* The transition was overtaken by another request (400).
RejectTransition(h) ==
  /\ pc[h] = "lock"
  /\ RowFree(want[h])
  /\ want[h] \notin stale[h]
  /\ ~Recheck(h)
  /\ Finish(h, {})
  /\ UNCHANGED db

\* One UPDATE ... SET quantity = quantity + n per part of a cancelled order.
RestockPart(h) ==
  /\ pc[h] = "restock"
  /\ want[h] # None
  /\ want[h] \notin stale[h]
  /\ Acquire(h, ToRestock(h) \ (held[h] \cup {want[h]}))
  /\ UNCHANGED <<db, pc, req, stale>>

\* A row the snapshot predates: the statement fails, the transaction with it.
SerializationFailure(h) ==
  /\ pc[h] \in Serializable
  /\ want[h] \in stale[h]
  /\ RowFree(want[h])
  /\ Finish(h, {})
  /\ UNCHANGED db

\* UPDATE of the order row and COMMIT.
CommitStatus(h) ==
  LET o == req[h].order  goal == req[h].goal IN
  /\ pc[h] = "restock"
  /\ want[h] = None
  /\ status' = [status EXCEPT ![o] = goal]
  /\ stock' = [p \in Parts |->
                 IF p \in held[h] THEN stock[p] + items[o][p] ELSE stock[p]]
  /\ Finish(h, held[h])
  /\ UNCHANGED <<removed, items, supplied>>

-----------------------------------------------------------------------------
(* PATCH and DELETE /inventory/:id: a check, then one statement by id.     *)

UpdatePart(h, p, n) ==
  /\ p \notin removed
  /\ Start(h, "put", [Nothing EXCEPT !.part = p, !.qty = n])

\* The absolute quantity of the request replaces the column.
PutPart(h) ==
  LET p == req[h].part  n == req[h].qty IN
  /\ pc[h] = "put"
  /\ RowFree(p)
  /\ stock' = [stock EXCEPT ![p] = n]
  /\ supplied' = [supplied EXCEPT ![p] = @ + n - stock[p]]
  /\ Finish(h, {p})
  /\ UNCHANGED <<removed, status, items>>

\* InventoryService.findOne throws (404).
RefusePart(h, p) ==
  /\ pc[h] = "idle"
  /\ p \in removed
  /\ UNCHANGED vars

RemovePart(h, p) ==
  /\ p \notin removed
  /\ Start(h, "remove", [Nothing EXCEPT !.part = p])

SoftDeletePart(h) ==
  /\ pc[h] = "remove"
  /\ RowFree(req[h].part)
  /\ removed' = removed \cup {req[h].part}
  /\ Finish(h, {req[h].part})
  /\ UNCHANGED <<stock, status, items, supplied>>

-----------------------------------------------------------------------------
(* Failures.  A lost connection, a statement or commit error, the 5 s limit *)
(* of an interactive transaction or a process crash ends the request; an    *)
(* open transaction is rolled back.  No caller retries.                     *)

HandlerFails(h) ==
  /\ pc[h] # "idle"
  /\ Finish(h, {})
  /\ UNCHANGED db

WaitsFor(h, g) == want[h] # None /\ want[h] \in held[g]

\* h is on a cycle of the wait-for graph (a transaction waits for one row).
Deadlocked(h) ==
  \E D \in SUBSET Handlers :
    /\ h \in D
    /\ \A d \in D : /\ \E e \in D : WaitsFor(d, e)
                    /\ \E e \in D : WaitsFor(e, d)

\* PostgreSQL breaks a deadlock by failing one of the transactions in it.
DeadlockVictim(h) ==
  /\ Deadlocked(h)
  /\ Finish(h, {})
  /\ UNCHANGED db

-----------------------------------------------------------------------------
ReceivePart(h) ==
  \E p \in Parts : \/ RemovePart(h, p)
                   \/ RefusePart(h, p)
                   \/ \E n \in Quantities : UpdatePart(h, p, n)

Receive(h) ==
  \/ \E cart \in Cart : CreateOrder(h, cart)
  \/ \E o \in OrderIds : \/ CancelOrder(h, o)
                         \/ \E goal \in Goals : \/ UpdateStatus(h, o, goal)
                                                \/ RefuseStatus(h, o, goal)
  \/ ReceivePart(h)

\* Everything a handler does but insert an order.
Work(h) ==
  \/ ValidateCart(h) \/ RejectCart(h) \/ DecrementPart(h)
  \/ BeginStatusTx(h) \/ LockOrder(h) \/ RejectTransition(h)
  \/ RestockPart(h) \/ SerializationFailure(h) \/ CommitStatus(h)
  \/ PutPart(h) \/ SoftDeletePart(h)

Progress(h) == Work(h) \/ \E o \in OrderIds : CommitOrder(h, o)

Next == \E h \in Handlers : \/ Receive(h)
                            \/ Progress(h)
                            \/ HandlerFails(h)
                            \/ DeadlockVictim(h)

Spec == Init /\ [][Next]_vars

\* A request that has been received is executed; the database grants a row to
\* its waiters in turn (hence strong fairness) and resolves deadlocks.  New
\* requests and failures may or may not happen.
Fairness == \A h \in Handlers : /\ SF_vars(Progress(h))
                                /\ WF_vars(DeadlockVictim(h))
FairSpec == Spec /\ Fairness

-----------------------------------------------------------------------------
(* Properties.                                                             *)

\* Every variable holds what its column or its place in a handler can hold.
TypeOK ==
  /\ stock \in [Parts -> Int]
  /\ supplied \in [Parts -> Int]
  /\ removed \in SUBSET Parts
  /\ status \in [OrderIds -> Status \cup {Absent}]
  /\ items \in [OrderIds -> Cart]
  /\ pc \in [Handlers -> PC]
  /\ req \in [Handlers -> [cart : Cart, order : OrderIds \cup {None},
                           goal : Status \cup {Absent},
                           part : Parts \cup {None}, qty : Quantities \cup {0}]]
  /\ held \in [Handlers -> SUBSET Rows]
  /\ want \in [Handlers -> Rows \cup {None}]
  /\ stale \in [Handlers -> SUBSET Rows]

\* The orders component, taken one committed request at a time, is the ledger.
Ledger == INSTANCE OrderLedger WITH
            stock    <- stock,
            status   <- status,
            items    <- items,
            supplied <- supplied

\* Every step of the transactions is a whole ledger operation or changes
\* nothing the ledger shows: a request that fails midway, loses a row lock
\* race or is overtaken leaves no trace (createTransactional,
\* updateStatusAtomically and the inventory writes).
ImplementsLedger == Ledger!Spec

\* However requests interleave and fail, every unit ever supplied is on the
\* shelf or in an order that was not cancelled: concurrent cancellations do not
\* restock twice, a rollback undoes all its decrements.
Conservation == Ledger!Conservation

\* The status a transaction validated under its row lock is still the
\* committed one until it commits: the second assertValidTransition in
\* updateStatusAtomically is never stale, the first one may be.
DecisionHolds ==
  \A h \in Handlers :
    pc[h] = "restock" =>
      /\ req[h].order \in held[h]
      /\ ValidTransition(status[req[h].order], req[h].goal)

\* A row is locked by one transaction at a time.
LocksExclusive ==
  \A g, h \in Handlers : g # h => held[g] \cap held[h] = {}

\* The rows a transaction has written and those still to be written are, at
\* every point, the rows its request is about.
WritesDone(h, todo) ==
  /\ held[h] \cap Parts \subseteq todo
  /\ want[h] # None => want[h] \in todo \ held[h]
  /\ want[h] = None => todo \subseteq held[h]

HandlerShape ==
  \A h \in Handlers :
    /\ pc[h] \notin {"decrement", "restock"} => held[h] = {}
    /\ pc[h] \notin {"decrement", "lock", "restock"} => want[h] = None
    /\ pc[h] = "decrement" => /\ held[h] \subseteq Parts
                              /\ WritesDone(h, PartsOf(req[h].cart))
    /\ pc[h] \in {"begin", "lock", "restock"} =>
         req[h].order \in OrderIds /\ req[h].goal \in Goals
    /\ pc[h] = "lock" => want[h] = req[h].order
    /\ pc[h] = "restock" => /\ held[h] \subseteq Parts \cup {req[h].order}
                            /\ WritesDone(h, ToRestock(h))
    /\ pc[h] \in {"put", "remove"} => req[h].part \in Parts
    /\ pc[h] = "put" => req[h].qty \in Quantities

\* An order without a row has no items.
AbsentIsEmpty == \A o \in OrderIds : status[o] = Absent => items[o] = NoItems

\* The inductive invariant behind the theorems of OrdersProofs: a transaction
\* that reaches COMMIT has written every part row of its order, each under a
\* lock nobody else holds, and what it checked under its lock still holds
\* (the Promise.all loops of createTransactional and updateStatusAtomically).
IInv ==
  TypeOK /\ LocksExclusive /\ HandlerShape /\ DecisionHolds /\ AbsentIsEmpty

\* Whoever wins the races, a placed order only follows the state machine: in
\* particular an order that is cancelled or completed stays so, and one that is
\* in progress is never cancelled by a request that read it earlier.
StatusFollowsMachine ==
  [][\A o \in OrderIds :
       status'[o] # status[o] =>
         \/ status[o] = Absent /\ status'[o] = DefaultStatus
         \/ ValidTransition(status[o], status'[o])]_status

\* The stock check of createTransactional reads without locking, so concurrent
\* requests can take more than there is, but never more than every other
\* request in flight could ask for: the quantity of a part stays above
\* -(requests in flight - 1) * MaxQty.  With one request at a time it never
\* goes below zero.
Floor == -((Cardinality(Handlers) - 1) * MaxQty)

OversellBounded == \A p \in Parts : stock[p] >= Floor

\* "Insufficient stock" (orders.prisma.repository.ts, step 4): an order is
\* refused when it asks for more than is available, so no part goes negative.
NoOversell == \A p \in Parts : stock[p] >= 0

\* Every request is answered: no request waits for ever for a row, even though
\* each client picks the order in which its rows are locked.
EveryRequestAnswered ==
  \A h \in Handlers : pc[h] # "idle" ~> pc[h] = "idle"
==============================================================================
