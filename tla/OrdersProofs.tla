---------------------------- MODULE OrdersProofs ----------------------------
(***************************************************************************)
(* Theorems about Orders for any number of handlers, parts and orders: its *)
(* inductive invariant, that it implements OrderLedger, and that it        *)
(* conserves stock therefore.                                              *)
(***************************************************************************)
EXTENDS Orders, FiniteSetTheorems, TLAPS

Request == [cart : Cart, order : OrderIds \cup {None}, goal : Status \cup {Absent},
            part : Parts \cup {None}, qty : Quantities \cup {0}]

-----------------------------------------------------------------------------
(* What the steps shared by every request preserve.                        *)

LEMMA NothingType == Nothing \in Request
BY OrdersAssumption DEF Nothing, Request, Cart, NoItems

LEMMA InvInit == Init => IInv
<1> SUFFICES ASSUME Init PROVE IInv
  OBVIOUS
<1>1. TypeOK
  <2>1. stock \in [Parts -> Int] /\ supplied \in [Parts -> Int]
    <3>1. Quantities \subseteq Int
      BY OrdersAssumption
    <3> QED
      BY <3>1 DEF Init
  <2>2. items \in [OrderIds -> Cart]
    BY OrdersAssumption DEF Init, Cart, NoItems
  <2>3. "idle" \in PC
    BY DEF PC
  <2> QED
    BY <2>1, <2>2, <2>3, NothingType DEF Init, TypeOK, Request
<1>2. LocksExclusive /\ HandlerShape /\ DecisionHolds /\ AbsentIsEmpty
  BY DEF Init, LocksExclusive, HandlerShape, DecisionHolds, AbsentIsEmpty
<1> QED
  BY <1>1, <1>2 DEF IInv

\* An idle handler takes a request whose fields its next step relies on.
LEMMA StartKeepsInv ==
  ASSUME IInv, NEW h \in Handlers,
         NEW at \in {"validate", "begin", "put", "remove"}, NEW r \in Request,
         at = "begin" => r.order \in OrderIds /\ r.goal \in Goals,
         at \in {"put", "remove"} => r.part \in Parts,
         at = "put" => r.qty \in Quantities,
         Start(h, at, r)
  PROVE  IInv'
<1>1. TypeOK'
  BY DEF IInv, TypeOK, Start, db, PC, Request
<1>2. LocksExclusive' /\ AbsentIsEmpty'
  BY DEF IInv, LocksExclusive, AbsentIsEmpty, Start, db
<1>3. DecisionHolds'
  BY DEF IInv, TypeOK, DecisionHolds, Start, db
<1>4. HandlerShape'
  <2> SUFFICES ASSUME NEW g \in Handlers
               PROVE  HandlerShape!(g)'
    BY DEF HandlerShape
  <2>1. CASE g = h
    BY <2>1 DEF IInv, TypeOK, HandlerShape, Start, db
  <2>2. CASE g # h
    <3>1. pc'[g] = pc[g] /\ req'[g] = req[g]
      BY <2>2 DEF IInv, TypeOK, Start
    <3> QED
      BY <3>1 DEF IInv, HandlerShape, WritesDone, ToRestock, Start, db
  <2> QED
    BY <2>1, <2>2
<1> QED
  BY <1>1, <1>2, <1>3, <1>4 DEF IInv

\* A request ends: the rows other transactions decided on must be untouched.
LEMMA FinishKeepsInv ==
  ASSUME IInv, NEW h \in Handlers, NEW written \in SUBSET Rows, Finish(h, written),
         stock' \in [Parts -> Int], supplied' \in [Parts -> Int],
         removed' \in SUBSET Parts,
         status' \in [OrderIds -> Status \cup {Absent}],
         items' \in [OrderIds -> Cart], AbsentIsEmpty',
         \A g \in Handlers : g # h /\ pc[g] = "restock" =>
            /\ status'[req[g].order] = status[req[g].order]
            /\ items'[req[g].order] = items[req[g].order]
  PROVE  IInv'
<1>1. TypeOK'
  <2>1. "idle" \in PC
    BY DEF PC
  <2>2. stale' \in [Handlers -> SUBSET Rows]
    BY DEF IInv, TypeOK, Finish
  <2>3. req' \in [Handlers -> Request]
    BY NothingType DEF IInv, TypeOK, Finish, Request
  <2> QED
    BY <2>1, <2>2, <2>3 DEF IInv, TypeOK, Finish, Request
<1>2. LocksExclusive'
  BY DEF IInv, TypeOK, LocksExclusive, Finish
<1>3. ASSUME NEW g \in Handlers, g # h
      PROVE  pc'[g] = pc[g] /\ req'[g] = req[g] /\ held'[g] = held[g] /\ want'[g] = want[g]
  BY <1>3 DEF IInv, TypeOK, Finish
<1>4. pc'[h] = "idle" /\ held'[h] = {} /\ want'[h] = None
  BY DEF IInv, TypeOK, Finish
<1>5. DecisionHolds'
  BY <1>3, <1>4 DEF IInv, DecisionHolds
<1>6. HandlerShape'
  <2> SUFFICES ASSUME NEW g \in Handlers
               PROVE  HandlerShape!(g)'
    BY DEF HandlerShape
  <2>1. CASE g = h
    BY <1>4, <2>1
  <2>2. CASE g # h
    <3>1. pc[g] = "restock" => ToRestock(g)' = ToRestock(g)
      BY <1>3, <2>2 DEF ToRestock
    <3> QED
      BY <1>3, <2>2, <3>1 DEF IInv, HandlerShape, WritesDone
  <2> QED
    BY <2>1, <2>2
<1> QED
  BY <1>1, <1>2, <1>5, <1>6 DEF IInv

-----------------------------------------------------------------------------
(* One lemma per kind of step.                                             *)

LEMMA ReceiveKeepsInv ==
  ASSUME IInv, NEW h \in Handlers, Receive(h)
  PROVE  IInv'
<1>1. ASSUME NEW cart \in Cart, CreateOrder(h, cart) PROVE IInv'
  <2>1. [Nothing EXCEPT !.cart = cart] \in Request
    BY NothingType DEF Request
  <2> QED
    BY <1>1, <2>1, StartKeepsInv DEF CreateOrder
<1>2. ASSUME NEW o \in OrderIds, NEW goal \in Goals, UpdateStatus(h, o, goal)
      PROVE  IInv'
  <2> DEFINE r == [Nothing EXCEPT !.order = o, !.goal = goal]
  <2>1. r \in Request /\ r.order = o /\ r.goal = goal
    BY NothingType, OrdersAssumption DEF Request, Nothing
  <2> HIDE DEF r
  <2> QED
    BY <1>2, <2>1, StartKeepsInv DEF UpdateStatus, r
<1>3. ASSUME NEW o \in OrderIds, CancelOrder(h, o) PROVE IInv'
  BY <1>2, <1>3, OrdersAssumption DEF CancelOrder
<1>4. ASSUME NEW p \in Parts, RemovePart(h, p) PROVE IInv'
  <2> DEFINE r == [Nothing EXCEPT !.part = p]
  <2>1. r \in Request /\ r.part = p
    BY NothingType DEF Request, Nothing
  <2> HIDE DEF r
  <2> QED
    BY <1>4, <2>1, StartKeepsInv DEF RemovePart, r
<1>5. ASSUME NEW p \in Parts, NEW n \in Quantities, UpdatePart(h, p, n) PROVE IInv'
  <2> DEFINE r == [Nothing EXCEPT !.part = p, !.qty = n]
  <2>1. r \in Request /\ r.part = p /\ r.qty = n
    BY NothingType DEF Request, Nothing
  <2> HIDE DEF r
  <2> QED
    BY <1>5, <2>1, StartKeepsInv DEF UpdatePart, r
<1>6. ASSUME UNCHANGED vars PROVE IInv'
  BY <1>6 DEF vars, db, sessions, IInv, TypeOK, LocksExclusive, HandlerShape, WritesDone,
              ToRestock, DecisionHolds, AbsentIsEmpty
<1> QED
  BY <1>1, <1>2, <1>3, <1>4, <1>5, <1>6 DEF Receive, ReceivePart, RefuseStatus, RefusePart

\* A request that ends without a write.
LEMMA RefusalKeepsInv ==
  ASSUME IInv, NEW h \in Handlers, Finish(h, {}), UNCHANGED db
  PROVE  IInv'
BY FinishKeepsInv DEF db, IInv, TypeOK, AbsentIsEmpty

LEMMA ValidateKeepsInv ==
  ASSUME IInv, NEW h \in Handlers, ValidateCart(h)
  PROVE  IInv'
<1> DEFINE todo == PartsOf(req[h].cart)
<1>1. held[h] = {} /\ pc[h] = "validate" /\ todo \in SUBSET Parts
  BY DEF IInv, HandlerShape, ValidateCart, PartsOf
<1>2. PICK row \in NextOf(todo) : want' = [want EXCEPT ![h] = row]
  BY DEF ValidateCart
<1>3. /\ row \in Parts \cup {None}
      /\ row # None => row \in todo
      /\ row = None => todo = {}
  BY <1>1, OrdersAssumption DEF NextOf
<1>4. /\ UNCHANGED <<db, req, held, stale>>
      /\ pc' = [pc EXCEPT ![h] = "decrement"]
  BY DEF ValidateCart
<1> HIDE DEF todo
<1>5. TypeOK'
  BY <1>2, <1>3, <1>4 DEF IInv, TypeOK, db, PC, Rows
<1>6. LocksExclusive' /\ AbsentIsEmpty' /\ DecisionHolds'
  BY <1>4 DEF IInv, TypeOK, LocksExclusive, AbsentIsEmpty, DecisionHolds, db
<1>7. HandlerShape'
  <2> SUFFICES ASSUME NEW g \in Handlers
               PROVE  HandlerShape!(g)'
    BY DEF HandlerShape
  <2>1. CASE g = h
    BY <1>1, <1>2, <1>3, <1>4, <2>1 DEF IInv, TypeOK, WritesDone, todo
  <2>2. CASE g # h
    BY <1>2, <1>4, <2>2 DEF IInv, TypeOK, HandlerShape, WritesDone, ToRestock, db
  <2> QED
    BY <2>1, <2>2
<1> QED
  BY <1>5, <1>6, <1>7 DEF IInv

\* A row lock is granted and the next row of `todo' is wanted.
LEMMA AcquireFacts ==
  ASSUME IInv, NEW h \in Handlers, want[h] # None,
         NEW todo \in SUBSET Parts, Acquire(h, todo)
  PROVE  /\ held'[h] = held[h] \cup {want[h]}
         /\ held' \in [Handlers -> SUBSET Rows]
         /\ want' \in [Handlers -> Rows \cup {None}]
         /\ LocksExclusive'
         /\ \A g \in Handlers : g # h => held'[g] = held[g] /\ want'[g] = want[g]
         /\ want'[h] # None => want'[h] \in todo
         /\ want'[h] = None => todo = {}
<1>1. PICK row \in NextOf(todo) : want' = [want EXCEPT ![h] = row]
  BY DEF Acquire
<1>2. /\ row \in Parts \cup {None}
      /\ row # None => row \in todo
      /\ row = None => todo = {}
  BY <1>1, OrdersAssumption DEF NextOf
<1>3. \A g \in Handlers : want[h] \notin held[g]
  BY DEF Acquire, RowFree
<1>4. held' = [held EXCEPT ![h] = held[h] \cup {want[h]}]
  BY DEF Acquire
<1>5. LocksExclusive'
  BY <1>3, <1>4 DEF IInv, TypeOK, LocksExclusive
<1> QED
  BY <1>1, <1>2, <1>4, <1>5 DEF IInv, TypeOK, Rows

LEMMA DecrementKeepsInv ==
  ASSUME IInv, NEW h \in Handlers, DecrementPart(h)
  PROVE  IInv'
<1> DEFINE cart == PartsOf(req[h].cart)
           todo == cart \ (held[h] \cup {want[h]})
<1>1. todo \in SUBSET Parts /\ want[h] # None /\ Acquire(h, todo)
  BY DEF DecrementPart, PartsOf
<1>2. UNCHANGED <<db, pc, req, stale>> /\ pc[h] = "decrement"
  BY DEF DecrementPart
<1>3. held[h] \subseteq Parts /\ held[h] \cap Parts \subseteq cart /\ want[h] \in cart \ held[h]
  BY <1>1, <1>2 DEF IInv, HandlerShape, WritesDone
<1>4. cart \subseteq Parts
  BY DEF PartsOf
<1> HIDE DEF cart
<1>5. TypeOK' /\ LocksExclusive'
  BY <1>1, <1>2, AcquireFacts DEF IInv, TypeOK, db
<1>6. AbsentIsEmpty'
  BY <1>2 DEF IInv, AbsentIsEmpty, db
<1>7. DecisionHolds'
  BY <1>1, <1>2, AcquireFacts DEF IInv, DecisionHolds, db
<1>8. HandlerShape'
  <2> SUFFICES ASSUME NEW g \in Handlers
               PROVE  HandlerShape!(g)'
    BY DEF HandlerShape
  <2>1. CASE g = h
    <3>1. /\ held'[h] = held[h] \cup {want[h]}
          /\ want'[h] # None => want'[h] \in todo
          /\ want'[h] = None => todo = {}
      BY <1>1, AcquireFacts
    <3>2. PartsOf(req'[h].cart) = cart /\ pc'[h] = "decrement"
      BY <1>2 DEF cart
    <3> QED
      BY <1>3, <1>4, <2>1, <3>1, <3>2 DEF WritesDone
  <2>2. CASE g # h
    <3>1. held'[g] = held[g] /\ want'[g] = want[g]
      BY <1>1, <2>2, AcquireFacts
    <3> QED
      BY <1>2, <3>1 DEF IInv, HandlerShape, WritesDone, ToRestock, db
  <2> QED
    BY <2>1, <2>2
<1> QED
  BY <1>5, <1>6, <1>7, <1>8 DEF IInv

LEMMA BeginKeepsInv ==
  ASSUME IInv, NEW h \in Handlers, BeginStatusTx(h)
  PROVE  IInv'
<1>1. /\ pc[h] = "begin"
      /\ pc' = [pc EXCEPT ![h] = "lock"]
      /\ want' = [want EXCEPT ![h] = req[h].order]
      /\ UNCHANGED <<db, req, held, stale>>
  BY DEF BeginStatusTx
<1>2. req[h].order \in OrderIds /\ req[h].goal \in Goals /\ held[h] = {}
  BY <1>1 DEF IInv, HandlerShape
<1>3. TypeOK'
  BY <1>1, <1>2 DEF IInv, TypeOK, db, PC, Rows
<1>4. LocksExclusive' /\ AbsentIsEmpty' /\ DecisionHolds'
  BY <1>1 DEF IInv, TypeOK, LocksExclusive, AbsentIsEmpty, DecisionHolds, db
<1>5. HandlerShape'
  <2> SUFFICES ASSUME NEW g \in Handlers
               PROVE  HandlerShape!(g)'
    BY DEF HandlerShape
  <2>1. CASE g = h
    BY <1>1, <1>2, <2>1 DEF IInv, TypeOK
  <2>2. CASE g # h
    BY <1>1, <2>2 DEF IInv, TypeOK, HandlerShape, WritesDone, ToRestock, db
  <2> QED
    BY <2>1, <2>2
<1> QED
  BY <1>3, <1>4, <1>5 DEF IInv

LEMMA LockKeepsInv ==
  ASSUME IInv, NEW h \in Handlers, LockOrder(h)
  PROVE  IInv'
<1> DEFINE o == req[h].order
<1>1. /\ pc[h] = "lock"
      /\ ValidTransition(status[want[h]], req[h].goal)
      /\ Acquire(h, ToRestock(h))
      /\ pc' = [pc EXCEPT ![h] = "restock"]
      /\ UNCHANGED <<db, req, stale>>
  BY DEF LockOrder, Recheck
<1>2. /\ o \in OrderIds /\ req[h].goal \in Goals
      /\ want[h] = o /\ held[h] = {}
  BY <1>1 DEF IInv, HandlerShape
<1>3. o \notin Parts /\ o # None
  BY <1>2, OrdersAssumption
<1>4. ToRestock(h) \in SUBSET Parts /\ ToRestock(h)' = ToRestock(h)
  BY <1>1 DEF ToRestock, PartsOf, db
<1>5. /\ held'[h] = {o}
      /\ want'[h] # None => want'[h] \in ToRestock(h)
      /\ want'[h] = None => ToRestock(h) = {}
      /\ \A g \in Handlers : g # h => held'[g] = held[g] /\ want'[g] = want[g]
  BY <1>1, <1>2, <1>3, <1>4, AcquireFacts
<1>6. TypeOK' /\ LocksExclusive'
  BY <1>1, <1>2, <1>3, <1>4, AcquireFacts DEF IInv, TypeOK, db, PC
<1>7. AbsentIsEmpty'
  BY <1>1 DEF IInv, AbsentIsEmpty, db
<1>8. DecisionHolds'
  BY <1>1, <1>2, <1>5 DEF IInv, TypeOK, DecisionHolds, db
<1>9. HandlerShape'
  <2> SUFFICES ASSUME NEW g \in Handlers
               PROVE  HandlerShape!(g)'
    BY DEF HandlerShape
  <2>1. CASE g = h
    <3>1. pc'[h] = "restock" /\ req'[h] = req[h]
      BY <1>1 DEF IInv, TypeOK
    <3>2. WritesDone(h, ToRestock(h))'
      BY <1>3, <1>4, <1>5 DEF WritesDone
    <3> QED
      BY <1>2, <1>5, <2>1, <3>1, <3>2
  <2>2. CASE g # h
    BY <1>1, <1>5, <2>2 DEF IInv, TypeOK, HandlerShape, WritesDone, ToRestock, db
  <2> QED
    BY <2>1, <2>2
<1> QED
  BY <1>6, <1>7, <1>8, <1>9 DEF IInv

LEMMA RestockKeepsInv ==
  ASSUME IInv, NEW h \in Handlers, RestockPart(h)
  PROVE  IInv'
<1> DEFINE todo == ToRestock(h) \ (held[h] \cup {want[h]})
<1>1. pc[h] = "restock" /\ want[h] # None /\ UNCHANGED <<db, pc, req, stale>>
  BY DEF RestockPart
<1>2. ToRestock(h) \in SUBSET Parts /\ ToRestock(h)' = ToRestock(h)
  BY <1>1 DEF ToRestock, PartsOf, db
<1>3. todo \in SUBSET Parts /\ Acquire(h, todo)
  BY <1>2 DEF RestockPart
<1>4. /\ held[h] \subseteq Parts \cup {req[h].order}
      /\ held[h] \cap Parts \subseteq ToRestock(h)
      /\ want[h] \in ToRestock(h) \ held[h]
      /\ req[h].order \in OrderIds /\ req[h].goal \in Goals
  BY <1>1 DEF IInv, HandlerShape, WritesDone
<1>5. /\ held'[h] = held[h] \cup {want[h]}
      /\ want'[h] # None => want'[h] \in todo
      /\ want'[h] = None => todo = {}
      /\ \A g \in Handlers : g # h => held'[g] = held[g] /\ want'[g] = want[g]
  BY <1>1, <1>3, AcquireFacts
<1>6. TypeOK' /\ LocksExclusive'
  BY <1>1, <1>3, AcquireFacts DEF IInv, TypeOK, db
<1>7. AbsentIsEmpty'
  BY <1>1 DEF IInv, AbsentIsEmpty, db
<1>8. DecisionHolds'
  BY <1>1, <1>5 DEF IInv, DecisionHolds, db
<1>9. HandlerShape'
  <2> SUFFICES ASSUME NEW g \in Handlers
               PROVE  HandlerShape!(g)'
    BY DEF HandlerShape
  <2>1. CASE g = h
    <3>1. WritesDone(h, ToRestock(h))'
      BY <1>2, <1>4, <1>5 DEF WritesDone
    <3> QED
      BY <1>1, <1>2, <1>4, <1>5, <2>1, <3>1
  <2>2. CASE g # h
    BY <1>1, <1>5, <2>2 DEF IInv, HandlerShape, WritesDone, ToRestock, db
  <2> QED
    BY <2>1, <2>2
<1> QED
  BY <1>6, <1>7, <1>8, <1>9 DEF IInv

LEMMA CommitOrderKeepsInv ==
  ASSUME IInv, NEW h \in Handlers, NEW o \in OrderIds, CommitOrder(h, o)
  PROVE  IInv'
<1> DEFINE cart == req[h].cart
<1>1. /\ status[o] = Absent
      /\ status' = [status EXCEPT ![o] = DefaultStatus]
      /\ items' = [items EXCEPT ![o] = cart]
      /\ stock' = [p \in Parts |-> IF p \in held[h] THEN stock[p] - cart[p] ELSE stock[p]]
      /\ Finish(h, held[h])
      /\ UNCHANGED <<removed, supplied>>
  BY DEF CommitOrder
<1>2. cart \in Cart /\ held[h] \in SUBSET Rows
  BY DEF IInv, TypeOK
<1>3. stock' \in [Parts -> Int]
  BY <1>1, <1>2, OrdersAssumption DEF IInv, TypeOK, Cart
<1>4. DefaultStatus \in Status /\ DefaultStatus # Absent /\ Absent \notin Status
  BY DEF DefaultStatus, Status, Absent
<1>5. status' \in [OrderIds -> Status \cup {Absent}] /\ items' \in [OrderIds -> Cart]
  BY <1>1, <1>2, <1>4 DEF IInv, TypeOK
<1>6. AbsentIsEmpty'
  BY <1>1, <1>4 DEF IInv, TypeOK, AbsentIsEmpty
<1>7. ASSUME NEW g \in Handlers, pc[g] = "restock" PROVE req[g].order # o
  BY <1>1, <1>4, <1>7 DEF IInv, DecisionHolds, ValidTransition
<1>8. ASSUME NEW g \in Handlers, pc[g] = "restock"
      PROVE  /\ status'[req[g].order] = status[req[g].order]
             /\ items'[req[g].order] = items[req[g].order]
  BY <1>1, <1>7, <1>8 DEF IInv, TypeOK, HandlerShape
<1>9. supplied' \in [Parts -> Int] /\ removed' \in SUBSET Parts
  BY <1>1 DEF IInv, TypeOK
<1> QED
  BY <1>1, <1>2, <1>3, <1>5, <1>6, <1>8, <1>9, FinishKeepsInv

LEMMA CommitStatusKeepsInv ==
  ASSUME IInv, NEW h \in Handlers, CommitStatus(h)
  PROVE  IInv'
<1> DEFINE o == req[h].order
<1>1. /\ pc[h] = "restock"
      /\ status' = [status EXCEPT ![o] = req[h].goal]
      /\ stock' = [p \in Parts |-> IF p \in held[h] THEN stock[p] + items[o][p] ELSE stock[p]]
      /\ Finish(h, held[h])
      /\ UNCHANGED <<removed, items, supplied>>
  BY DEF CommitStatus
<1>2. /\ o \in OrderIds /\ o \in held[h]
      /\ req[h].goal \in Status /\ held[h] \in SUBSET Rows
      /\ ValidTransition(status[o], req[h].goal)
  BY <1>1, OrdersAssumption DEF IInv, TypeOK, HandlerShape, DecisionHolds
<1>3. stock' \in [Parts -> Int]
  BY <1>1, <1>2, OrdersAssumption DEF IInv, TypeOK, Cart
<1>4. Absent \notin Status
  BY DEF Status, Absent
<1>5. status' \in [OrderIds -> Status \cup {Absent}]
  BY <1>1, <1>2 DEF IInv, TypeOK
<1>6. AbsentIsEmpty'
  BY <1>1, <1>2, <1>4 DEF IInv, TypeOK, AbsentIsEmpty
<1>7. ASSUME NEW g \in Handlers, g # h, pc[g] = "restock" PROVE req[g].order # o
  BY <1>2, <1>7 DEF IInv, DecisionHolds, LocksExclusive
<1>8. ASSUME NEW g \in Handlers, g # h, pc[g] = "restock"
      PROVE  /\ status'[req[g].order] = status[req[g].order]
             /\ items'[req[g].order] = items[req[g].order]
  BY <1>1, <1>7, <1>8 DEF IInv, TypeOK, HandlerShape
<1>9. /\ supplied' \in [Parts -> Int] /\ removed' \in SUBSET Parts
      /\ items' \in [OrderIds -> Cart]
  BY <1>1 DEF IInv, TypeOK
<1> QED
  BY <1>1, <1>2, <1>3, <1>5, <1>6, <1>8, <1>9, FinishKeepsInv

LEMMA PartWriteKeepsInv ==
  ASSUME IInv, NEW h \in Handlers, PutPart(h) \/ SoftDeletePart(h)
  PROVE  IInv'
<1>1. req[h].part \in Parts /\ {req[h].part} \in SUBSET Rows
  BY DEF IInv, HandlerShape, PutPart, SoftDeletePart, Rows
<1>2. Finish(h, {req[h].part}) /\ UNCHANGED <<status, items>>
  BY DEF PutPart, SoftDeletePart
<1>3. stock' \in [Parts -> Int] /\ supplied' \in [Parts -> Int]
  <2>1. CASE PutPart(h)
    <3>1. req[h].qty \in Int
      BY <2>1, OrdersAssumption DEF PutPart, IInv, HandlerShape
    <3> QED
      BY <1>1, <2>1, <3>1 DEF PutPart, IInv, TypeOK
  <2>2. CASE SoftDeletePart(h)
    BY <2>2 DEF SoftDeletePart, IInv, TypeOK
  <2> QED
    BY <2>1, <2>2
<1>4. removed' \in SUBSET Parts
  BY <1>1 DEF PutPart, SoftDeletePart, IInv, TypeOK
<1>5. /\ status' \in [OrderIds -> Status \cup {Absent}]
      /\ items' \in [OrderIds -> Cart] /\ AbsentIsEmpty'
  BY <1>2 DEF IInv, TypeOK, AbsentIsEmpty
<1> QED
  BY <1>1, <1>2, <1>3, <1>4, <1>5, FinishKeepsInv

LEMMA InvNext == IInv /\ [Next]_vars => IInv'
<1> SUFFICES ASSUME IInv, [Next]_vars PROVE IInv'
  OBVIOUS
<1>1. CASE UNCHANGED vars
  BY <1>1 DEF vars, db, sessions, IInv, TypeOK, LocksExclusive, HandlerShape, WritesDone,
              ToRestock, DecisionHolds, AbsentIsEmpty
<1>2. ASSUME NEW h \in Handlers, Receive(h) PROVE IInv'
  BY <1>2, ReceiveKeepsInv
<1>3. ASSUME NEW h \in Handlers, Work(h) PROVE IInv'
  BY <1>3, RefusalKeepsInv, ValidateKeepsInv, DecrementKeepsInv, BeginKeepsInv, LockKeepsInv,
     RestockKeepsInv, CommitStatusKeepsInv, PartWriteKeepsInv
     DEF Work, RejectCart, RejectTransition, SerializationFailure
<1>4. ASSUME NEW h \in Handlers, NEW o \in OrderIds, CommitOrder(h, o) PROVE IInv'
  BY <1>4, CommitOrderKeepsInv
<1>5. ASSUME NEW h \in Handlers, HandlerFails(h) \/ DeadlockVictim(h) PROVE IInv'
  BY <1>5, RefusalKeepsInv DEF HandlerFails, DeadlockVictim
<1> QED
  BY <1>1, <1>2, <1>3, <1>4, <1>5 DEF Next, Progress

-----------------------------------------------------------------------------
(* Theorems.                                                               *)

\* The inductive invariant: whatever the number of requests, a transaction that
\* reaches COMMIT wrote every part row of its order under locks of its own
\* (createTransactional, updateStatusAtomically).
THEOREM InductiveInvariant == Spec => []IInv
<1>1. Init => IInv
  BY InvInit
<1>2. IInv /\ [Next]_vars => IInv'
  BY InvNext
<1> QED
  BY <1>1, <1>2, PTL DEF Spec

\* Every column and every handler field keeps its type.
THEOREM TypeCorrect == Spec => []TypeOK
<1>1. IInv => TypeOK
  BY DEF IInv
<1> QED
  BY <1>1, InductiveInvariant, PTL

\* The status validated under the row lock is the committed one until COMMIT:
\* the second assertValidTransition of updateStatusAtomically is never stale.
THEOREM DecisionStable == Spec => []DecisionHolds
<1>1. IInv => DecisionHolds
  BY DEF IInv
<1> QED
  BY <1>1, InductiveInvariant, PTL

\* A step changes the status of an order as the state machine allows.
Legal == \A o \in OrderIds :
           status'[o] # status[o] =>
             \/ status[o] = Absent /\ status'[o] = DefaultStatus
             \/ ValidTransition(status[o], status'[o])

LEMMA LegalStep == IInv /\ [Next]_vars => [Legal]_status
<1> SUFFICES ASSUME IInv, Next, status' # status PROVE Legal
  BY DEF vars, db
<1>1. PICK h \in Handlers :
        \/ Receive(h) \/ Work(h) \/ HandlerFails(h) \/ DeadlockVictim(h)
        \/ \E o \in OrderIds : CommitOrder(h, o)
  BY DEF Next, Progress
<1>2. ASSUME NEW o \in OrderIds, CommitOrder(h, o) PROVE Legal
  BY <1>2 DEF CommitOrder, IInv, TypeOK, Legal
<1>3. ASSUME CommitStatus(h) PROVE Legal
  <2>1. ValidTransition(status[req[h].order], req[h].goal)
    BY <1>3 DEF CommitStatus, IInv, DecisionHolds
  <2> QED
    BY <1>3, <2>1 DEF CommitStatus, IInv, TypeOK, Legal
<1>4. CASE Receive(h) \/ HandlerFails(h) \/ DeadlockVictim(h)
  BY <1>4 DEF Receive, ReceivePart, CreateOrder, CancelOrder, UpdateStatus, RefuseStatus,
              UpdatePart, RemovePart, RefusePart, Start, HandlerFails, DeadlockVictim, vars, db,
            Legal
<1>5. CASE Work(h) /\ ~CommitStatus(h)
  BY <1>5 DEF Work, ValidateCart, RejectCart, DecrementPart, BeginStatusTx, LockOrder,
              RejectTransition, RestockPart, SerializationFailure, PutPart,
              SoftDeletePart, db, Legal
<1> QED
  BY <1>1, <1>2, <1>3, <1>4, <1>5

\* An order only follows the state machine, whichever requests race for it.
THEOREM OrdersFollowMachine == Spec => StatusFollowsMachine
<1> QED
  BY LegalStep, InductiveInvariant, PTL DEF Spec, StatusFollowsMachine, Legal

-----------------------------------------------------------------------------
(* The refinement: every step is a ledger operation or a stutter.          *)

\* The state machine seen through the instance is the state machine.
LEMMA SameMachine ==
  /\ Ledger!Absent = Absent /\ Ledger!DefaultStatus = DefaultStatus
  /\ \A from, to : Ledger!ValidTransition(from, to) = ValidTransition(from, to)
  /\ \A to : Ledger!IsCancellation(to) = IsCancellation(to)
<1>1. Ledger!Status = Status /\ Ledger!VALID_TRANSITIONS = VALID_TRANSITIONS
  BY DEF Ledger!Status, Status, Ledger!VALID_TRANSITIONS, VALID_TRANSITIONS
<1> QED
  BY <1>1 DEF Ledger!Absent, Absent, Ledger!DefaultStatus, DefaultStatus,
              Ledger!ValidTransition, ValidTransition, Ledger!IsCancellation, IsCancellation

\* Nothing leaves a cancelled order, and no order becomes absent.
LEMMA MachineFacts ==
  ASSUME NEW from, NEW to, ValidTransition(from, to)
  PROVE  from \notin {Absent, "CANCELLED"} /\ to # Absent
<1>1. from \in Status /\ to \in VALID_TRANSITIONS[from]
  BY DEF ValidTransition
<1>2. VALID_TRANSITIONS["CANCELLED"] = {}
  BY DEF VALID_TRANSITIONS
<1>3. \A s \in Status : VALID_TRANSITIONS[s] \subseteq Status
  BY DEF VALID_TRANSITIONS, Status
<1> QED
  BY <1>1, <1>2, <1>3 DEF Status, Absent

LEMMA LedgerInit == Init => Ledger!Init
BY SameMachine DEF Init, Ledger!Init, NoItems, Ledger!NoItems

\* A step that leaves the ledger's variables alone.
LEMMA QuietSteps ==
  ASSUME NEW h \in Handlers,
         \/ Receive(h) \/ HandlerFails(h) \/ DeadlockVictim(h) \/ SoftDeletePart(h)
         \/ Work(h) /\ ~CommitStatus(h) /\ ~PutPart(h)
  PROVE  UNCHANGED Ledger!vars
<1>1. CASE Receive(h) \/ HandlerFails(h) \/ DeadlockVictim(h) \/ SoftDeletePart(h)
  BY <1>1 DEF Receive, ReceivePart, CreateOrder, CancelOrder, UpdateStatus, RefuseStatus,
              UpdatePart, RemovePart, RefusePart, Start, HandlerFails, DeadlockVictim, SoftDeletePart,
              vars, db, Ledger!vars
<1>2. CASE Work(h) /\ ~CommitStatus(h) /\ ~PutPart(h)
  BY <1>2 DEF Work, ValidateCart, RejectCart, DecrementPart, BeginStatusTx, LockOrder,
              RejectTransition, RestockPart, SerializationFailure, SoftDeletePart,
              db, Ledger!vars
<1> QED
  BY <1>1, <1>2

\* Rows not in `held' had nothing to be written to.
LEMMA PlaceStep ==
  ASSUME IInv, NEW h \in Handlers, NEW o \in OrderIds, CommitOrder(h, o)
  PROVE  Ledger!Place(o, req[h].cart)
<1> DEFINE cart == req[h].cart
<1>1. cart \in [Parts -> 0..MaxQty]
  BY DEF IInv, TypeOK, Cart
<1>2. PartsOf(cart) \subseteq held[h]
  BY DEF CommitOrder, IInv, HandlerShape, WritesDone
<1>3. ASSUME NEW p \in Parts, p \notin held[h] PROVE cart[p] = 0
  BY <1>1, <1>2, <1>3, OrdersAssumption DEF PartsOf
<1>4. stock' = [p \in Parts |-> stock[p] - cart[p]]
  <2>1. ASSUME NEW p \in Parts
        PROVE  (IF p \in held[h] THEN stock[p] - cart[p] ELSE stock[p]) = stock[p] - cart[p]
    BY <1>3 DEF IInv, TypeOK
  <2> QED
    BY <2>1 DEF CommitOrder
<1> QED
  BY <1>4, SameMachine DEF CommitOrder, Ledger!Place

LEMMA MoveStep ==
  ASSUME IInv, NEW h \in Handlers, CommitStatus(h)
  PROVE  /\ req[h].order \in OrderIds /\ req[h].goal \in Goals
         /\ Ledger!Move(req[h].order, req[h].goal)
<1> DEFINE o == req[h].order
<1>1. /\ o \in OrderIds /\ req[h].goal \in Goals
      /\ ValidTransition(status[o], req[h].goal)
      /\ held[h] \subseteq Parts \cup {o}
      /\ held[h] \cap Parts \subseteq ToRestock(h)
      /\ ToRestock(h) \subseteq held[h]
  BY DEF CommitStatus, IInv, HandlerShape, DecisionHolds, WritesDone
<1>2. items[o] \in [Parts -> 0..MaxQty] /\ stock \in [Parts -> Int]
  BY <1>1 DEF IInv, TypeOK, Cart
<1>3. stock' = [p \in Parts |-> IF p \in held[h] THEN stock[p] + items[o][p] ELSE stock[p]]
  BY DEF CommitStatus
<1>4. CASE IsCancellation(req[h].goal)
  <2>1. ASSUME NEW p \in Parts, p \notin held[h] PROVE items[o][p] = 0
    BY <1>1, <1>2, <1>4, <2>1, OrdersAssumption DEF ToRestock, PartsOf
  <2>2. ASSUME NEW p \in Parts
        PROVE  (IF p \in held[h] THEN stock[p] + items[o][p] ELSE stock[p])
                 = stock[p] + items[o][p]
    BY <1>2, <2>1
  <2>3. stock' = [p \in Parts |-> stock[p] + items[o][p]]
    BY <1>3, <2>2
  <2> QED
    BY <1>1, <1>4, <2>3, SameMachine DEF CommitStatus, Ledger!Move
<1>5. CASE ~IsCancellation(req[h].goal)
  <2>1. ASSUME NEW p \in Parts PROVE p \notin held[h]
    BY <1>1, <1>5 DEF ToRestock
  <2>2. stock' = stock
    BY <1>2, <1>3, <2>1
  <2> QED
    BY <1>1, <1>5, <2>2, SameMachine DEF CommitStatus, Ledger!Move
<1> QED
  BY <1>1, <1>4, <1>5

LEMMA LedgerStep == IInv /\ [Next]_vars => [Ledger!Next]_(Ledger!vars)
<1> SUFFICES ASSUME IInv, [Next]_vars PROVE [Ledger!Next]_(Ledger!vars)
  OBVIOUS
<1>1. CASE UNCHANGED vars
  BY <1>1 DEF vars, db, Ledger!vars
<1>2. ASSUME NEW h \in Handlers, NEW o \in OrderIds, CommitOrder(h, o) PROVE Ledger!Next
  <2>1. req[h].cart \in Ledger!Cart
    BY DEF IInv, TypeOK, Cart, Ledger!Cart
  <2> QED
    BY <1>2, <2>1, PlaceStep DEF Ledger!Next
<1>3. ASSUME NEW h \in Handlers, CommitStatus(h) PROVE Ledger!Next
  BY <1>3, MoveStep DEF Ledger!Next
<1>4. ASSUME NEW h \in Handlers, PutPart(h) PROVE Ledger!Next
  <2>1. req[h].part \in Parts /\ req[h].qty \in Quantities
    BY <1>4 DEF PutPart, IInv, HandlerShape
  <2>2. Ledger!SetQuantity(req[h].part, req[h].qty)
    BY <1>4 DEF PutPart, Ledger!SetQuantity
  <2> QED
    BY <2>1, <2>2 DEF Ledger!Next
<1> QED
  BY <1>1, <1>2, <1>3, <1>4, QuietSteps DEF Next, Progress

\* The transactions implement the ledger: a request takes effect at one instant
\* or not at all, and only as the state machine allows.
THEOREM Refinement == Spec => ImplementsLedger
<1> QED
  BY LedgerInit, LedgerStep, InductiveInvariant, PTL DEF Spec, ImplementsLedger, Ledger!Spec

-----------------------------------------------------------------------------
(* Conservation.  The units out of the warehouse form a finite set whose   *)
(* size is compared with the stock.                                        *)

\* The units one holder x has of a part: <<x, 1>> to <<x, q>>.
Block(x, q) == {x} \X (1..q)

LEMMA BlockSize ==
  ASSUME NEW x, NEW q \in Nat
  PROVE  IsFiniteSet(Block(x, q)) /\ Cardinality(Block(x, q)) = q
<1>1. IsFiniteSet(1..q) /\ Cardinality(1..q) = q
  BY FS_Interval
<1>2. IsFiniteSet({x}) /\ Cardinality({x}) = 1
  BY FS_Singleton
<1>3. IsFiniteSet({x} \X (1..q)) /\ Cardinality({x} \X (1..q)) = 1 * q
  BY <1>1, <1>2, FS_Product
<1> QED
  BY <1>3 DEF Block

LEMMA AddBlock ==
  ASSUME NEW S, IsFiniteSet(S), NEW x, NEW q \in Nat, S \cap Block(x, q) = {}
  PROVE  /\ IsFiniteSet(S \cup Block(x, q))
         /\ Cardinality(S \cup Block(x, q)) = Cardinality(S) + q
<1> DEFINE B == Block(x, q)
<1>1. IsFiniteSet(B) /\ Cardinality(B) = q
  BY BlockSize
<1>2. Cardinality(S \cap B) = 0
  BY FS_EmptySet
<1>3. Cardinality(S) \in Nat
  BY FS_CardinalityType
<1> HIDE DEF B
<1>4. IsFiniteSet(S \cup B)
      /\ Cardinality(S \cup B) = Cardinality(S) + Cardinality(B) - Cardinality(S \cap B)
  BY <1>1, FS_Union
<1>5. IsFiniteSet(S \cup B) /\ Cardinality(S \cup B) = Cardinality(S) + q
  BY <1>1, <1>2, <1>3, <1>4
<1> QED
  BY <1>5 DEF B

LEMMA UnitsFinite ==
  ASSUME NEW p \in Parts
  PROVE  IsFiniteSet(Ledger!UnitsOut(p)) /\ Cardinality(Ledger!UnitsOut(p)) \in Nat
<1>1. IsFiniteSet(1..MaxQty)
  BY OrdersAssumption, FS_Interval
<1>2. IsFiniteSet(OrderIds \X (1..MaxQty))
  BY <1>1, OrdersAssumption, FS_Product
<1>3. Ledger!UnitsOut(p) \in SUBSET (OrderIds \X (1..MaxQty))
  BY DEF Ledger!UnitsOut
<1> QED
  BY <1>2, <1>3, FS_Subset, FS_CardinalityType

\* An order that takes units: they were not out before.
LEMMA PlaceUnits ==
  ASSUME IInv, NEW o \in OrderIds, NEW cart \in Cart, Ledger!Place(o, cart), NEW p \in Parts
  PROVE  Ledger!UnitsOut(p)' = Ledger!UnitsOut(p) \cup Block(o, cart[p])
         /\ Ledger!UnitsOut(p) \cap Block(o, cart[p]) = {}
<1>1. /\ status[o] = Absent
      /\ status' = [status EXCEPT ![o] = DefaultStatus]
      /\ items' = [items EXCEPT ![o] = cart]
  BY SameMachine DEF Ledger!Place
<1>2. DefaultStatus \notin {Absent, "CANCELLED"}
  BY DEF DefaultStatus, Absent
<1>3. cart[p] \in 0..MaxQty /\ MaxQty \in Nat
  BY OrdersAssumption DEF Cart
<1>4. Ledger!UnitsOut(p) \cap Block(o, cart[p]) = {}
  BY <1>1, SameMachine DEF Ledger!UnitsOut, Block
<1>5. ASSUME NEW u \in OrderIds \X (1..MaxQty)
      PROVE  u \in Ledger!UnitsOut(p)' <=> u \in Ledger!UnitsOut(p) \/ u \in Block(o, cart[p])
  <2>1. u[1] \in OrderIds /\ u[2] \in 1..MaxQty /\ u = <<u[1], u[2]>>
    OBVIOUS
  <2>2. CASE u[1] = o
    <3>1. u \in Block(o, cart[p]) <=> u[2] <= cart[p]
      BY <1>3, <2>1, <2>2 DEF Block
    <3>2. u \notin Ledger!UnitsOut(p)
      BY <1>1, <2>2, SameMachine DEF Ledger!UnitsOut
    <3>3. u \in Ledger!UnitsOut(p)' <=> u[2] <= cart[p]
      BY <1>1, <1>2, <2>1, <2>2, SameMachine DEF Ledger!UnitsOut, IInv, TypeOK
    <3> QED
      BY <3>1, <3>2, <3>3
  <2>3. CASE u[1] # o
    <3>1. u \notin Block(o, cart[p])
      BY <2>1, <2>3 DEF Block
    <3>2. status'[u[1]] = status[u[1]] /\ items'[u[1]] = items[u[1]]
      BY <1>1, <2>1, <2>3 DEF IInv, TypeOK
    <3> QED
      BY <3>1, <3>2, SameMachine DEF Ledger!UnitsOut
  <2> QED
    BY <2>2, <2>3
<1>6. /\ Ledger!UnitsOut(p)' \subseteq OrderIds \X (1..MaxQty)
      /\ Ledger!UnitsOut(p) \subseteq OrderIds \X (1..MaxQty)
      /\ Block(o, cart[p]) \subseteq OrderIds \X (1..MaxQty)
  BY <1>3 DEF Ledger!UnitsOut, Block
<1> QED
  BY <1>4, <1>5, <1>6

\* A cancellation gives exactly its order's units back.
LEMMA CancelUnits ==
  ASSUME IInv, NEW o \in OrderIds, NEW to \in Goals, Ledger!Move(o, to),
         IsCancellation(to), NEW p \in Parts
  PROVE  Ledger!UnitsOut(p) = Ledger!UnitsOut(p)' \cup Block(o, items[o][p])
         /\ Ledger!UnitsOut(p)' \cap Block(o, items[o][p]) = {}
<1>1. /\ status[o] \notin {Absent, "CANCELLED"}
      /\ status' = [status EXCEPT ![o] = "CANCELLED"]
      /\ items' = items
  BY SameMachine, MachineFacts DEF Ledger!Move, IsCancellation
<1>2. items[o][p] \in 0..MaxQty /\ MaxQty \in Nat
  BY OrdersAssumption DEF IInv, TypeOK, Cart
<1>3. Ledger!UnitsOut(p)' \cap Block(o, items[o][p]) = {}
  BY <1>1, SameMachine DEF Ledger!UnitsOut, Block, IInv, TypeOK
<1>4. ASSUME NEW u \in OrderIds \X (1..MaxQty)
      PROVE  u \in Ledger!UnitsOut(p) <=>
               u \in Ledger!UnitsOut(p)' \/ u \in Block(o, items[o][p])
  <2>1. u[1] \in OrderIds /\ u[2] \in 1..MaxQty /\ u = <<u[1], u[2]>>
    OBVIOUS
  <2>2. CASE u[1] = o
    <3>1. u \in Block(o, items[o][p]) <=> u[2] <= items[o][p]
      BY <1>2, <2>1, <2>2 DEF Block
    <3>2. u \notin Ledger!UnitsOut(p)'
      BY <1>1, <2>2 DEF Ledger!UnitsOut, IInv, TypeOK
    <3>3. u \in Ledger!UnitsOut(p) <=> u[2] <= items[o][p]
      BY <1>1, <2>1, <2>2, SameMachine DEF Ledger!UnitsOut
    <3> QED
      BY <3>1, <3>2, <3>3
  <2>3. CASE u[1] # o
    <3>1. u \notin Block(o, items[o][p])
      BY <2>1, <2>3 DEF Block
    <3>2. status'[u[1]] = status[u[1]] /\ items'[u[1]] = items[u[1]]
      BY <1>1, <2>1, <2>3 DEF IInv, TypeOK
    <3> QED
      BY <3>1, <3>2, SameMachine DEF Ledger!UnitsOut
  <2> QED
    BY <2>2, <2>3
<1>5. /\ Ledger!UnitsOut(p)' \subseteq OrderIds \X (1..MaxQty)
      /\ Ledger!UnitsOut(p) \subseteq OrderIds \X (1..MaxQty)
      /\ Block(o, items[o][p]) \subseteq OrderIds \X (1..MaxQty)
  BY <1>2 DEF Ledger!UnitsOut, Block
<1> QED
  BY <1>3, <1>4, <1>5

\* Any other move keeps the order's units out.
LEMMA OtherMoveUnits ==
  ASSUME IInv, NEW o \in OrderIds, NEW to \in Goals, Ledger!Move(o, to),
         ~IsCancellation(to), NEW p \in Parts
  PROVE  Ledger!UnitsOut(p)' = Ledger!UnitsOut(p)
<1>1. /\ status[o] \notin {Absent, "CANCELLED"} /\ to \notin {Absent, "CANCELLED"}
      /\ status' = [status EXCEPT ![o] = to]
      /\ items' = items
  BY SameMachine, MachineFacts DEF Ledger!Move, IsCancellation
<1>2. ASSUME NEW i \in OrderIds
      PROVE  status'[i] \notin {Absent, "CANCELLED"} <=> status[i] \notin {Absent, "CANCELLED"}
  BY <1>1 DEF IInv, TypeOK
<1> QED
  BY <1>1, <1>2, SameMachine DEF Ledger!UnitsOut

\* Counting seen through the instance is counting.
LEMMA SameCount == \A S : Ledger!Cardinality(S) = Cardinality(S)
BY DEF Ledger!Cardinality, Cardinality

LEMMA ConservationInit == Init => Conservation
<1> SUFFICES ASSUME Init, NEW p \in Parts
             PROVE  stock[p] + Cardinality(Ledger!UnitsOut(p)) = supplied[p]
  BY SameCount DEF Conservation, Ledger!Conservation
<1> Quantities \subseteq Int
  BY OrdersAssumption
<1>1. Ledger!UnitsOut(p) = {}
  BY SameMachine DEF Init, Ledger!UnitsOut
<1>2. stock[p] \in Int /\ supplied[p] = stock[p]
  BY OrdersAssumption DEF Init
<1> QED
  BY <1>1, <1>2, FS_EmptySet

LEMMA ConservationStep == IInv /\ Conservation /\ [Next]_vars => Conservation'
<1> SUFFICES ASSUME IInv, Conservation, [Next]_vars, NEW p \in Parts
             PROVE  stock'[p] + Cardinality(Ledger!UnitsOut(p)') = supplied'[p]
  BY SameCount DEF Conservation, Ledger!Conservation
<1> DEFINE out == Cardinality(Ledger!UnitsOut(p))
<1>1. stock[p] + out = supplied[p]
  BY SameCount DEF Conservation, Ledger!Conservation
<1>2. stock[p] \in Int /\ supplied[p] \in Int
  BY DEF IInv, TypeOK
<1>3. IsFiniteSet(Ledger!UnitsOut(p)) /\ out \in Nat
  BY UnitsFinite
<1>4. CASE UNCHANGED Ledger!vars
  <2>1. Ledger!UnitsOut(p)' = Ledger!UnitsOut(p) /\ stock' = stock /\ supplied' = supplied
    BY <1>4 DEF Ledger!vars, Ledger!UnitsOut
  <2> QED
    BY <1>1, <2>1
<1>5. ASSUME NEW o \in OrderIds, NEW cart \in Cart, Ledger!Place(o, cart)
      PROVE  stock'[p] + Cardinality(Ledger!UnitsOut(p)') = supplied'[p]
  <2>1. cart[p] \in Nat
    BY OrdersAssumption DEF Cart
  <2>2. Ledger!UnitsOut(p)' = Ledger!UnitsOut(p) \cup Block(o, cart[p])
        /\ Ledger!UnitsOut(p) \cap Block(o, cart[p]) = {}
    BY <1>5, PlaceUnits
  <2>3. Cardinality(Ledger!UnitsOut(p)') = out + cart[p]
    BY <1>3, <2>1, <2>2, AddBlock
  <2>4. stock'[p] = stock[p] - cart[p] /\ supplied' = supplied
    BY <1>5 DEF Ledger!Place
  <2> QED
    BY <1>1, <1>2, <1>3, <2>1, <2>3, <2>4
<1>6. ASSUME NEW o \in OrderIds, NEW to \in Goals, Ledger!Move(o, to)
      PROVE  stock'[p] + Cardinality(Ledger!UnitsOut(p)') = supplied'[p]
  <2>1. CASE IsCancellation(to)
    <3>1. items[o][p] \in Nat
      BY OrdersAssumption DEF IInv, TypeOK, Cart
    <3>2. Ledger!UnitsOut(p) = Ledger!UnitsOut(p)' \cup Block(o, items[o][p])
          /\ Ledger!UnitsOut(p)' \cap Block(o, items[o][p]) = {}
      BY <1>6, <2>1, CancelUnits
    <3>3. IsFiniteSet(Ledger!UnitsOut(p)')
      BY <1>3, <3>2, FS_Subset
    <3>4. out = Cardinality(Ledger!UnitsOut(p)') + items[o][p]
      BY <3>1, <3>2, <3>3, AddBlock
    <3>5. Cardinality(Ledger!UnitsOut(p)') \in Nat
      BY <3>3, FS_CardinalityType
    <3>6. stock'[p] = stock[p] + items[o][p] /\ supplied' = supplied
      BY <1>6, <2>1, SameMachine DEF Ledger!Move
    <3> QED
      BY <1>1, <1>2, <3>1, <3>4, <3>5, <3>6
  <2>2. CASE ~IsCancellation(to)
    <3>1. Ledger!UnitsOut(p)' = Ledger!UnitsOut(p)
      BY <1>6, <2>2, OtherMoveUnits
    <3>2. stock' = stock /\ supplied' = supplied
      BY <1>6, <2>2, SameMachine DEF Ledger!Move
    <3> QED
      BY <1>1, <3>1, <3>2
  <2> QED
    BY <2>1, <2>2
<1>7. ASSUME NEW q \in Parts, NEW n \in Quantities, Ledger!SetQuantity(q, n)
      PROVE  stock'[p] + Cardinality(Ledger!UnitsOut(p)') = supplied'[p]
  <2>1. Ledger!UnitsOut(p)' = Ledger!UnitsOut(p)
    BY <1>7 DEF Ledger!SetQuantity, Ledger!UnitsOut
  <2>2. n \in Int
    BY OrdersAssumption
  <2>3. stock'[p] - supplied'[p] = stock[p] - supplied[p] /\ stock'[p] \in Int /\ supplied'[p] \in Int
    BY <1>2, <1>7, <2>2 DEF Ledger!SetQuantity, IInv, TypeOK
  <2> QED
    BY <1>1, <1>2, <1>3, <2>1, <2>3
<1>8. Ledger!Cart = Cart
  BY DEF Ledger!Cart, Cart
<1> QED
  BY <1>4, <1>5, <1>6, <1>7, <1>8, LedgerStep DEF Ledger!Next

\* However requests interleave, fail and are rolled back, the shelf and the
\* orders that were not cancelled hold every unit ever supplied: no lost
\* decrement, no double restock (createTransactional, updateStatusAtomically).
THEOREM StockConserved == Spec => []Conservation
<1> QED
  BY ConservationInit, ConservationStep, InductiveInvariant, PTL DEF Spec
==============================================================================
