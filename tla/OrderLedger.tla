----------------------------- MODULE OrderLedger -----------------------------
(***************************************************************************)
(* What the orders component promises its callers, whatever transactions,  *)
(* row locks and retries it uses to get there: placing an order takes its  *)
(* parts off the shelf, cancelling it puts exactly those parts back, its   *)
(* status only moves along the state machine, and each of these happens    *)
(* at one instant.  Orders implements this specification.                  *)
(***************************************************************************)
EXTENDS Integers, FiniteSets, OrderStatus

CONSTANTS
  Parts,      \* part rows
  OrderIds,   \* order rows that can be inserted (bounds the number of orders)
  MaxQty,     \* units of one part an order may ask for (bounds the DTO's quantity)
  Quantities, \* quantities a stock keeper may set (bounds the DTO's quantity)
  Goals       \* statuses requests ask for

VARIABLES
  stock,      \* Part.quantity, a plain integer column with no CHECK
  status,     \* Order.status, or Absent
  items,      \* OrderItem rows of an order: units per part
  supplied    \* history: units ever put on the shelf by the stock keeper

vars == <<stock, status, items, supplied>>

Cart    == [Parts -> 0..MaxQty]
NoItems == [p \in Parts |-> 0]

Init ==
  /\ stock \in [Parts -> Quantities]
  /\ supplied = stock
  /\ status = [o \in OrderIds |-> Absent]
  /\ items = [o \in OrderIds |-> NoItems]

Place(o, cart) ==
  /\ status[o] = Absent
  /\ status' = [status EXCEPT ![o] = DefaultStatus]
  /\ items' = [items EXCEPT ![o] = cart]
  /\ stock' = [p \in Parts |-> stock[p] - cart[p]]
  /\ UNCHANGED supplied

Move(o, to) ==
  /\ ValidTransition(status[o], to)
  /\ status' = [status EXCEPT ![o] = to]
  /\ stock' = IF IsCancellation(to)
                THEN [p \in Parts |-> stock[p] + items[o][p]]
                ELSE stock
  /\ UNCHANGED <<items, supplied>>

SetQuantity(p, n) ==
  /\ stock' = [stock EXCEPT ![p] = n]
  /\ supplied' = [supplied EXCEPT ![p] = @ + n - stock[p]]
  /\ UNCHANGED <<status, items>>

Next ==
  \/ \E o \in OrderIds : \/ \E cart \in Cart : Place(o, cart)
                         \/ \E to \in Goals : Move(o, to)
  \/ \E p \in Parts, n \in Quantities : SetQuantity(p, n)

Spec == Init /\ [][Next]_vars

TypeOK ==
  /\ stock \in [Parts -> Int]
  /\ supplied \in [Parts -> Int]
  /\ status \in [OrderIds -> Status \cup {Absent}]
  /\ items \in [OrderIds -> Cart]

\* The units of part p that orders have taken and not given back, one element
\* <<order, k>> for the k-th unit.
UnitsOut(p) ==
  {u \in OrderIds \X (1..MaxQty) :
     status[u[1]] \notin {Absent, "CANCELLED"} /\ u[2] <= items[u[1]][p]}

\* Every unit ever supplied is on the shelf or in an order that was not
\* cancelled: no decrement is lost, no cancellation restocks twice, none is
\* forgotten (orders.prisma.repository.ts, steps 5 and 6 of createTransactional
\* and the restock of updateStatusAtomically).
Conservation ==
  \A p \in Parts : stock[p] + Cardinality(UnitsOut(p)) = supplied[p]
==============================================================================
