----------------------------- MODULE OrderStatus -----------------------------
(***************************************************************************)
(* The order state machine of src/orders/order-state-machine.ts.           *)
(***************************************************************************)

\* The OrderStatus enumeration of the database schema.
Status == {"PENDING", "CONFIRMED", "IN_PROGRESS", "COMPLETED", "CANCELLED"}

\* What an order identity holds before the row is inserted.
Absent == "ABSENT"

\* The column default a new order row gets.
DefaultStatusUnknown == "SUBMITTED"   \* mutant: not a member of the enumeration
DefaultStatus == "PENDING"

\* Where an order may go from each status; the last two are terminal.
VALID_TRANSITIONS ==
  [PENDING     |-> {"CONFIRMED", "CANCELLED"},
   CONFIRMED   |-> {"IN_PROGRESS", "CANCELLED"},
   IN_PROGRESS |-> {"COMPLETED"},
   COMPLETED   |-> {},
   CANCELLED   |-> {}]

\* assertValidTransition returns; when this is false it throws (HTTP 400).
ValidTransition(from, to) ==
  from \in Status /\ to \in VALID_TRANSITIONS[from]

IsCancellation(to) == to = "CANCELLED"
==============================================================================
