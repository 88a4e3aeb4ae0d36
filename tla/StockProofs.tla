---------------------------- MODULE StockProofs ----------------------------
(***************************************************************************)
(* How far concurrent orders can oversell a part, for any number of        *)
(* requests and any quantities (the stock check of createTransactional     *)
(* locks nothing), and that a check of a part left low is not forgotten,   *)
(* whatever the queue, the worker and the process do.                      *)
(***************************************************************************)
EXTENDS StockAlerts, OrdersProofs, FiniteSums

\* The requests that passed the check and have units of p still to commit.
Taking(p) == {h \in Handlers : pc[h] = "decrement" /\ req[h].cart[p] > 0}

Claim(p) == [h \in Handlers |-> req[h].cart[p]]

\* s units serve the claims c of the requests T without passing the floor: one
\* of them in full, every other one with the most an order may ask for.
Covers(s, c, T) ==
  IF T = {} THEN s >= Floor
            ELSE \E h \in T : s - c[h] - MaxQty * (Cardinality(T) - 1) >= Floor

\* The invariant behind OversellBounded.
TakersCovered == \A p \in Parts : Covers(stock[p], Claim(p), Taking(p))

Claims == [Handlers -> 0..MaxQty]

-----------------------------------------------------------------------------
(* Arithmetic of claims.                                                   *)

LEMMA Times ==
  ASSUME NEW m \in Nat, NEW j \in Int, NEW k \in Int, j <= k
  PROVE  m * j <= m * k
<1>1. m * (k - j) >= 0
  OBVIOUS
<1>2. m * (k - j) = m * k - m * j
  OBVIOUS
<1> QED
  BY <1>1, <1>2

LEMMA Numbers == /\ Cardinality(Handlers) \in Nat \ {0} /\ MaxQty \in Nat
                 /\ Floor = -(MaxQty * (Cardinality(Handlers) - 1)) /\ Floor \in Int
<1>1. Cardinality(Handlers) \in Nat \ {0} /\ MaxQty \in Nat
  BY FS_CardinalityType, FS_EmptySet, OrdersAssumption
<1> QED
  BY <1>1 DEF Floor

LEMMA Counts ==
  ASSUME NEW T \in SUBSET Handlers, NEW S \in SUBSET T
  PROVE  /\ Cardinality(T) \in Nat /\ Cardinality(S) \in Nat
         /\ Cardinality(S) <= Cardinality(T)
         /\ S # {} => Cardinality(S) >= 1
         /\ S # T => Cardinality(S) <= Cardinality(T) - 1
<1>1. IsFiniteSet(T)
  BY FS_Subset, OrdersAssumption
<1>2. IsFiniteSet(S) /\ Cardinality(S) <= Cardinality(T)
      /\ (Cardinality(S) = Cardinality(T) => S = T)
  BY <1>1, FS_Subset
<1>3. Cardinality(T) \in Nat /\ Cardinality(S) \in Nat
  BY <1>1, <1>2, FS_CardinalityType
<1>4. S # {} => Cardinality(S) # 0
  BY <1>2, FS_EmptySet
<1> QED
  BY <1>2, <1>3, <1>4

\* Covered claims leave the stock above the floor.
LEMMA CoversFloor ==
  ASSUME NEW s \in Int, NEW c \in Claims, NEW T \in SUBSET Handlers, Covers(s, c, T)
  PROVE  s >= Floor
<1>1. CASE T = {}
  BY <1>1 DEF Covers
<1>2. CASE T # {}
  <2>1. PICK h \in T : s - c[h] - MaxQty * (Cardinality(T) - 1) >= Floor
    BY <1>2 DEF Covers
  <2>2. Cardinality(T) \in Nat /\ Cardinality(T) >= 1
    BY <1>2, Counts
  <2>3. MaxQty * (Cardinality(T) - 1) >= 0
    BY <2>2, Numbers
  <2>4. MaxQty * (Cardinality(T) - 1) \in Int
    BY <2>2, Numbers
  <2>5. c[h] >= 0 /\ c[h] \in Int
    BY Numbers DEF Claims
  <2> HIDE DEF Covers
  <2> QED
    BY <2>1, <2>3, <2>4, <2>5, Numbers
<1> QED
  BY <1>1, <1>2

\* Any stock s that serves k full claims above the floor covers k claims.
LEMMA CoversFull ==
  ASSUME NEW s \in Int, NEW c \in Claims, NEW T \in SUBSET Handlers,
         s - MaxQty * Cardinality(T) >= Floor
  PROVE  Covers(s, c, T)
<1>1. CASE T = {}
  <2>1. Cardinality(T) = 0
    BY <1>1, FS_EmptySet
  <2> QED
    BY <1>1, <2>1, Numbers DEF Covers
<1>2. CASE T # {}
  <2>1. PICK h \in T : TRUE
    BY <1>2
  <2>2. Cardinality(T) \in Nat
    BY Counts
  <2>3. MaxQty * Cardinality(T) = MaxQty * (Cardinality(T) - 1) + MaxQty
    BY <2>2, Numbers
  <2>4. c[h] \in 0..MaxQty
    BY DEF Claims
  <2>5. MaxQty * (Cardinality(T) - 1) \in Int
    BY <2>2, Numbers
  <2>6. s - c[h] - MaxQty * (Cardinality(T) - 1) >= Floor
    BY <2>3, <2>4, <2>5, Numbers
  <2> QED
    BY <1>2, <2>6 DEF Covers
<1> QED
  BY <1>1, <1>2

\* Requests end, and the stock does not fall.
LEMMA CoversFewer ==
  ASSUME NEW s \in Int, NEW c \in Claims, NEW T \in SUBSET Handlers, Covers(s, c, T),
         NEW r \in Int, r >= s, NEW d \in Claims, NEW S \in SUBSET T,
         \A h \in S : d[h] = c[h]
  PROVE  Covers(r, d, S)
<1> DEFINE k == Cardinality(T)
           l == Cardinality(S)
<1>1. CASE S = {}
  BY <1>1, CoversFloor, Numbers DEF Covers
<1>2. ASSUME S # {} PROVE Covers(r, d, S)
  <2>1. PICK w \in T : s - c[w] - MaxQty * (k - 1) >= Floor
    BY <1>2 DEF Covers
  <2>2. k \in Nat /\ l \in Nat /\ l <= k /\ (S # T => l <= k - 1)
    BY Counts
  <2>3. c[w] \in 0..MaxQty
    BY DEF Claims
  <2>4. MaxQty * (k - 1) \in Int /\ MaxQty * (l - 1) \in Int /\ MaxQty * l \in Int
    BY <2>2, Numbers
  <2>5. CASE w \in S
    <3>1. MaxQty * (l - 1) <= MaxQty * (k - 1)
      BY <2>2, Numbers, Times
    <3>2. r - d[w] - MaxQty * (l - 1) >= Floor
      BY <2>1, <2>3, <2>4, <2>5, <3>1, Numbers
    <3> QED
      BY <1>2, <2>5, <3>2 DEF Covers
  <2>6. CASE w \notin S
    <3>1. MaxQty * l <= MaxQty * (k - 1)
      BY <2>2, <2>6, Numbers, Times
    <3>2. r - MaxQty * l >= Floor
      BY <2>1, <2>3, <2>4, <3>1, Numbers
    <3> QED
      BY <3>2, CoversFull
  <2> QED
    BY <2>5, <2>6
<1> QED
  BY <1>1, <1>2

\* A request passes the check: there is as much as it asks for.
LEMMA CoversAdmitted ==
  ASSUME NEW s \in Int, NEW c \in Claims, NEW T \in SUBSET Handlers,
         NEW h \in T, s >= c[h]
  PROVE  Covers(s, c, T)
<1>1. Cardinality(T) \in Nat /\ Cardinality(T) <= Cardinality(Handlers)
  BY Counts
<1>2. MaxQty * (Cardinality(T) - 1) <= MaxQty * (Cardinality(Handlers) - 1)
  BY <1>1, Numbers, Times
<1>3. MaxQty * (Cardinality(T) - 1) \in Int /\ c[h] \in Int
  BY <1>1, Numbers DEF Claims
<1>4. s - c[h] - MaxQty * (Cardinality(T) - 1) >= Floor
  BY <1>2, <1>3, Numbers
<1> QED
  BY <1>4 DEF Covers

\* A request takes its units and ends.
LEMMA CoversServed ==
  ASSUME NEW s \in Int, NEW c \in Claims, NEW T \in SUBSET Handlers, Covers(s, c, T),
         NEW h \in T, NEW d \in Claims, \A g \in T \ {h} : d[g] = c[g]
  PROVE  Covers(s - c[h], d, T \ {h})
<1> DEFINE k == Cardinality(T)
           S == T \ {h}
           l == Cardinality(S)
<1>1. PICK w \in T : s - c[w] - MaxQty * (k - 1) >= Floor
  BY DEF Covers
<1>2. k \in Nat /\ l \in Nat /\ l <= k - 1
  BY Counts
<1>3. c[w] \in 0..MaxQty /\ c[h] \in 0..MaxQty
  BY DEF Claims
<1>4. MaxQty * (k - 1) \in Int /\ MaxQty * (l - 1) \in Int /\ MaxQty * l \in Int
  BY <1>2, Numbers
<1>5. MaxQty * l <= MaxQty * (k - 1) /\ MaxQty * l = MaxQty * (l - 1) + MaxQty
  BY <1>2, Numbers, Times
<1>6. CASE w = h
  <2>1. (s - c[h]) - MaxQty * l >= Floor
    BY <1>1, <1>3, <1>4, <1>5, <1>6, Numbers
  <2>2. s - c[h] \in Int
    BY <1>3, Numbers
  <2> QED
    BY <2>1, <2>2, CoversFull
<1>7. CASE w # h
  <2>1. w \in S /\ d[w] = c[w]
    BY <1>7
  <2>2. (s - c[h]) - d[w] - MaxQty * (l - 1) >= Floor
    BY <1>1, <1>3, <1>4, <1>5, <2>1, Numbers
  <2> QED
    BY <2>1, <2>2 DEF Covers
<1> QED
  BY <1>6, <1>7

\* A stock keeper sets a quantity: one request at least takes nothing.
LEMMA CoversSet ==
  ASSUME NEW s \in Nat, NEW c \in Claims, NEW T \in SUBSET Handlers, T # Handlers
  PROVE  Covers(s, c, T)
<1>1. Cardinality(T) \in Nat /\ Cardinality(T) <= Cardinality(Handlers) - 1
  BY Counts
<1>2. MaxQty * Cardinality(T) <= MaxQty * (Cardinality(Handlers) - 1)
  BY <1>1, Numbers, Times
<1>3. s - MaxQty * Cardinality(T) >= Floor
  BY <1>1, <1>2, Numbers
<1> QED
  BY <1>3, CoversFull

-----------------------------------------------------------------------------
(* What each step does to the claims on a part.                            *)

LEMMA ClaimTypes ==
  ASSUME IInv, NEW p \in Parts
  PROVE  Claim(p) \in Claims /\ Taking(p) \in SUBSET Handlers /\ stock[p] \in Int
BY DEF IInv, TypeOK, Cart, Claims, Claim, Taking

LEMMA ClaimTypesNext ==
  ASSUME IInv', NEW p \in Parts
  PROVE  Claim(p)' \in Claims /\ Taking(p)' \in SUBSET Handlers /\ stock'[p] \in Int
BY DEF IInv, TypeOK, Cart, Claims, Claim, Taking

\* A request starts, fails, waits, restocks, or edits or removes a part's row.
LEMMA QuietStep ==
  ASSUME IInv, IInv', NEW p \in Parts, Covers(stock[p], Claim(p), Taking(p)),
         stock'[p] >= stock[p],
         \A g \in Taking(p)' : g \in Taking(p) /\ req'[g] = req[g]
  PROVE  Covers(stock'[p], Claim(p)', Taking(p)')
<1>1. \A g \in Taking(p)' : Claim(p)'[g] = Claim(p)[g]
  BY DEF Claim, Taking
<1>2. Taking(p)' \in SUBSET Taking(p)
  OBVIOUS
<1> QED
  BY <1>1, <1>2, ClaimTypes, ClaimTypesNext, CoversFewer

\* While a request ends, no other one begins to take units.
LEMMA FinishTaking ==
  ASSUME IInv, NEW h \in Handlers, NEW p \in Parts, NEW written, Finish(h, written)
  PROVE  /\ Taking(p)' = Taking(p) \ {h}
         /\ \A g \in Taking(p)' : req'[g] = req[g]
BY DEF IInv, TypeOK, Finish, Taking

LEMMA ValidateCovers ==
  ASSUME IInv, IInv', NEW p \in Parts, Covers(stock[p], Claim(p), Taking(p)),
         NEW h \in Handlers, ValidateCart(h)
  PROVE  Covers(stock'[p], Claim(p)', Taking(p)')
<1>1. /\ pc' = [pc EXCEPT ![h] = "decrement"]
      /\ stock' = stock /\ req' = req
      /\ CartAvailable(req[h].cart)
  BY DEF ValidateCart, db
<1>2. CASE req[h].cart[p] > 0
  <2>1. h \in Taking(p)' /\ Claim(p)'[h] = req[h].cart[p]
    BY <1>1, <1>2 DEF IInv, TypeOK, Taking, Claim
  <2>2. stock'[p] >= Claim(p)'[h]
    BY <1>1, <1>2, <2>1 DEF CartAvailable, PartsOf
  <2> QED
    BY <2>1, <2>2, ClaimTypesNext, CoversAdmitted
<1>3. CASE ~(req[h].cart[p] > 0)
  <2>1. \A g \in Taking(p)' : g \in Taking(p) /\ req'[g] = req[g]
    BY <1>1, <1>3 DEF IInv, TypeOK, Taking
  <2> QED
    BY <1>1, <2>1, ClaimTypes, QuietStep
<1> QED
  BY <1>2, <1>3

LEMMA CommitCovers ==
  ASSUME IInv, IInv', NEW p \in Parts, Covers(stock[p], Claim(p), Taking(p)),
         NEW h \in Handlers, NEW o \in OrderIds, CommitOrder(h, o)
  PROVE  Covers(stock'[p], Claim(p)', Taking(p)')
<1>1. /\ pc[h] = "decrement" /\ want[h] = None
      /\ stock' = [q \in Parts |-> IF q \in held[h] THEN stock[q] - req[h].cart[q] ELSE stock[q]]
      /\ Finish(h, held[h])
  BY DEF CommitOrder
<1>2. Taking(p)' = Taking(p) \ {h} /\ \A g \in Taking(p)' : req'[g] = req[g]
  BY <1>1, FinishTaking
<1>3. p \in held[h] <=> req[h].cart[p] > 0
  BY <1>1 DEF IInv, HandlerShape, WritesDone, PartsOf
<1>4. CASE req[h].cart[p] > 0
  <2>1. h \in Taking(p) /\ Claim(p)[h] = req[h].cart[p]
    BY <1>1, <1>4 DEF Taking, Claim
  <2>2. stock'[p] = stock[p] - Claim(p)[h]
    BY <1>1, <1>3, <1>4, <2>1
  <2>3. \A g \in Taking(p) \ {h} : Claim(p)'[g] = Claim(p)[g]
    BY <1>2 DEF Claim, Taking
  <2>4. Covers(stock[p] - Claim(p)[h], Claim(p)', Taking(p) \ {h})
    BY <2>1, <2>3, ClaimTypes, ClaimTypesNext, CoversServed
  <2> QED
    BY <1>2, <2>2, <2>4
<1>5. CASE ~(req[h].cart[p] > 0)
  <2>1. stock'[p] = stock[p]
    BY <1>1, <1>3, <1>5
  <2>2. stock'[p] >= stock[p]
    BY <2>1, ClaimTypes
  <2>3. \A g \in Taking(p)' : g \in Taking(p) /\ req'[g] = req[g]
    BY <1>2
  <2> QED
    BY <2>2, <2>3, QuietStep
<1> QED
  BY <1>4, <1>5

LEMMA PutCovers ==
  ASSUME IInv, IInv', NEW p \in Parts, Covers(stock[p], Claim(p), Taking(p)),
         NEW h \in Handlers, PutPart(h)
  PROVE  Covers(stock'[p], Claim(p)', Taking(p)')
<1>1. /\ pc[h] = "put" /\ Finish(h, {req[h].part})
      /\ stock' = [stock EXCEPT ![req[h].part] = req[h].qty]
  BY DEF PutPart
<1>2. req[h].part \in Parts /\ req[h].qty \in Nat
  BY <1>1, OrdersAssumption DEF IInv, HandlerShape
<1>3. Taking(p)' = Taking(p) \ {h} /\ \A g \in Taking(p)' : req'[g] = req[g]
  BY <1>1, FinishTaking
<1>4. CASE req[h].part = p
  <2>1. stock'[p] \in Nat
    BY <1>1, <1>2, <1>4 DEF IInv, TypeOK
  <2>2. h \notin Taking(p)'
    BY <1>3
  <2> QED
    BY <2>1, <2>2, ClaimTypesNext, CoversSet
<1>5. CASE req[h].part # p
  <2>1. stock'[p] = stock[p]
    BY <1>1, <1>5 DEF IInv, TypeOK
  <2>2. stock'[p] >= stock[p]
    BY <2>1, ClaimTypes
  <2>3. \A g \in Taking(p)' : g \in Taking(p) /\ req'[g] = req[g]
    BY <1>3
  <2> QED
    BY <2>2, <2>3, QuietStep
<1> QED
  BY <1>4, <1>5

LEMMA CommitStatusCovers ==
  ASSUME IInv, IInv', NEW p \in Parts, Covers(stock[p], Claim(p), Taking(p)),
         NEW h \in Handlers, CommitStatus(h)
  PROVE  Covers(stock'[p], Claim(p)', Taking(p)')
<1>1. /\ stock' = [q \in Parts |-> IF q \in held[h] THEN stock[q] + items[req[h].order][q]
                                                    ELSE stock[q]]
      /\ Finish(h, held[h]) /\ pc[h] = "restock"
  BY DEF CommitStatus
<1>2. items[req[h].order][p] \in Nat
  BY <1>1, Numbers DEF IInv, TypeOK, HandlerShape, Cart
<1>3. stock'[p] >= stock[p]
  BY <1>1, <1>2, ClaimTypes
<1> QED
  BY <1>1, <1>3, FinishTaking, QuietStep

\* Every other step leaves the stock alone.
LEMMA OtherCovers ==
  ASSUME IInv, IInv', NEW p \in Parts, Covers(stock[p], Claim(p), Taking(p)),
         NEW h \in Handlers,
         \/ Receive(h) \/ HandlerFails(h) \/ DeadlockVictim(h)
         \/ RejectCart(h) \/ DecrementPart(h) \/ BeginStatusTx(h) \/ LockOrder(h)
         \/ RejectTransition(h) \/ RestockPart(h) \/ SerializationFailure(h)
         \/ SoftDeletePart(h)
  PROVE  Covers(stock'[p], Claim(p)', Taking(p)')
<1>1. stock' = stock
  BY DEF Receive, ReceivePart, CreateOrder, CancelOrder, UpdateStatus, RefuseStatus, UpdatePart,
         RemovePart, RefusePart, Start, HandlerFails, DeadlockVictim, RejectCart,
         DecrementPart, BeginStatusTx, LockOrder, RejectTransition, RestockPart,
         SerializationFailure, SoftDeletePart, vars, db
<1>2. ASSUME NEW at \in {"validate", "begin", "put", "remove"}, NEW r, Start(h, at, r)
      PROVE  \A g \in Taking(p)' : g \in Taking(p) /\ req'[g] = req[g]
  BY <1>2 DEF Start, Taking, IInv, TypeOK
<1>3. ASSUME NEW written, Finish(h, written)
      PROVE  \A g \in Taking(p)' : g \in Taking(p) /\ req'[g] = req[g]
  BY <1>3, FinishTaking
<1>4. CASE UNCHANGED <<pc, req>>
  <2>1. Taking(p)' = Taking(p) /\ req' = req
    BY <1>4 DEF Taking
  <2>2. stock'[p] >= stock[p]
    BY <1>1, ClaimTypes
  <2> QED
    BY <2>1, <2>2, QuietStep
<1>5. CASE BeginStatusTx(h) \/ LockOrder(h)
  <2>1. req' = req /\ pc[h] # "decrement" /\ \E at \in {"lock", "restock"} : pc' = [pc EXCEPT ![h] = at]
    BY <1>5 DEF BeginStatusTx, LockOrder
  <2>2. \A g \in Taking(p)' : g \in Taking(p) /\ req'[g] = req[g]
    BY <2>1 DEF Taking, IInv, TypeOK
  <2>3. stock'[p] >= stock[p]
    BY <1>1, ClaimTypes
  <2> QED
    BY <2>2, <2>3, QuietStep
<1>6. CASE \E written : Finish(h, written)
  BY <1>1, <1>3, <1>6, ClaimTypes, QuietStep
<1>7. CASE \E at \in {"validate", "begin", "put", "remove"}, r \in {req'[h]} : Start(h, at, r)
  BY <1>1, <1>2, <1>7, ClaimTypes, QuietStep
<1>8. ASSUME Receive(h)
      PROVE  \/ UNCHANGED <<pc, req>>
             \/ \E at \in {"validate", "begin", "put", "remove"} : \E r : Start(h, at, r)
  BY <1>8 DEF Receive, ReceivePart, CreateOrder, CancelOrder, UpdateStatus, RefuseStatus,
              UpdatePart, RemovePart, RefusePart, vars, sessions
<1>9. CASE Receive(h)
  BY <1>1, <1>2, <1>4, <1>8, <1>9, ClaimTypes, QuietStep
<1>10. CASE DecrementPart(h) \/ RestockPart(h)
  BY <1>4, <1>10 DEF DecrementPart, RestockPart
<1>11. CASE HandlerFails(h) \/ DeadlockVictim(h) \/ RejectCart(h) \/ RejectTransition(h)
            \/ SerializationFailure(h) \/ SoftDeletePart(h)
  BY <1>6, <1>11 DEF HandlerFails, DeadlockVictim, RejectCart, RejectTransition,
                     SerializationFailure, SoftDeletePart
<1> QED
  BY <1>5, <1>9, <1>10, <1>11

-----------------------------------------------------------------------------
LEMMA CoveredInit == Init => TakersCovered
<1> SUFFICES ASSUME Init, NEW p \in Parts PROVE Covers(stock[p], Claim(p), Taking(p))
  BY DEF TakersCovered
<1>1. Taking(p) = {}
  BY DEF Init, Taking
<1>2. stock[p] \in Nat
  BY OrdersAssumption DEF Init
<1>3. MaxQty * (Cardinality(Handlers) - 1) >= 0
  BY Numbers
<1> QED
  BY <1>1, <1>2, <1>3, Numbers DEF Covers

LEMMA CoveredNext == IInv /\ IInv' /\ TakersCovered /\ [Next]_vars => TakersCovered'
<1> SUFFICES ASSUME IInv, IInv', TakersCovered, [Next]_vars, NEW p \in Parts
             PROVE  Covers(stock'[p], Claim(p)', Taking(p)')
  BY DEF TakersCovered
<1> Covers(stock[p], Claim(p), Taking(p))
  BY DEF TakersCovered
<1>1. CASE UNCHANGED vars
  <2>1. stock' = stock /\ pc' = pc /\ req' = req
    BY <1>1 DEF vars, db, sessions
  <2>2. Taking(p)' = Taking(p)
    BY <2>1 DEF Taking
  <2> QED
    BY <2>1, <2>2, ClaimTypes, QuietStep
<1>2. ASSUME NEW h \in Handlers, NEW o \in OrderIds, CommitOrder(h, o)
      PROVE  Covers(stock'[p], Claim(p)', Taking(p)')
  BY <1>2, CommitCovers
<1>3. ASSUME NEW h \in Handlers, Work(h) PROVE Covers(stock'[p], Claim(p)', Taking(p)')
  BY <1>3, ValidateCovers, CommitStatusCovers, PutCovers, OtherCovers DEF Work
<1>4. ASSUME NEW h \in Handlers, Receive(h) \/ HandlerFails(h) \/ DeadlockVictim(h)
      PROVE  Covers(stock'[p], Claim(p)', Taking(p)')
  BY <1>4, OtherCovers
<1> QED
  BY <1>1, <1>2, <1>3, <1>4 DEF Next, Progress

\* Concurrent orders never take a part below -(requests in flight - 1) times
\* the most an order may ask for, whatever their number and their quantities
\* (the unlocked stock check of createTransactional).
THEOREM Oversell == Spec => []OversellBounded
<1>1. IInv /\ TakersCovered => OversellBounded
  BY ClaimTypes, CoversFloor DEF TakersCovered, OversellBounded
<1>2. Init => IInv /\ TakersCovered
  BY InvInit, CoveredInit
<1>3. IInv /\ TakersCovered /\ [Next]_vars => IInv' /\ TakersCovered'
  BY InvNext, CoveredNext
<1> QED
  BY <1>1, <1>2, <1>3, PTL DEF Spec
-----------------------------------------------------------------------------
(* The queue of stock checks.                                              *)

\* The jobs of a part, and what is owed to it, in terms the provers can count.
AlertsInv ==
  /\ IInv /\ AlertsTypeOK /\ LowStockHasCheck
  /\ owed \subseteq getLowStockParts

LEMMA AlertsInvInit == AlertsInit => AlertsInv
<1> SUFFICES ASSUME AlertsInit PROVE AlertsInv
  OBVIOUS
<1>1. IInv
  BY InvInit DEF AlertsInit
<1>2. lines \in [OrderIds -> Cart]
  BY OrdersAssumption DEF AlertsInit, NoItems, Cart
<1> QED
  BY <1>1, <1>2 DEF AlertsInit, AlertsInv, AlertsTypeOK, LowStockHasCheck, IInv

\* A crash answers every request at once: what the database committed stays.
LEMMA CrashKeepsInv == IInv /\ Crash => IInv'
<1> SUFFICES ASSUME IInv, Crash PROVE IInv'
  OBVIOUS
<1>1. /\ pc' = [h \in Handlers |-> "idle"] /\ req' = [h \in Handlers |-> Nothing]
      /\ held' = [h \in Handlers |-> {}] /\ want' = [h \in Handlers |-> None]
      /\ stale' = [h \in Handlers |-> {}]
      /\ stock' = stock /\ removed' = removed /\ status' = status /\ items' = items
      /\ supplied' = supplied
  BY DEF Crash, db
<1>2. TypeOK'
  BY <1>1, NothingType DEF IInv, TypeOK, PC, Request
<1>3. LocksExclusive' /\ HandlerShape' /\ DecisionHolds' /\ AbsentIsEmpty'
  BY <1>1 DEF IInv, LocksExclusive, HandlerShape, DecisionHolds, AbsentIsEmpty
<1> QED
  BY <1>2, <1>3 DEF IInv

\* A request of the API takes a step: a check it owes is on its way.
LEMMA RequestKeepsChecks ==
  ASSUME AlertsInv, IInv',
         \E h \in Handlers : ServeRequest(h) \/ \E o \in OrderIds : PlaceOrder(h, o)
  PROVE  AlertsInv'
<1>1. /\ jobs' = jobs /\ active' = active /\ lost' = lost
      /\ owed' \subseteq getLowStockParts' /\ owed' \subseteq Parts
  BY DEF ServeRequest, PlaceOrder, StillOwed, alerting, getLowStockParts
<1>2. /\ lines' \in [OrderIds -> Cart]
      /\ calls' \in [Parts -> Nat]
      /\ \A p \in Parts : calls'[p] >= calls[p]
      /\ \A p \in owed' : p \notin owed => calls'[p] > 0
  <2>1. CASE \E h \in Handlers : ServeRequest(h)
    BY <2>1 DEF ServeRequest, StillOwed, alerting, AlertsInv, AlertsTypeOK
  <2>2. ASSUME NEW h \in Handlers, NEW o \in OrderIds, PlaceOrder(h, o)
        PROVE  <1>2!1 /\ <1>2!2 /\ <1>2!3 /\ <1>2!4
    <3>1. PICK rows \in Itemised(req[h].cart) :
            /\ lines' = [lines EXCEPT ![o] = rows]
            /\ calls' = [p \in Parts |-> calls[p] + rows[p]]
      BY <2>2 DEF PlaceOrder
    <3>2. /\ \A p \in Parts : rows[p] \in Nat
          /\ \A p \in PartsOf(req[h].cart) : rows[p] > 0
      BY OrdersAssumption DEF Itemised, Cart, PartsOf
    <3>3. lines' \in [OrderIds -> Cart]
      BY <3>1 DEF Itemised, AlertsInv, AlertsTypeOK
    <3>4. \A p \in owed' : p \notin owed => p \in PartsOf(req[h].cart)
      BY <2>2 DEF PlaceOrder, StillOwed
    <3> QED
      BY <3>1, <3>2, <3>3, <3>4 DEF AlertsInv, AlertsTypeOK, PartsOf
  <2> QED
    BY <2>1, <2>2
<1>3. AlertsTypeOK'
  BY <1>1, <1>2 DEF AlertsInv, AlertsTypeOK, IInv
<1>4. ASSUME NEW p \in owed' PROVE CheckPending(p)' \/ p \in lost'
  <2>1. CASE p \in owed
    BY <1>1, <1>2, <2>1 DEF AlertsInv, AlertsTypeOK, LowStockHasCheck, CheckPending
  <2>2. CASE p \notin owed
    BY <1>2, <2>2 DEF CheckPending
  <2> QED
    BY <2>1, <2>2
<1> QED
  BY <1>1, <1>3, <1>4 DEF AlertsInv, LowStockHasCheck

\* Redis and the worker pass a check on, or the failure is remembered.
LEMMA QueueKeepsChecks ==
  ASSUME AlertsInv, UNCHANGED vars,
         \/ \E q \in Parts : AddJob(q) \/ AddFails(q)
         \/ TakeJob \/ CheckStock \/ CheckFails
  PROVE  AlertsInv'
<1>1. IInv' /\ getLowStockParts' = getLowStockParts
  <2>1. stock' = stock /\ removed' = removed
    BY DEF vars, db
  <2> QED
    BY <2>1, InvNext DEF AlertsInv, getLowStockParts
<1>2. TypeOK' /\ lines' \in [OrderIds -> Cart]
  BY <1>1 DEF IInv, AlertsInv, AlertsTypeOK, AddJob, AddFails, TakeJob, CheckStock, CheckFails
<1>3. /\ calls \in [Parts -> Nat] /\ jobs \in Seq(Parts) /\ active \in Parts \cup {None}
      /\ owed \in SUBSET Parts /\ lost \in SUBSET Parts /\ None \notin Parts
      /\ owed \subseteq getLowStockParts
      /\ \A p \in owed : CheckPending(p) \/ p \in lost
  BY OrdersAssumption DEF AlertsInv, AlertsTypeOK, LowStockHasCheck
<1>4. ASSUME NEW q \in Parts, AddJob(q) PROVE AlertsInv'
  <2>1. /\ calls[q] > 0 /\ calls' = [calls EXCEPT ![q] = @ - 1] /\ jobs' = Append(jobs, q)
        /\ active' = active /\ owed' = owed /\ lost' = lost
    BY <1>4 DEF AddJob
  <2>2. /\ calls' \in [Parts -> Nat] /\ jobs' \in Seq(Parts)
        /\ DOMAIN jobs' = 1..(Len(jobs) + 1) /\ jobs'[Len(jobs) + 1] = q
        /\ \A i \in DOMAIN jobs : i \in DOMAIN jobs' /\ jobs'[i] = jobs[i]
    BY <1>3, <2>1
  <2>3. \A p \in owed' : CheckPending(p)' \/ p \in lost'
    BY <1>3, <2>1, <2>2 DEF CheckPending
  <2> QED
    BY <1>1, <1>2, <1>3, <2>1, <2>2, <2>3 DEF AlertsInv, AlertsTypeOK, LowStockHasCheck
<1>5. ASSUME NEW q \in Parts, AddFails(q) PROVE AlertsInv'
  <2>1. /\ calls[q] > 0 /\ calls' = [calls EXCEPT ![q] = @ - 1] /\ jobs' = jobs
        /\ active' = active /\ owed' = owed /\ lost' = lost \cup {q}
    BY <1>5 DEF AddFails
  <2>2. calls' \in [Parts -> Nat]
    BY <1>3, <2>1
  <2>3. \A p \in owed' : CheckPending(p)' \/ p \in lost'
    BY <1>3, <2>1 DEF CheckPending
  <2> QED
    BY <1>1, <1>2, <1>3, <2>1, <2>2, <2>3 DEF AlertsInv, AlertsTypeOK, LowStockHasCheck
<1>6. CASE TakeJob
  <2>1. /\ active = None /\ jobs # <<>> /\ active' = Head(jobs) /\ jobs' = Tail(jobs)
        /\ calls' = calls /\ owed' = owed /\ lost' = lost
    BY <1>6 DEF TakeJob
  <2>2. /\ jobs' \in Seq(Parts) /\ active' \in Parts /\ active' = jobs[1]
        /\ \A i \in DOMAIN jobs : i # 1 => i - 1 \in DOMAIN jobs' /\ jobs'[i - 1] = jobs[i]
    BY <1>3, <2>1
  <2>3. \A p \in owed' : CheckPending(p)' \/ p \in lost'
    BY <1>3, <2>1, <2>2 DEF CheckPending
  <2> QED
    BY <1>1, <1>2, <1>3, <2>1, <2>2, <2>3 DEF AlertsInv, AlertsTypeOK, LowStockHasCheck
\* The part that is read is owed an alert only while it is on the list: it is low.
<1>7. CASE CheckStock
  <2>1. /\ active # None /\ active' = None /\ calls' = calls /\ jobs' = jobs /\ lost' = lost
        /\ owed' = IF AlertDue(active) THEN owed \ {active} ELSE owed
    BY <1>7 DEF CheckStock
  <2>2. owed' \subseteq owed /\ active \notin owed'
    BY <1>3, <2>1 DEF getLowStockParts, AlertDue
  <2>3. \A p \in owed' : CheckPending(p)' \/ p \in lost'
    BY <1>3, <2>1, <2>2 DEF CheckPending
  <2> QED
    BY <1>1, <1>2, <1>3, <2>1, <2>2, <2>3 DEF AlertsInv, AlertsTypeOK, LowStockHasCheck
<1>8. CASE CheckFails
  <2>1. /\ active # None /\ active' = None /\ calls' = calls /\ jobs' = jobs
        /\ owed' = owed /\ lost' = lost \cup {active}
    BY <1>8 DEF CheckFails
  <2>2. \A p \in owed' : CheckPending(p)' \/ p \in lost'
    BY <1>3, <2>1 DEF CheckPending
  <2> QED
    BY <1>1, <1>2, <1>3, <2>1, <2>2 DEF AlertsInv, AlertsTypeOK, LowStockHasCheck
<1> QED
  BY <1>4, <1>5, <1>6, <1>7, <1>8

LEMMA CrashKeepsChecks == AlertsInv /\ Crash => AlertsInv'
<1> SUFFICES ASSUME AlertsInv, Crash PROVE AlertsInv'
  OBVIOUS
<1>1. IInv' /\ getLowStockParts' = getLowStockParts /\ owed' = owed
  <2>1. stock' = stock /\ removed' = removed
    BY DEF Crash, db
  <2> QED
    BY <2>1, CrashKeepsInv DEF AlertsInv, getLowStockParts, Crash
<1>2. /\ calls' = [p \in Parts |-> 0] /\ active' = None /\ lines' \in [OrderIds -> Cart]
      /\ jobs \in Seq(Parts) /\ owed \in SUBSET Parts
      /\ \A p \in owed : CheckPending(p) \/ p \in lost
  BY DEF AlertsInv, AlertsTypeOK, LowStockHasCheck, Crash
<1>3. /\ jobs' \in Seq(Parts) /\ lost' \in SUBSET Parts /\ lost \subseteq lost'
      /\ \A p \in Parts : calls[p] > 0 => p \in lost'
      /\ \A i \in DOMAIN jobs : \E j \in DOMAIN jobs' : jobs'[j] = jobs[i]
      /\ active \in Parts => active \in lost' \/ \E j \in DOMAIN jobs' : jobs'[j] = active
  <2>1. CASE jobs' = jobs /\ lost' = lost \cup {p \in Parts : calls[p] > 0 \/ p = active}
    BY <1>2, <2>1 DEF AlertsInv, AlertsTypeOK
  <2>2. CASE /\ jobs' = IF active = None THEN jobs ELSE <<active>> \o jobs
             /\ lost' = lost \cup {p \in Parts : calls[p] > 0}
    <3>1. CASE active = None
      BY <1>2, <2>2, <3>1, OrdersAssumption DEF AlertsInv, AlertsTypeOK
    <3>2. CASE active # None
      <4>1. active \in Parts
        BY <3>2 DEF AlertsInv, AlertsTypeOK
      <4>2. <<active>> \in Seq(Parts) /\ jobs' = <<active>> \o jobs
        BY <2>2, <3>2, <4>1
      <4>3. /\ jobs' \in Seq(Parts) /\ DOMAIN jobs' = 1..(Len(jobs) + 1) /\ jobs'[1] = active
            /\ \A i \in DOMAIN jobs : jobs'[i + 1] = jobs[i]
        BY <1>2, <4>2
      <4>4. \A i \in DOMAIN jobs : i + 1 \in DOMAIN jobs'
        BY <1>2, <4>3
      <4>5. 1 \in DOMAIN jobs'
        BY <1>2, <4>3
      <4> QED
        BY <1>2, <2>2, <4>3, <4>4, <4>5 DEF AlertsInv, AlertsTypeOK
    <3> QED
      BY <3>1, <3>2
  <2> QED
    BY <2>1, <2>2 DEF Crash
<1>4. \A p \in owed' : CheckPending(p)' \/ p \in lost'
  BY <1>1, <1>2, <1>3 DEF CheckPending
<1> QED
  BY <1>1, <1>2, <1>3, <1>4 DEF AlertsInv, AlertsTypeOK, LowStockHasCheck, IInv

LEMMA AlertsInvNext == AlertsInv /\ [AlertsNext]_allVars => AlertsInv'
<1> SUFFICES ASSUME AlertsInv, [AlertsNext]_allVars PROVE AlertsInv'
  OBVIOUS
<1>1. CASE UNCHANGED allVars
  <2>1. /\ UNCHANGED vars /\ stock' = stock /\ removed' = removed /\ lines' = lines
        /\ calls' = calls /\ jobs' = jobs /\ active' = active /\ lost' = lost /\ owed' = owed
    BY <1>1 DEF allVars, alerting, vars, db
  <2>2. IInv'
    BY <2>1, InvNext DEF AlertsInv
  <2> QED
    BY <2>1, <2>2 DEF AlertsInv, AlertsTypeOK, LowStockHasCheck, CheckPending,
                      getLowStockParts, IInv
<1>2. ASSUME NEW h \in Handlers, ServeRequest(h) \/ \E o \in OrderIds : PlaceOrder(h, o)
      PROVE  AlertsInv'
  <2>1. Next
    BY <1>2 DEF ServeRequest, PlaceOrder, Next, Progress
  <2> QED
    BY <1>2, <2>1, InvNext, RequestKeepsChecks DEF AlertsInv
<1>3. CASE \/ \E q \in Parts : AddJob(q) \/ AddFails(q)
           \/ TakeJob \/ CheckStock \/ CheckFails
  <2>1. UNCHANGED vars
    BY <1>3 DEF AddJob, AddFails, TakeJob, CheckStock, CheckFails
  <2> QED
    BY <1>3, <2>1, QueueKeepsChecks
<1> QED
  BY <1>1, <1>2, <1>3, CrashKeepsChecks DEF AlertsNext

\* Requests, the queue and the worker keep their state well-formed, also when
\* the process crashes with transactions open and checks unsent.
THEOREM AlertsTypeCorrect == AlertsSpec => []AlertsTypeOK
<1>1. AlertsInv => AlertsTypeOK
  BY DEF AlertsInv
<1> QED
  BY <1>1, AlertsInvInit, AlertsInvNext, PTL DEF AlertsSpec

\* A part that an order leaves low is never forgotten silently: while it is owed
\* an alert, a check for it is on its way, or one was dropped by a failure
\* (OrdersService.create, StockJobs.checkStock and StockProcessor).
THEOREM LowStockRemembered == AlertsSpec => []LowStockHasCheck
<1>1. AlertsInv => LowStockHasCheck
  BY DEF AlertsInv
<1> QED
  BY <1>1, AlertsInvInit, AlertsInvNext, PTL DEF AlertsSpec

-----------------------------------------------------------------------------
(* How many checks there are.                                              *)

LEMMA PlacesCounted ==
  ASSUME NEW S, NEW s \in Seq(S), NEW p
  PROVE  IsFiniteSet(Places(s, p)) /\ Cardinality(Places(s, p)) \in Nat
<1>1. Places(s, p) \in SUBSET (1..Len(s)) /\ Len(s) \in Int
  BY DEF Places
<1>2. IsFiniteSet(1..Len(s))
  BY <1>1, FS_Interval
<1> QED
  BY <1>1, <1>2, FS_Subset, FS_CardinalityType

\* One job more at the end of a list.
LEMMA PlacesAfterAppend ==
  ASSUME NEW S, NEW s \in Seq(S), NEW q \in S, NEW p
  PROVE  Cardinality(Places(Append(s, q), p))
           = Cardinality(Places(s, p)) + (IF q = p THEN 1 ELSE 0)
<1>1. Len(s) + 1 \notin Places(s, p)
  BY DEF Places
<1>2. Places(Append(s, q), p)
        = IF q = p THEN Places(s, p) \cup {Len(s) + 1} ELSE Places(s, p)
  BY DEF Places
<1>3. IsFiniteSet(Places(s, p)) /\ Cardinality(Places(s, p)) \in Nat
  BY PlacesCounted
<1>4. Cardinality(Places(s, p) \cup {Len(s) + 1}) = Cardinality(Places(s, p)) + 1
  BY <1>1, <1>3, FS_AddElement
<1> QED
  BY <1>2, <1>3, <1>4

\* A part's places move up by one, and the first is gone when the job was its own.
LEMMA PlacesAfterTail ==
  ASSUME NEW S, NEW s \in Seq(S), s # <<>>, NEW p
  PROVE  Cardinality(Places(s, p))
           = Cardinality(Places(Tail(s), p)) + (IF Head(s) = p THEN 1 ELSE 0)
<1> DEFINE later == Places(s, p) \ {1}
           up == [i \in later |-> i - 1]
<1>1. Len(s) \in Nat \ {0} /\ Tail(s) \in Seq(S) /\ Len(Tail(s)) = Len(s) - 1
      /\ Head(s) = s[1] /\ \A i \in 1..Len(Tail(s)) : Tail(s)[i] = s[i + 1]
  OBVIOUS
<1>2. up \in Bijection(later, Places(Tail(s), p))
  <2>1. up \in [later -> Places(Tail(s), p)]
    BY <1>1 DEF Places
  <2>2. \A i, j \in later : up[i] = up[j] => i = j
    BY <1>1 DEF Places
  <2>3. \A k \in Places(Tail(s), p) : k + 1 \in later /\ up[k + 1] = k
    BY <1>1 DEF Places
  <2>4. \A k \in Places(Tail(s), p) : \E i \in later : up[i] = k
    BY <2>3
  <2> HIDE DEF up, later
  <2>5. DOMAIN up = later
    BY <2>1
  <2> QED
    BY <2>1, <2>2, <2>4, <2>5 DEF Bijection, Injection, Surjection, IsInjective
<1>3. IsFiniteSet(later) /\ IsFiniteSet(Places(s, p))
      /\ Cardinality(later) = IF 1 \in Places(s, p) THEN Cardinality(Places(s, p)) - 1
                                                    ELSE Cardinality(Places(s, p))
  BY PlacesCounted, FS_RemoveElement
<1>4. Cardinality(Places(Tail(s), p)) = Cardinality(later)
  <2>1. ExistsBijection(later, Places(Tail(s), p))
    BY <1>2, Zenon DEF ExistsBijection
  <2> HIDE DEF later
  <2> QED
    BY <1>3, <2>1, FS_Bijection
<1>5. 1 \in Places(s, p) <=> Head(s) = p
  BY <1>1 DEF Places
<1> QED
  BY <1>3, <1>4, <1>5, PlacesCounted

\* A job put in front moves the others down by one.
LEMMA PlacesAfterPrepend ==
  ASSUME NEW S, NEW s \in Seq(S), NEW q \in S, NEW p
  PROVE  Cardinality(Places(<<q>> \o s, p))
           = Cardinality(Places(s, p)) + (IF q = p THEN 1 ELSE 0)
<1> DEFINE longer == <<q>> \o s
<1>1. <<q>> \in Seq(S) /\ longer \in Seq(S)
  OBVIOUS
<1>2. /\ Len(longer) = Len(s) + 1 /\ longer[1] = q
      /\ \A i \in 1..Len(s) : longer[i + 1] = s[i]
  BY <1>1
<1>3. longer # <<>> /\ Head(longer) = q /\ Tail(longer) = s
  <2>1. longer # <<>> /\ Head(longer) = q
    BY <1>1, <1>2
  <2>2. Tail(longer) \in Seq(S) /\ Len(Tail(longer)) = Len(s)
        /\ \A i \in 1..Len(s) : Tail(longer)[i] = s[i]
    BY <1>1, <1>2, <2>1
  <2> HIDE DEF longer
  <2>3. Tail(longer) = s
    BY <2>2
  <2> QED
    BY <2>1, <2>3
<1> HIDE DEF longer
<1>4. Cardinality(Places(longer, p))
        = Cardinality(Places(Tail(longer), p)) + (IF Head(longer) = p THEN 1 ELSE 0)
  BY <1>1, <1>3, PlacesAfterTail
<1> QED
  BY <1>3, <1>4 DEF longer

LEMMA ItemsCounted ==
  ASSUME NEW p
  PROVE  IsFiniteSet(ItemsOf(p)) /\ Cardinality(ItemsOf(p)) \in Nat
<1>1. IsFiniteSet(OrderIds) /\ IsFiniteSet(1..MaxQty)
  BY OrdersAssumption, FS_Interval
<1>2. IsFiniteSet(OrderIds \X (1..MaxQty))
  BY <1>1, FS_Product
<1>3. ItemsOf(p) \in SUBSET (OrderIds \X (1..MaxQty))
  BY DEF ItemsOf
<1> QED
  BY <1>2, <1>3, FS_Subset, FS_CardinalityType

\* An order has no more items with a part than units of it.
LinesFit == \A o \in OrderIds, p \in Parts : lines[o][p] <= items[o][p]

\* An order that commits calls checkStock once for each of its items.
LEMMA PlaceOrderBound ==
  ASSUME AlertsInv, LinesFit, ChecksBounded,
         NEW h \in Handlers, NEW o \in OrderIds, PlaceOrder(h, o)
  PROVE  LinesFit' /\ ChecksBounded'
<1>1. PICK rows \in Itemised(req[h].cart) :
        /\ lines' = [lines EXCEPT ![o] = rows]
        /\ calls' = [p \in Parts |-> calls[p] + rows[p]]
  BY DEF PlaceOrder
<1>2. /\ items[o] = NoItems /\ items' = [items EXCEPT ![o] = req[h].cart]
      /\ items \in [OrderIds -> Cart] /\ lines \in [OrderIds -> Cart]
      /\ jobs' = jobs /\ active' = active
  BY DEF PlaceOrder, CommitOrder, AlertsInv, AlertsTypeOK, IInv, AbsentIsEmpty, TypeOK
<1>3. /\ rows \in Cart /\ \A p \in Parts : rows[p] \in 0..MaxQty /\ rows[p] <= req[h].cart[p]
      /\ MaxQty \in Nat
  BY OrdersAssumption DEF Itemised, Cart
<1>4. LinesFit'
  BY <1>1, <1>2, <1>3 DEF LinesFit
<1>5. ASSUME NEW p \in Parts
      PROVE  calls'[p] + Cardinality(Places(jobs', p)) + (IF active' = p THEN 1 ELSE 0)
               <= Cardinality(ItemsOf(p)')
  <2>1. lines[o][p] \in 0..MaxQty /\ lines[o][p] <= 0
    BY <1>2 DEF LinesFit, NoItems, Cart
  <2>2. ItemsOf(p) \cap Block(o, rows[p]) = {}
    BY <2>1, <1>3 DEF ItemsOf, Block
  <2>3. ItemsOf(p)' = ItemsOf(p) \cup Block(o, rows[p])
    <3>1. \A u \in OrderIds \X (1..MaxQty) :
            u[2] <= lines'[u[1]][p] <=> u \in ItemsOf(p) \/ u \in Block(o, rows[p])
      <4> SUFFICES ASSUME NEW q \in OrderIds, NEW n \in 1..MaxQty
                   PROVE  n <= lines'[q][p] <=>
                            n <= lines[q][p] \/ (q = o /\ n \in 1..rows[p])
        BY DEF ItemsOf, Block
      <4>1. CASE q = o
        BY <1>1, <1>2, <1>3, <2>1, <4>1
      <4>2. CASE q # o
        BY <1>1, <1>2, <4>2
      <4> QED
        BY <4>1, <4>2
    <3>2. /\ ItemsOf(p)' \subseteq OrderIds \X (1..MaxQty)
          /\ ItemsOf(p) \subseteq OrderIds \X (1..MaxQty)
          /\ Block(o, rows[p]) \subseteq OrderIds \X (1..MaxQty)
      BY <1>3 DEF ItemsOf, Block
    <3>3. \A u \in OrderIds \X (1..MaxQty) : u \in ItemsOf(p)' <=> u[2] <= lines'[u[1]][p]
      BY DEF ItemsOf
    <3> QED
      BY <3>1, <3>2, <3>3
  <2>4. /\ calls[p] \in Nat /\ Cardinality(Places(jobs, p)) \in Nat
        /\ Cardinality(ItemsOf(p)) \in Nat /\ rows[p] \in Nat
        /\ IsFiniteSet(ItemsOf(p))
    BY <1>3, PlacesCounted, ItemsCounted DEF AlertsInv, AlertsTypeOK
  <2>5. calls[p] + Cardinality(Places(jobs, p)) + (IF active = p THEN 1 ELSE 0)
          <= Cardinality(ItemsOf(p))
    BY DEF ChecksBounded
  <2>6. calls'[p] = calls[p] + rows[p]
    BY <1>1
  <2>7. Cardinality(ItemsOf(p)') = Cardinality(ItemsOf(p)) + rows[p]
    BY <2>2, <2>3, <2>4, AddBlock
  <2> QED
    BY <1>2, <2>4, <2>5, <2>6, <2>7
<1> QED
  BY <1>4, <1>5 DEF ChecksBounded

\* Nothing else changes the items of an order.
LEMMA ItemsStay ==
  ASSUME NEW h \in Handlers, Receive(h) \/ Work(h) \/ HandlerFails(h) \/ DeadlockVictim(h)
  PROVE  items' = items
BY DEF Receive, ReceivePart, CreateOrder, CancelOrder, UpdateStatus, RefuseStatus,
       UpdatePart, RemovePart, RefusePart, Start, HandlerFails, DeadlockVictim, vars, db,
       Work, ValidateCart, RejectCart, DecrementPart, BeginStatusTx, LockOrder,
       RejectTransition, RestockPart, SerializationFailure, PutPart, SoftDeletePart,
       CommitStatus

\* A check passes from the call to the list, from there to the worker, and ends.
LEMMA QueueBound ==
  ASSUME AlertsInv, ChecksBounded, lines' = lines,
         \/ \E q \in Parts : AddJob(q) \/ AddFails(q)
         \/ TakeJob \/ CheckStock \/ CheckFails \/ Crash
  PROVE  ChecksBounded'
<1> SUFFICES ASSUME NEW p \in Parts
             PROVE  calls'[p] + Cardinality(Places(jobs', p)) + (IF active' = p THEN 1 ELSE 0)
                      <= Cardinality(ItemsOf(p))
  BY DEF ChecksBounded, ItemsOf
<1> DEFINE n == Cardinality(Places(jobs, p))
<1>1. /\ calls \in [Parts -> Nat] /\ jobs \in Seq(Parts) /\ active \in Parts \cup {None}
      /\ None \notin Parts
  BY OrdersAssumption DEF AlertsInv, AlertsTypeOK
<1>2. calls[p] + n + (IF active = p THEN 1 ELSE 0) <= Cardinality(ItemsOf(p))
  BY DEF ChecksBounded
<1>3. calls[p] \in Nat /\ n \in Nat /\ Cardinality(ItemsOf(p)) \in Nat
  BY <1>1, PlacesCounted, ItemsCounted
<1>4. ASSUME NEW q \in Parts, AddJob(q)
      PROVE  calls'[p] + Cardinality(Places(jobs', p)) + (IF active' = p THEN 1 ELSE 0)
               <= Cardinality(ItemsOf(p))
  <2>1. /\ calls'[p] = IF q = p THEN calls[p] - 1 ELSE calls[p]
        /\ jobs' = Append(jobs, q) /\ active' = active
    BY <1>1, <1>4 DEF AddJob
  <2>2. Cardinality(Places(Append(jobs, q), p)) = n + (IF q = p THEN 1 ELSE 0)
    BY <1>1, PlacesAfterAppend
  <2> HIDE DEF n
  <2> QED
    BY <1>2, <1>3, <2>1, <2>2
<1>5. ASSUME NEW q \in Parts, AddFails(q)
      PROVE  calls'[p] + Cardinality(Places(jobs', p)) + (IF active' = p THEN 1 ELSE 0)
               <= Cardinality(ItemsOf(p))
  <2>1. /\ calls'[p] = IF q = p THEN calls[p] - 1 ELSE calls[p]
        /\ jobs' = jobs /\ active' = active
    BY <1>1, <1>5 DEF AddFails
  <2> QED
    BY <1>2, <1>3, <2>1
<1>6. CASE TakeJob
  <2>1. /\ calls' = calls /\ active = None /\ jobs # <<>>
        /\ jobs' = Tail(jobs) /\ active' = Head(jobs)
    BY <1>6 DEF TakeJob
  <2>2. n = Cardinality(Places(Tail(jobs), p)) + (IF Head(jobs) = p THEN 1 ELSE 0)
    BY <1>1, <2>1, PlacesAfterTail
  <2>3. Tail(jobs) \in Seq(Parts)
    BY <1>1, <2>1
  <2>4. Cardinality(Places(Tail(jobs), p)) \in Nat
    BY <2>3, PlacesCounted
  <2> HIDE DEF n
  <2> QED
    BY <1>1, <1>2, <1>3, <2>1, <2>2, <2>4
<1>7. CASE CheckStock \/ CheckFails
  <2>1. calls' = calls /\ jobs' = jobs /\ active' = None
    BY <1>7 DEF CheckStock, CheckFails
  <2> QED
    BY <1>1, <1>2, <1>3, <2>1
<1>8. CASE Crash
  <2>1. /\ calls'[p] = 0 /\ active' = None
        /\ \/ jobs' = jobs
           \/ active # None /\ jobs' = <<active>> \o jobs
    BY <1>8 DEF Crash
  <2>2. ASSUME active # None
        PROVE  Cardinality(Places(<<active>> \o jobs, p)) = n + (IF active = p THEN 1 ELSE 0)
    <3>1. active \in Parts
      BY <1>1, <2>2
    <3> QED
      BY <1>1, <3>1, PlacesAfterPrepend
  <2> HIDE DEF n
  <2>3. CASE jobs' = jobs
    BY <1>1, <1>2, <1>3, <2>1, <2>3 DEF n
  <2>4. CASE active # None /\ jobs' = <<active>> \o jobs
    BY <1>1, <1>2, <1>3, <2>1, <2>2, <2>4
  <2> QED
    BY <2>1, <2>3, <2>4
<1> QED
  BY <1>4, <1>5, <1>6, <1>7, <1>8

LEMMA BoundStep ==
  AlertsInv /\ LinesFit /\ ChecksBounded /\ [AlertsNext]_allVars => LinesFit' /\ ChecksBounded'
<1> SUFFICES ASSUME AlertsInv, LinesFit, ChecksBounded, [AlertsNext]_allVars
             PROVE  LinesFit' /\ ChecksBounded'
  OBVIOUS
<1>1. ASSUME UNCHANGED <<calls, jobs, active>>, lines' = lines PROVE ChecksBounded'
  BY <1>1 DEF ChecksBounded, ItemsOf
<1>2. ASSUME lines' = lines, items' = items PROVE LinesFit'
  BY <1>2 DEF LinesFit
<1>3. CASE UNCHANGED allVars
  BY <1>1, <1>2, <1>3 DEF allVars, alerting, vars, db
<1>4. ASSUME NEW h \in Handlers, ServeRequest(h) PROVE LinesFit' /\ ChecksBounded'
  BY <1>1, <1>2, <1>4, ItemsStay DEF ServeRequest, alerting
<1>5. ASSUME NEW h \in Handlers, NEW o \in OrderIds, PlaceOrder(h, o)
      PROVE  LinesFit' /\ ChecksBounded'
  BY <1>5, PlaceOrderBound
<1>6. CASE \/ \E q \in Parts : AddJob(q) \/ AddFails(q)
           \/ TakeJob \/ CheckStock \/ CheckFails \/ Crash
  <2>1. items' = items /\ lines' = lines
    BY <1>6 DEF AddJob, AddFails, TakeJob, CheckStock, CheckFails, Crash, vars, db
  <2> QED
    BY <1>2, <1>6, <2>1, QueueBound
<1> QED
  BY <1>3, <1>4, <1>5, <1>6 DEF AlertsNext

\* A part never has more checks on their way than committed orders have items with
\* it: none is queued for an order that was rolled back and none is repeated, whatever the
\* interleaving and however often the process crashes.
THEOREM ChecksOfOrders == AlertsSpec => []ChecksBounded
<1>1. AlertsInit => ChecksBounded
  <2> SUFFICES ASSUME AlertsInit, NEW p \in Parts
               PROVE  calls[p] + Cardinality(Places(jobs, p)) + (IF active = p THEN 1 ELSE 0)
                        <= Cardinality(ItemsOf(p))
    BY DEF ChecksBounded
  <2>1. calls[p] = 0 /\ jobs = <<>> /\ active # p
    BY OrdersAssumption DEF AlertsInit
  <2>2. Places(<<>>, p) = {}
    BY DEF Places
  <2>3. Cardinality(Places(jobs, p)) = 0
    BY <2>1, <2>2, FS_EmptySet
  <2>4. AlertsInv
    BY AlertsInvInit
  <2>5. Cardinality(ItemsOf(p)) \in Nat /\ Cardinality(ItemsOf(p)) >= 0
    BY <2>4, ItemsCounted
  <2> QED
    BY <2>1, <2>3, <2>5
<1>2. AlertsInit => LinesFit
  BY DEF AlertsInit, Init, LinesFit, NoItems
<1> QED
  BY <1>1, <1>2, AlertsInvInit, AlertsInvNext, BoundStep, PTL DEF AlertsSpec

-----------------------------------------------------------------------------
(* What orders promise holds with the queue beside them and through any    *)
(* number of crashes: a crash ends every request and keeps what committed. *)

LEMMA StepOrCrash == [AlertsNext]_allVars => [Next]_vars \/ Crash
BY DEF AlertsNext, ServeRequest, PlaceOrder, AddJob, AddFails, TakeJob, CheckStock, CheckFails,
       Next, Progress, allVars

LEMMA AlertsLedgerStep == AlertsInv /\ [AlertsNext]_allVars => [Ledger!Next]_(Ledger!vars)
<1>1. Crash => UNCHANGED Ledger!vars
  BY DEF Crash, db, Ledger!vars
<1> QED
  BY <1>1, StepOrCrash, LedgerStep DEF AlertsInv

\* Orders implement the ledger although the process crashes at any point: a
\* transaction that was open leaves no trace, one that committed stays.
THEOREM LedgerThroughCrashes == AlertsSpec => ImplementsLedger
<1>1. AlertsInit => Ledger!Init
  BY LedgerInit DEF AlertsInit
<1> QED
  BY <1>1, AlertsLedgerStep, AlertsInvInit, AlertsInvNext, PTL
     DEF AlertsSpec, ImplementsLedger, Ledger!Spec

\* No crash loses a unit or gives one back twice.
THEOREM ConservedThroughCrashes == AlertsSpec => []Conservation
<1>1. AlertsInit => Conservation
  BY ConservationInit DEF AlertsInit
<1>2. AlertsInv /\ Conservation /\ [AlertsNext]_allVars => Conservation'
  <2> SUFFICES ASSUME AlertsInv, Conservation, [AlertsNext]_allVars PROVE Conservation'
    OBVIOUS
  <2>1. CASE Crash
    <3>1. stock' = stock /\ supplied' = supplied /\ status' = status /\ items' = items
      BY <2>1 DEF Crash, db
    <3> QED
      BY <3>1, SameCount DEF Conservation, Ledger!Conservation, Ledger!UnitsOut
  <2> QED
    BY <2>1, StepOrCrash, ConservationStep DEF AlertsInv
<1> QED
  BY <1>1, <1>2, AlertsInvInit, AlertsInvNext, PTL DEF AlertsSpec

\* Nor does a crash let orders take more than the requests in flight could ask for.
THEOREM OversellThroughCrashes == AlertsSpec => []OversellBounded
<1>1. AlertsInit => TakersCovered
  BY CoveredInit DEF AlertsInit
<1>2. AlertsInv /\ TakersCovered => OversellBounded
  BY ClaimTypes, CoversFloor DEF TakersCovered, OversellBounded, AlertsInv
<1>3. AlertsInv /\ AlertsInv' /\ TakersCovered /\ [AlertsNext]_allVars => TakersCovered'
  <2> SUFFICES ASSUME AlertsInv, AlertsInv', TakersCovered, [AlertsNext]_allVars
               PROVE  TakersCovered'
    OBVIOUS
  <2>1. CASE Crash
    <3> SUFFICES ASSUME NEW p \in Parts PROVE Covers(stock'[p], Claim(p)', Taking(p)')
      BY DEF TakersCovered
    <3>1. stock' = stock /\ Taking(p)' = {}
      BY <2>1 DEF Crash, db, Taking
    <3>2. stock[p] >= Floor
      BY <1>2 DEF OversellBounded
    <3> QED
      BY <3>1, <3>2 DEF Covers
  <2> QED
    BY <2>1, StepOrCrash, CoveredNext DEF AlertsInv
<1> QED
  BY <1>1, <1>2, <1>3, AlertsInvInit, AlertsInvNext, PTL DEF AlertsSpec

\* One request at a time sells nothing that is not there: what the oversell run
\* refutes for two requests holds for one, also across crashes.
THEOREM Sequential ==
  ASSUME Cardinality(Handlers) = 1
  PROVE  AlertsSpec => []NoOversell
<1>1. Floor = 0
  BY Numbers
<1>2. AlertsInv /\ OversellBounded => NoOversell
  BY <1>1 DEF OversellBounded, NoOversell
<1> QED
  BY <1>2, OversellThroughCrashes, AlertsInvInit, AlertsInvNext, PTL DEF AlertsSpec

\* And the status of an order only moves along the state machine.
THEOREM MachineThroughCrashes == AlertsSpec => StatusFollowsMachine
<1>1. AlertsInv /\ [AlertsNext]_allVars => [Legal]_status
  <2>1. Crash => status' = status
    BY DEF Crash, db
  <2> QED
    BY <2>1, StepOrCrash, LegalStep DEF AlertsInv
<1> QED
  BY <1>1, AlertsInvInit, AlertsInvNext, PTL DEF AlertsSpec, StatusFollowsMachine, Legal
=============================================================================
