------------------------------ MODULE FiniteSums ------------------------------
(***************************************************************************)
(* Induction over finite sets and natural numbers, and what it yields for  *)
(* the figures of the reports and the rules: sums of functions, counts,    *)
(* greatest and least elements.  The library's induction theorems take the *)
(* induction hypothesis as an operator; here it is a set, `Good', and the  *)
(* proofs take a least element outside of it (WFMin).                      *)
(***************************************************************************)
EXTENDS FiniteSetsExt, FiniteSetTheorems, TLAPS

-----------------------------------------------------------------------------
(* Induction.                                                              *)

LEMMA SubsetsWellFounded ==
  ASSUME NEW S, IsFiniteSet(S)
  PROVE  IsWellFoundedOn(StrictSubsetOrdering(S), SUBSET S)
BY FS_StrictSubsetOrderingWellFounded, FS_FiniteSubsetsOfFinite

\* A finite set is good if each of its subsets is that is good without any one
\* of its elements.
LEMMA SubsetInduction ==
  ASSUME NEW S, IsFiniteSet(S), NEW Good,
         \A T \in SUBSET S : (\A x \in T : T \ {x} \in Good) => T \in Good
  PROVE  S \in Good
<1> DEFINE Bad == {T \in SUBSET S : T \notin Good}
<1> SUFFICES ASSUME S \notin Good PROVE FALSE
  OBVIOUS
<1>1. IsWellFoundedOn(StrictSubsetOrdering(S), SUBSET S)
  BY SubsetsWellFounded
<1>2. Bad \subseteq SUBSET S /\ Bad # {}
  OBVIOUS
<1>3. PICK T \in Bad : \A U \in Bad : <<U, T>> \notin StrictSubsetOrdering(S)
  <2> HIDE DEF Bad
  <2> QED
    BY <1>1, <1>2, WFMin
<1>4. \A x \in T : T \ {x} \in SUBSET S /\ T \ {x} \subseteq T /\ T \ {x} # T /\ T \in SUBSET S
  BY <1>3
<1>5. \A x \in T : <<T \ {x}, T>> \in StrictSubsetOrdering(S)
  BY <1>4, Zenon DEF StrictSubsetOrdering
<1>6. \A x \in T : T \ {x} \in Good
  BY <1>3, <1>4, <1>5
<1> QED
  BY <1>3, <1>6

\* A set of natural numbers that is not empty has a least one.
LEMMA LeastNatural ==
  ASSUME NEW S \in SUBSET Nat, S # {}
  PROVE  \E n \in S : \A k \in S : n <= k
<1> DEFINE less == {ss \in Nat \X Nat : ss[1] < ss[2]}
<1>1. IsWellFoundedOn(less, Nat)
  BY NatLessThanWellFounded, Zenon DEF OpToRel
<1>2. PICK n \in S : \A k \in S : <<k, n>> \notin less
  <2> HIDE DEF less
  <2> QED
    BY <1>1, WFMin
<1>3. \A k \in S : ~(k < n)
  BY <1>2
<1>4. \A k \in S : n <= k
  BY <1>3
<1> QED
  BY <1>4

\* A function that never falls has a fixed point on 0..n.
LEMMA FixedPoint ==
  ASSUME NEW n \in Nat, NEW g \in [0..n -> 0..n],
         \A k, l \in 0..n : k <= l => g[k] <= g[l]
  PROVE  \E k \in 0..n : g[k] = k
<1> DEFINE S == {k \in 0..n : g[k] <= k}
<1>1. S \in SUBSET Nat /\ n \in S
  OBVIOUS
<1>2. PICK k \in S : \A l \in S : k <= l
  <2> HIDE DEF S
  <2> QED
    BY <1>1, LeastNatural
<1>3. CASE k = 0
  BY <1>2, <1>3
<1>4. CASE k # 0
  <2>1. k - 1 \in 0..n /\ k - 1 <= k /\ k - 1 \notin S
    BY <1>2, <1>4
  <2>2. g[k - 1] >= k /\ g[k - 1] <= g[k]
    BY <2>1
  <2> QED
    BY <1>2, <2>1, <2>2
<1> QED
  BY <1>3, <1>4

-----------------------------------------------------------------------------
(* Counting.                                                               *)

LEMMA DisjointUnion ==
  ASSUME NEW S, IsFiniteSet(S), NEW T, IsFiniteSet(T), S \cap T = {}
  PROVE  IsFiniteSet(S \cup T) /\ Cardinality(S \cup T) = Cardinality(S) + Cardinality(T)
<1>1. /\ IsFiniteSet(S \cup T)
      /\ Cardinality(S \cup T) = Cardinality(S) + Cardinality(T) - Cardinality(S \cap T)
  BY FS_Union
<1>2. Cardinality(S \cap T) = 0
  BY FS_EmptySet
<1>3. Cardinality(S) \in Nat /\ Cardinality(T) \in Nat
  BY FS_CardinalityType
<1> QED
  BY <1>1, <1>2, <1>3

\* A finite set has finitely many values.
LEMMA Image ==
  ASSUME NEW F, NEW I, IsFiniteSet(I)
  PROVE  IsFiniteSet({F[i] : i \in I})
<1> DEFINE image == {F[i] : i \in I}
<1>1. [i \in I |-> F[i]] \in Surjection(I, image)
  BY DEF Surjection
<1> QED
  BY <1>1, FS_Surjection

\* A column of n squares.
LEMMA Column ==
  ASSUME NEW x, NEW n \in Nat
  PROVE  IsFiniteSet({x} \X (0..(n - 1))) /\ Cardinality({x} \X (0..(n - 1))) = n
<1>1. n - 1 \in Int /\ (0 > n - 1 <=> n = 0) /\ (n - 1) - 0 + 1 = n
  OBVIOUS
<1>2. IsFiniteSet(0..(n - 1)) /\ Cardinality(0..(n - 1)) = n
  BY <1>1, FS_Interval
<1>3. IsFiniteSet({x}) /\ Cardinality({x}) = 1
  BY FS_Singleton
<1>4. IsFiniteSet({x} \X (0..(n - 1))) /\ Cardinality({x} \X (0..(n - 1))) = 1 * n
  BY <1>2, <1>3, FS_Product
<1> QED
  BY <1>4

\* A finite set of integers has a greatest and a least element.
LEMMA Extremes ==
  ASSUME NEW S \in SUBSET Int, IsFiniteSet(S), S # {}
  PROVE  /\ Max(S) \in S /\ \A y \in S : y <= Max(S)
         /\ Min(S) \in S /\ \A y \in S : Min(S) <= y
<1> DEFINE Good == {T \in SUBSET S : T = {} \/ /\ \E x \in T : \A y \in T : y <= x
                                               /\ \E x \in T : \A y \in T : x <= y}
<1>1. ASSUME NEW T \in SUBSET S, \A x \in T : T \ {x} \in Good
      PROVE  T \in Good
  <2> SUFFICES ASSUME NEW z \in T
               PROVE  /\ \E x \in T : \A y \in T : y <= x
                      /\ \E x \in T : \A y \in T : x <= y
    OBVIOUS
  <2>1. CASE T = {z}
    BY <2>1
  <2>2. CASE T # {z}
    <3>1. PICK a, b \in T \ {z} : \A y \in T \ {z} : y <= a /\ b <= y
      <4>1. T \ {z} \in Good /\ T \ {z} # {}
        BY <1>1, <2>2
      <4> QED
        BY <4>1
    <3>2. z \in Int /\ a \in Int /\ b \in Int /\ T \subseteq Int
      OBVIOUS
    <3>3. \E x \in T : \A y \in T : y <= x
      <4>1. CASE a <= z
        BY <3>1, <3>2, <4>1
      <4>2. CASE z <= a
        BY <3>1, <3>2, <4>2
      <4> QED
        BY <3>2, <4>1, <4>2
    <3>4. \E x \in T : \A y \in T : x <= y
      <4>1. CASE b <= z
        BY <3>1, <3>2, <4>1
      <4>2. CASE z <= b
        BY <3>1, <3>2, <4>2
      <4> QED
        BY <3>2, <4>1, <4>2
    <3> QED
      BY <3>3, <3>4
  <2> QED
    BY <2>1, <2>2
<1>2. S \in Good
  <2> HIDE DEF Good
  <2> QED
    BY <1>1, SubsetInduction
<1> QED
  BY <1>2 DEF Max, Min

-----------------------------------------------------------------------------
(* Sums.  The sum of F over T is the area under F: SumFunctionOnSet folds  *)
(* T in an order that is not known, an area needs none.                    *)

Area(F, T) == {t \in T \X Nat : t[2] < F[t[1]]}

LEMMA AreaEmpty == ASSUME NEW F PROVE Area(F, {}) = {}
BY DEF Area

LEMMA AreaStep ==
  ASSUME NEW F, NEW T, NEW x \in T, F[x] \in Nat, IsFiniteSet(Area(F, T \ {x}))
  PROVE  /\ IsFiniteSet(Area(F, T))
         /\ Cardinality(Area(F, T)) = F[x] + Cardinality(Area(F, T \ {x}))
<1> DEFINE col == {x} \X (0..(F[x] - 1))
<1>1. Area(F, T) = Area(F, T \ {x}) \cup col
  BY DEF Area
<1>2. Area(F, T \ {x}) \cap col = {}
  BY DEF Area
<1>3. IsFiniteSet(col) /\ Cardinality(col) = F[x]
  BY Column
<1>4. Cardinality(Area(F, T \ {x})) \in Nat
  BY FS_CardinalityType
<1> HIDE DEF col
<1>5. /\ IsFiniteSet(Area(F, T \ {x}) \cup col)
      /\ Cardinality(Area(F, T \ {x}) \cup col)
           = Cardinality(Area(F, T \ {x})) + Cardinality(col)
  BY <1>2, <1>3, DisjointUnion
<1> QED
  BY <1>1, <1>3, <1>4, <1>5

LEMMA AreaFinite ==
  ASSUME NEW F, NEW T, IsFiniteSet(T), \A x \in T : F[x] \in Nat
  PROVE  IsFiniteSet(Area(F, T))
<1> DEFINE Good == {U \in SUBSET T : IsFiniteSet(Area(F, U))}
<1>1. ASSUME NEW U \in SUBSET T, \A x \in U : U \ {x} \in Good
      PROVE  U \in Good
  <2>1. CASE U = {}
    BY <2>1, AreaEmpty, FS_EmptySet
  <2>2. ASSUME NEW x \in U PROVE IsFiniteSet(Area(F, U))
    BY <1>1, AreaStep
  <2> QED
    BY <2>1, <2>2
<1>2. T \in Good
  <2> HIDE DEF Good
  <2> QED
    BY <1>1, SubsetInduction
<1> QED
  BY <1>2

LEMMA SumIsArea ==
  ASSUME NEW F, NEW S, IsFiniteSet(S), \A x \in S : F[x] \in Nat
  PROVE  SumFunctionOnSet(F, S) = Cardinality(Area(F, S))
<1> DEFINE pick(s) == CHOOSE x \in s : TRUE
           body(g) == [s \in SUBSET S |->
                         IF s = {} THEN 0 ELSE F[pick(s)] + g[s \ {pick(s)}]]
           area == [s \in SUBSET S |-> Cardinality(Area(F, s))]
           iter == CHOOSE g : g = body(g)
<1>1. \A s \in SUBSET S : IsFiniteSet(Area(F, s))
  BY AreaFinite, FS_Subset
<1>2. \A s \in SUBSET S : s # {} => pick(s) \in s
  OBVIOUS
\* The area satisfies the equation of the fold, so the fold is defined...
<1>3. area = body(area)
  <2>1. ASSUME NEW s \in SUBSET S PROVE area[s] = body(area)[s]
    <3>1. CASE s = {}
      BY <3>1, AreaEmpty, FS_EmptySet
    <3>2. CASE s # {}
      <4>1. pick(s) \in s /\ F[pick(s)] \in Nat /\ s \ {pick(s)} \in SUBSET S
        BY <3>2
      <4>2. \A y \in s : F[y] \in Nat /\ IsFiniteSet(Area(F, s \ {y}))
        BY <1>1
      <4> HIDE DEF pick
      <4>3. Cardinality(Area(F, s)) = F[pick(s)] + Cardinality(Area(F, s \ {pick(s)}))
        BY <4>1, <4>2, AreaStep
      <4> QED
        BY <3>2, <4>1, <4>3
    <3> QED
      BY <3>1, <3>2
  <2> QED
    BY <2>1
<1>4. SumFunctionOnSet(F, S) = iter[S]
  BY Zenon DEF SumFunctionOnSet, FoldFunctionOnSet, MapThenFoldSet
<1>5. iter = body(iter)
  <2> HIDE DEF body, area
  <2> QED
    BY <1>3
\* ... and nothing else satisfies it.
<1> DEFINE Good == {s \in SUBSET S : iter[s] = area[s]}
<1>6. ASSUME NEW s \in SUBSET S, \A x \in s : s \ {x} \in Good
      PROVE  s \in Good
  <2>1. iter[s] = body(iter)[s] /\ area[s] = body(area)[s]
    BY <1>3, <1>5
  <2> HIDE DEF iter, area
  <2> QED
    BY <1>2, <1>6, <2>1
<1>7. S \in Good
  <2> HIDE DEF Good
  <2> QED
    BY <1>6, SubsetInduction
<1> QED
  BY <1>4, <1>7

\* The sum of natural numbers is one; without terms it is zero, and each term can
\* be taken out.
LEMMA SumStep ==
  ASSUME NEW F, NEW S, IsFiniteSet(S), \A x \in S : F[x] \in Nat
  PROVE  /\ SumFunctionOnSet(F, S) \in Nat
         /\ S = {} => SumFunctionOnSet(F, S) = 0
         /\ \A x \in S : SumFunctionOnSet(F, S) = F[x] + SumFunctionOnSet(F, S \ {x})
<1>1. SumFunctionOnSet(F, S) = Cardinality(Area(F, S)) /\ IsFiniteSet(Area(F, S))
  BY SumIsArea, AreaFinite
<1>2. ASSUME NEW x \in S
      PROVE  SumFunctionOnSet(F, S) = F[x] + SumFunctionOnSet(F, S \ {x})
  <2>1. IsFiniteSet(S \ {x}) /\ \A y \in S \ {x} : F[y] \in Nat
    BY FS_RemoveElement
  <2>2. SumFunctionOnSet(F, S \ {x}) = Cardinality(Area(F, S \ {x}))
        /\ IsFiniteSet(Area(F, S \ {x}))
    BY <2>1, SumIsArea, AreaFinite
  <2> QED
    BY <1>1, <2>2, AreaStep
<1>3. S = {} => SumFunctionOnSet(F, S) = 0
  BY <1>1, AreaEmpty, FS_EmptySet
<1> QED
  BY <1>1, <1>2, <1>3, FS_CardinalityType

\* A sum with more and larger terms is not smaller.
LEMMA SumMonotonic ==
  ASSUME NEW F, NEW G, NEW S, NEW T, IsFiniteSet(T), S \subseteq T,
         \A x \in T : G[x] \in Nat,
         \A x \in S : F[x] \in Nat /\ F[x] <= G[x]
  PROVE  /\ SumFunctionOnSet(F, S) \in Nat /\ SumFunctionOnSet(G, T) \in Nat
         /\ SumFunctionOnSet(F, S) <= SumFunctionOnSet(G, T)
<1>1. IsFiniteSet(S)
  BY FS_Subset
<1>2. /\ SumFunctionOnSet(F, S) = Cardinality(Area(F, S)) /\ IsFiniteSet(Area(F, S))
      /\ SumFunctionOnSet(G, T) = Cardinality(Area(G, T)) /\ IsFiniteSet(Area(G, T))
  BY <1>1, SumIsArea, AreaFinite
<1>3. Area(F, S) \subseteq Area(G, T)
  BY DEF Area
<1> QED
  BY <1>2, <1>3, FS_Subset, FS_CardinalityType

\* A sum is zero when every term is.
LEMMA SumZero ==
  ASSUME NEW F, NEW S, IsFiniteSet(S), \A x \in S : F[x] \in Nat
  PROVE  SumFunctionOnSet(F, S) = 0 <=> \A x \in S : F[x] = 0
<1>1. SumFunctionOnSet(F, S) = Cardinality(Area(F, S)) /\ IsFiniteSet(Area(F, S))
  BY SumIsArea, AreaFinite
<1>2. SumFunctionOnSet(F, S) = 0 <=> Area(F, S) = {}
  BY <1>1, FS_EmptySet
<1>3. (\A x \in S : F[x] = 0) => Area(F, S) = {}
  BY DEF Area
<1>4. ASSUME NEW x \in S, F[x] # 0 PROVE <<x, 0>> \in Area(F, S)
  BY <1>4 DEF Area
<1> QED
  BY <1>2, <1>3, <1>4

\* Counted class by class, every element is counted once.
LEMMA SumOfClasses ==
  ASSUME NEW I, IsFiniteSet(I), NEW K, IsFiniteSet(K), NEW h, \A i \in I : h[i] \in K
  PROVE  SumFunction([k \in K |-> Cardinality({i \in I : h[i] = k})]) = Cardinality(I)
<1> DEFINE F == [k \in K |-> Cardinality({i \in I : h[i] = k})]
           In(T) == {i \in I : h[i] \in T}
           Good == {T \in SUBSET K : SumFunctionOnSet(F, T) = Cardinality(In(T))}
<1>1. \A k \in K : IsFiniteSet({i \in I : h[i] = k}) /\ F[k] \in Nat
  BY FS_Subset, FS_CardinalityType
<1>2. ASSUME NEW T \in SUBSET K, \A k \in T : T \ {k} \in Good
      PROVE  T \in Good
  <2>1. IsFiniteSet(T) /\ \A k \in T : F[k] \in Nat
    BY <1>1, FS_Subset
  <2>2. CASE T = {}
    <3>1. In(T) = {}
      BY <2>2
    <3>2. SumFunctionOnSet(F, T) = 0
      BY <2>1, <2>2, SumStep
    <3> QED
      BY <3>1, <3>2, FS_EmptySet
  <2>3. ASSUME NEW k \in T PROVE SumFunctionOnSet(F, T) = Cardinality(In(T))
    <3> DEFINE one == {i \in I : h[i] = k}
    <3>1. SumFunctionOnSet(F, T) = F[k] + SumFunctionOnSet(F, T \ {k})
      BY <2>1, SumStep
    <3>2. In(T) = one \cup In(T \ {k}) /\ one \cap In(T \ {k}) = {}
      OBVIOUS
    <3>3. IsFiniteSet(one) /\ IsFiniteSet(In(T \ {k}))
      BY FS_Subset
    <3>4. Cardinality(In(T)) = Cardinality(one) + Cardinality(In(T \ {k}))
      <4> HIDE DEF one, In
      <4> QED
        BY <3>2, <3>3, DisjointUnion
    <3>5. F[k] = Cardinality(one) /\ SumFunctionOnSet(F, T \ {k}) = Cardinality(In(T \ {k}))
      BY <1>2
    <3> QED
      BY <3>1, <3>4, <3>5
  <2> QED
    BY <2>2, <2>3
<1>3. K \in Good
  <2> HIDE DEF Good
  <2> QED
    BY <1>2, SubsetInduction
<1>4. In(K) = I
  OBVIOUS
<1>5. DOMAIN F = K
  OBVIOUS
<1> QED
  BY <1>3, <1>4, <1>5 DEF SumFunction
==============================================================================
