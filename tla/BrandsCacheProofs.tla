-------------------------- MODULE BrandsCacheProofs --------------------------
(***************************************************************************)
(* Every stale list has a cause: a creation under way, an overtaken list   *)
(* request, a lost answer, or the seed.                                    *)
(***************************************************************************)
EXTENDS BrandsCache, TLAPS

LEMMA InitCacheInv == Init => CacheInv
BY DEF Init, CacheInv, TypeOK, ModelsOfBrands, FreshRead, StaleHasCause, Keys, Rows

LEMMA ViewType == TypeOK => \A k \in Keys : View(k) \in Rows
BY DEF TypeOK, View, Rows, Keys

\* A row is inserted under the keys ks: a list it makes stale is about to be
\* deleted by the creation, or was there when the seed changed it.
LEMMA InsertCacheInv ==
  ASSUME CacheInv, TypeOK', ModelsOfBrands', NEW ks \in SUBSET Keys,
         \A k \in Keys \ ks : View(k)' = View(k),
         \A g \in Handlers : pc'[g] = "include" => pc[g] = "include",
         \A g \in Handlers : pc'[g] = "fill" => pc[g] = "fill",
         (OvertakeBrands /\ ks = {All}) \/ (OvertakeModels(ks) /\ UNCHANGED brands),
         \A k \in Keys : Dropping(k) => Dropping(k)',
         \A k \in ks : cache[k] = Miss \/ Dropping(k)' \/ k \in seeded',
         seeded \subseteq seeded', UNCHANGED <<cache, key, got, outrun, lost>>
  PROVE  CacheInv'
<1>1. FreshRead'
  <2>1. ASSUME NEW g \in Handlers, pc'[g] = "include", g \notin late'
        PROVE  got'[g][1] = brands'
    BY <2>1 DEF OvertakeBrands, OvertakeModels, CacheInv, TypeOK, FreshRead
  <2>2. ASSUME NEW g \in Handlers, pc'[g] = "fill", g \notin late'
        PROVE  got'[g] = View(key[g])'
    <3>1. pc[g] = "fill" /\ g \notin late /\ key[g] \in Keys \ ks
      BY <2>2 DEF OvertakeBrands, OvertakeModels, CacheInv, TypeOK
    <3> QED
      BY <3>1 DEF CacheInv, FreshRead
  <2> QED
    BY <2>1, <2>2 DEF FreshRead
<1>2. StaleHasCause'
  <2> SUFFICES ASSUME NEW k \in Keys, cache[k] # Miss, k \notin outrun \cup seeded' \cup lost
               PROVE  cache[k] = View(k)' \/ Dropping(k)'
    BY DEF StaleHasCause
  <2>1. CASE k \in ks
    BY <2>1
  <2>2. CASE k \notin ks
    <3>1. View(k)' = View(k)
      BY <2>2
    <3> QED
      BY <3>1 DEF CacheInv, StaleHasCause
  <2> QED
    BY <2>1, <2>2
<1> QED
  BY <1>1, <1>2 DEF CacheInv

\* A new model is in no list but those of its brand and of all brands.
LEMMA InsertedModel ==
  ASSUME NEW b \in Brands, NEW n \in Names, models' = models \cup {<<b, n>>}
  PROVE  \A k \in Keys \ {All, b} : View(k)' = View(k)
<1> SUFFICES ASSUME NEW k \in Keys \ {All, b} PROVE View(k)' = View(k)
  OBVIOUS
<1>1. <<b, n>>[1] # k /\ k # All
  OBVIOUS
<1>2. {m \in models' : m[1] = k} = {m \in models : m[1] = k}
  BY <1>1
<1> QED
  BY <1>1, <1>2 DEF View

LEMMA ReceiveCacheInv ==
  ASSUME CacheInv, NEW h \in Handlers, Receive(h)
  PROVE  CacheInv'
<1>1. CASE UNCHANGED vars
  BY <1>1 DEF vars, tables, history, CacheInv, TypeOK, ModelsOfBrands, FreshRead,
              StaleHasCause, Dropping, View
<1>2. ASSUME NEW k \in Keys, List(h, k) PROVE CacheInv'
  BY <1>2 DEF List, tables, history, CacheInv, TypeOK, ModelsOfBrands, FreshRead,
              StaleHasCause, Dropping, View
<1>3. ASSUME NEW b \in Brands, CreateBrand(h, b) PROVE CacheInv'
  <2>1. \A k \in Keys \ {All} : View(k)' = View(k)
    BY <1>3 DEF CreateBrand, View
  <2>2. TypeOK' /\ ModelsOfBrands' /\ {All} \in SUBSET Keys
    BY <1>3 DEF CreateBrand, OvertakeBrands, Keys, Rows, CacheInv, TypeOK, ModelsOfBrands
  <2>3. \A k \in Keys : (Dropping(k) => Dropping(k)') /\ (k = All => Dropping(k)')
    BY <1>3 DEF CreateBrand, Dropping, CacheInv, TypeOK
  <2>4. \A g \in Handlers : pc'[g] \in {"include", "fill"} => pc'[g] = pc[g]
    BY <1>3 DEF CreateBrand, CacheInv, TypeOK
  <2> QED
    BY <1>3, <2>1, <2>2, <2>3, <2>4, InsertCacheInv DEF CreateBrand
<1>4. ASSUME NEW b \in Brands, NEW n \in Names, CreateModel(h, b, n) PROVE CacheInv'
  <2>1. \A k \in Keys \ {All, b} : View(k)' = View(k)
    BY <1>4, InsertedModel DEF CreateModel
  <2>2. TypeOK' /\ ModelsOfBrands' /\ {All, b} \in SUBSET Keys
    BY <1>4 DEF CreateModel, KeysShowing, OvertakeModels, Keys, Rows, CacheInv, TypeOK,
                ModelsOfBrands
  <2>3. \A k \in Keys : (Dropping(k) => Dropping(k)') /\ (k \in {All, b} => Dropping(k)')
    BY <1>4 DEF CreateModel, KeysShowing, Dropping, CacheInv, TypeOK
  <2>4. \A g \in Handlers : pc'[g] \in {"include", "fill"} => pc'[g] = pc[g]
    BY <1>4 DEF CreateModel, CacheInv, TypeOK
  <2> QED
    BY <1>4, <2>1, <2>2, <2>3, <2>4, InsertCacheInv DEF CreateModel
<1> QED
  BY <1>1, <1>2, <1>3, <1>4 DEF Receive, ServeCached, RefuseBrand, RefuseModel

LEMMA WorkCacheInv ==
  ASSUME CacheInv, NEW h \in Handlers, Work(h) \/ LoseAnswer(h) \/ ListFails(h)
  PROVE  CacheInv'
<1>1. CASE QueryBrands(h)
  <2>1. <<brands, {}>> \in Rows
    BY DEF CacheInv, TypeOK, Rows
  <2>2. TypeOK' /\ ModelsOfBrands'
    BY <1>1, <2>1 DEF QueryBrands, tables, history, CacheInv, TypeOK, ModelsOfBrands
  <2>3. FreshRead'
    <3>1. <<brands, {}>>[1] = brands
      OBVIOUS
    <3> QED
      BY <1>1, <3>1 DEF QueryBrands, tables, history, CacheInv, TypeOK, FreshRead, View
  <2>4. StaleHasCause'
    BY <1>1 DEF QueryBrands, tables, history, CacheInv, TypeOK, StaleHasCause, Dropping, View
  <2> QED
    BY <2>2, <2>3, <2>4 DEF CacheInv
<1>2. CASE QueryIncluded(h)
  <2> DEFINE included == {m \in models : m[1] \in got[h][1]}
  <2>1. got[h] \in Rows /\ key[h] = All
    BY <1>2 DEF QueryIncluded, CacheInv, TypeOK
  <2>2. <<got[h][1], included>> \in Rows
    BY <2>1 DEF CacheInv, TypeOK, Rows
  <2>3. got[h][1] = brands => included = models
    BY DEF CacheInv, ModelsOfBrands
  <2>4. TypeOK' /\ ModelsOfBrands'
    BY <1>2, <2>2 DEF QueryIncluded, tables, history, CacheInv, TypeOK, ModelsOfBrands
  <2>5. FreshRead'
    <3>1. h \in late \/ <<got[h][1], included>> = View(key[h])
      BY <1>2, <2>1, <2>3 DEF QueryIncluded, CacheInv, FreshRead, View
    <3> QED
      BY <1>2, <3>1 DEF QueryIncluded, tables, history, CacheInv, TypeOK, FreshRead, View
  <2>6. StaleHasCause'
    BY <1>2
       DEF QueryIncluded, tables, history, CacheInv, TypeOK, StaleHasCause, Dropping, View
  <2> QED
    BY <2>4, <2>5, <2>6 DEF CacheInv
<1>3. CASE QueryModels(h)
  <2>1. TypeOK' /\ ModelsOfBrands'
    BY <1>3, ViewType DEF QueryModels, tables, history, CacheInv, TypeOK, ModelsOfBrands
  <2>2. FreshRead' /\ StaleHasCause'
    BY <1>3
       DEF QueryModels, tables, history, CacheInv, TypeOK, FreshRead, StaleHasCause,
           Dropping, View
  <2> QED
    BY <2>1, <2>2 DEF CacheInv
<1>4. CASE FillCache(h)
  <2>1. key[h] \in Keys /\ got[h] \in Rows \cup {Miss} /\ UNCHANGED tables
    BY <1>4 DEF FillCache, CacheInv, TypeOK
  <2>2. TypeOK' /\ ModelsOfBrands'
    BY <1>4, <2>1 DEF FillCache, Finish, tables, CacheInv, TypeOK, ModelsOfBrands, Keys
  <2>3. FreshRead'
    BY <1>4 DEF FillCache, Finish, tables, CacheInv, TypeOK, FreshRead, View
  <2>4. ASSUME NEW k \in Keys
        PROVE  cache'[k] \in {Miss, View(k)} \/ Dropping(k)' \/ k \in outrun' \cup seeded' \cup lost'
    <3>1. CASE k = key[h]
      BY <1>4, <3>1 DEF FillCache, CacheInv, TypeOK, FreshRead
    <3>2. CASE k # key[h]
      <4>1. cache'[k] = cache[k] /\ (k \in outrun \cup seeded \cup lost => k \in outrun' \cup seeded' \cup lost')
        BY <1>4, <3>2 DEF FillCache, CacheInv, TypeOK
      <4>2. Dropping(k) => Dropping(k)'
        BY <1>4 DEF FillCache, Finish, Dropping, CacheInv, TypeOK
      <4> QED
        BY <4>1, <4>2 DEF CacheInv, StaleHasCause
    <3> QED
      BY <3>1, <3>2
  <2>5. StaleHasCause'
    BY <1>4, <2>4 DEF FillCache, tables, StaleHasCause, View
  <2> QED
    BY <2>2, <2>3, <2>5 DEF CacheInv
<1>5. CASE DropKeys(h)
  <2>1. TypeOK' /\ ModelsOfBrands'
    BY <1>5 DEF DropKeys, Finish, Renewed, tables, CacheInv, TypeOK, ModelsOfBrands, Keys
  <2>2. FreshRead'
    BY <1>5 DEF DropKeys, Finish, tables, CacheInv, TypeOK, FreshRead, View
  <2>3. ASSUME NEW k \in Keys
        PROVE  cache'[k] \in {Miss, View(k)} \/ Dropping(k)' \/ k \in outrun' \cup seeded' \cup lost'
    <3>1. CASE k \in drop[h]
      BY <1>5, <3>1 DEF DropKeys
    <3>2. CASE k \notin drop[h]
      <4>1. cache'[k] = cache[k] /\ (k \in outrun \cup seeded \cup lost => k \in outrun' \cup seeded' \cup lost')
        BY <1>5, <3>2 DEF DropKeys, Renewed
      <4>2. Dropping(k) => Dropping(k)'
        BY <1>5, <3>2 DEF DropKeys, Finish, Dropping, CacheInv, TypeOK
      <4> QED
        BY <4>1, <4>2 DEF CacheInv, StaleHasCause
    <3> QED
      BY <3>1, <3>2
  <2>4. StaleHasCause'
    BY <1>5, <2>3 DEF DropKeys, tables, StaleHasCause, View
  <2> QED
    BY <2>1, <2>2, <2>4 DEF CacheInv
<1>6. CASE LoseAnswer(h)
  <2>1. TypeOK' /\ ModelsOfBrands'
    BY <1>6 DEF LoseAnswer, Finish, tables, CacheInv, TypeOK, ModelsOfBrands, Keys
  <2>2. FreshRead'
    BY <1>6 DEF LoseAnswer, Finish, tables, CacheInv, TypeOK, FreshRead, View
  <2>3. ASSUME NEW k \in Keys PROVE Dropping(k) => Dropping(k)' \/ k \in lost'
    BY <1>6 DEF LoseAnswer, Finish, Dropping, CacheInv, TypeOK
  <2>4. StaleHasCause'
    BY <1>6, <2>3 DEF LoseAnswer, tables, CacheInv, StaleHasCause, View
  <2> QED
    BY <2>1, <2>2, <2>4 DEF CacheInv
<1>7. CASE ListFails(h)
  <2>1. TypeOK' /\ ModelsOfBrands'
    BY <1>7 DEF ListFails, Finish, tables, history, CacheInv, TypeOK, ModelsOfBrands, Keys
  <2>2. FreshRead'
    BY <1>7 DEF ListFails, Finish, tables, history, CacheInv, TypeOK, FreshRead, View
  <2>3. ASSUME NEW k \in Keys PROVE Dropping(k) => Dropping(k)'
    BY <1>7 DEF ListFails, Finish, Dropping, CacheInv, TypeOK
  <2>4. StaleHasCause'
    BY <1>7, <2>3 DEF ListFails, tables, history, CacheInv, StaleHasCause, View
  <2> QED
    BY <2>1, <2>2, <2>4 DEF CacheInv
<1> QED
  BY <1>1, <1>2, <1>3, <1>4, <1>5, <1>6, <1>7 DEF Work

LEMMA StepCacheInv == CacheInv /\ [Next]_vars => CacheInv'
<1> SUFFICES ASSUME CacheInv, [Next]_vars PROVE CacheInv'
  OBVIOUS
<1>1. CASE UNCHANGED vars
  BY <1>1 DEF vars, tables, history, CacheInv, TypeOK, ModelsOfBrands, FreshRead,
              StaleHasCause, Dropping, View
<1>2. ASSUME NEW k \in Keys, Expire(k) PROVE CacheInv'
  BY <1>2 DEF Expire, Renewed, tables, CacheInv, TypeOK, ModelsOfBrands, FreshRead,
              StaleHasCause, Dropping, View
<1>3. CASE Restart
  BY <1>3 DEF Restart, tables, CacheInv, TypeOK, ModelsOfBrands, FreshRead,
              StaleHasCause, View, Keys
<1>4. ASSUME NEW b \in Brands, SeedBrand(b) PROVE CacheInv'
  <2>1. \A k \in Keys \ {All} : View(k)' = View(k)
    BY <1>4 DEF SeedBrand, View
  <2>2. TypeOK' /\ ModelsOfBrands' /\ {All} \in SUBSET Keys
    BY <1>4 DEF SeedBrand, OvertakeBrands, Outdate, Keys, Rows, CacheInv, TypeOK, ModelsOfBrands
  <2>3. \A k \in Keys : Dropping(k) => Dropping(k)'
    BY <1>4 DEF SeedBrand, Dropping
  <2>4. \A k \in {All} : cache[k] = Miss \/ k \in seeded'
    BY <1>4 DEF SeedBrand, Outdate
  <2> QED
    BY <1>4, <2>1, <2>2, <2>3, <2>4, InsertCacheInv DEF SeedBrand, Outdate
<1>5. ASSUME NEW b \in Brands, NEW n \in Names, SeedModel(b, n) PROVE CacheInv'
  <2>1. \A k \in Keys \ {All, b} : View(k)' = View(k)
    BY <1>5, InsertedModel DEF SeedModel
  <2>2. TypeOK' /\ ModelsOfBrands' /\ {All, b} \in SUBSET Keys
    BY <1>5 DEF SeedModel, OvertakeModels, Outdate, Keys, Rows, CacheInv, TypeOK, ModelsOfBrands
  <2>3. \A k \in Keys : Dropping(k) => Dropping(k)'
    BY <1>5 DEF SeedModel, Dropping
  <2>4. \A k \in {All, b} : cache[k] = Miss \/ k \in seeded'
    BY <1>5 DEF SeedModel, Outdate
  <2> QED
    BY <1>5, <2>1, <2>2, <2>3, <2>4, InsertCacheInv DEF SeedModel, Outdate
<1> QED
  BY <1>1, <1>2, <1>3, <1>4, <1>5, ReceiveCacheInv, WorkCacheInv DEF Next

\* For any number of requests, brands and models, a cached list that differs
\* from the tables has one of the four causes StaleHasCause names.
THEOREM CacheInvariant == Spec => []CacheInv
<1> QED
  BY InitCacheInv, StepCacheInv, PTL DEF Spec
==============================================================================
