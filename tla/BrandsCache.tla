----------------------------- MODULE BrandsCache -----------------------------
(***************************************************************************)
(* Car brands and their models (src/admin/brands): two tables read through *)
(* an in-process cache.  A list request looks the key up, on a miss reads  *)
(* the tables and stores what it read; a creation inserts a row and then   *)
(* deletes the keys that show it.  Each await is a point where another     *)
(* request can intervene, so a list read before an insert can be stored    *)
(* after the deletion.  The production seed (prisma/seed.ts) is a process   *)
(* of its own: it inserts rows and cannot reach this cache.                *)
(***************************************************************************)
EXTENDS FiniteSets

CONSTANTS
  Handlers,   \* requests in progress at the same time
  Brands,     \* names a brand may be created with (CarBrand.name is unique)
  Names,      \* names a model may be created with (unique within its brand)
  All,        \* the key brands:all; a brand stands for its key brands:models:<id>
  Miss        \* nothing cached under a key

ASSUME BrandsAssumption == All \notin Brands

Keys == Brands \cup {All}

VARIABLES
  brands,     \* rows of CarBrand
  models,     \* rows of CarModel: <<brand, name>>
  cache,      \* what each key holds
  pc,         \* where each handler is
  key,        \* the key each list request serves
  got,        \* the rows each list request read
  drop,       \* the keys each creation has still to delete
  late,       \* history: list requests an insert overtook after they read
  outrun,     \* history: keys such a request filled
  seeded,     \* history: keys that held a list when the seed changed it
  lost        \* history: keys whose deletion was lost with a creation's answer

tables  == <<brands, models>>
history == <<late, outrun, seeded, lost>>
vars    == <<tables, cache, pc, key, got, drop, history>>

\* listBrands shows every brand with its models, listModels those of a brand.
View(k) == IF k = All THEN <<brands, models>>
           ELSE <<{}, {m \in models : m[1] = k}>>

Init ==
  /\ brands = {} /\ models = {}
  /\ cache = [k \in Keys |-> Miss]
  /\ pc = [h \in Handlers |-> "idle"]
  /\ key = [h \in Handlers |-> All]
  /\ got = [h \in Handlers |-> Miss]
  /\ drop = [h \in Handlers |-> {}]
  /\ late = {}
  /\ outrun = {} /\ seeded = {} /\ lost = {}

Finish(h) ==
  /\ pc' = [pc EXCEPT ![h] = "idle"]
  /\ key' = [key EXCEPT ![h] = All]
  /\ got' = [got EXCEPT ![h] = Miss]
  /\ drop' = [drop EXCEPT ![h] = {}]
  /\ late' = late \ {h}

\* The keys ks no longer hold what they held.
Renewed(ks) == outrun' = outrun \ ks /\ seeded' = seeded \ ks /\ lost' = lost \ ks

-----------------------------------------------------------------------------
(* GET: listBrands and listModels.                                         *)

\* The key is cached: its value is the answer.
ServeCached(h, k) ==
  /\ pc[h] = "idle"
  /\ cache[k] # Miss
  /\ UNCHANGED vars

List(h, k) ==
  /\ pc[h] = "idle"
  /\ cache[k] = Miss
  /\ pc' = [pc EXCEPT ![h] = "query"]
  /\ key' = [key EXCEPT ![h] = k]
  /\ UNCHANGED <<tables, cache, got, drop, history>>

\* listBrands, the first SELECT: the brands.
QueryBrands(h) ==
  /\ pc[h] = "query" /\ key[h] = All
  /\ pc' = [pc EXCEPT ![h] = "include"]
  /\ got' = [got EXCEPT ![h] = <<brands, {}>>]
  /\ UNCHANGED <<tables, cache, key, drop, history>>

\* include, a SELECT of its own: the models of the brands just read.
QueryIncluded(h) ==
  /\ pc[h] = "include"
  /\ pc' = [pc EXCEPT ![h] = "fill"]
  /\ got' = [got EXCEPT ![h] = <<got[h][1], {m \in models : m[1] \in got[h][1]}>>]
  /\ UNCHANGED <<tables, cache, key, drop, history>>

\* listModels: one SELECT.
QueryModels(h) ==
  /\ pc[h] = "query" /\ key[h] # All
  /\ pc' = [pc EXCEPT ![h] = "fill"]
  /\ got' = [got EXCEPT ![h] = View(key[h])]
  /\ UNCHANGED <<tables, cache, key, drop, history>>

\* cache.set: whatever is cached by then is replaced.
FillCache(h) ==
  /\ pc[h] = "fill"
  /\ cache' = [cache EXCEPT ![key[h]] = got[h]]
  /\ outrun' = IF h \in late THEN outrun \cup {key[h]} ELSE outrun \ {key[h]}
  /\ seeded' = seeded \ {key[h]} /\ lost' = lost \ {key[h]}
  /\ Finish(h)
  /\ UNCHANGED tables

-----------------------------------------------------------------------------
(* POST: createBrand and createModel.                                      *)

\* A row of the lists ks is inserted: what was read of its table is outdated.
OvertakeBrands ==
  late' = late \cup {g \in Handlers : pc[g] \in {"include", "fill"} /\ key[g] = All}
OvertakeModels(ks) ==
  late' = late \cup {g \in Handlers : pc[g] = "fill" /\ key[g] \in ks}

CreateBrand(h, b) ==
  /\ pc[h] = "idle"
  /\ b \notin brands
  /\ brands' = brands \cup {b}
  /\ pc' = [pc EXCEPT ![h] = "drop"]
  /\ drop' = [drop EXCEPT ![h] = {All}]
  /\ OvertakeBrands
  /\ UNCHANGED <<models, cache, key, got, outrun, seeded, lost>>

\* Mutant: only the brand's own list is dropped.
BrandKeyOnly(b) == {b}

\* Both the nested list and the brand's own.
KeysShowing(b) == {All, b}

CreateModel(h, b, n) ==
  /\ pc[h] = "idle"
  /\ b \in brands
  /\ <<b, n>> \notin models
  /\ models' = models \cup {<<b, n>>}
  /\ pc' = [pc EXCEPT ![h] = "drop"]
  /\ drop' = [drop EXCEPT ![h] = KeysShowing(b)]
  /\ OvertakeModels({All, b})
  /\ UNCHANGED <<brands, cache, key, got, outrun, seeded, lost>>

\* The name is taken (409).
RefuseBrand(h, b) ==
  /\ pc[h] = "idle"
  /\ b \in brands
  /\ UNCHANGED vars

\* The brand does not exist (400) or has a model of that name (409).
RefuseModel(h, b, n) ==
  /\ pc[h] = "idle"
  /\ b \notin brands \/ <<b, n>> \in models
  /\ UNCHANGED vars

\* cache.del of each key; the in-process store does not fail or wait.
DropKeys(h) ==
  /\ pc[h] = "drop"
  /\ cache' = [k \in Keys |-> IF k \in drop[h] THEN Miss ELSE cache[k]]
  /\ Renewed(drop[h])
  /\ Finish(h)
  /\ UNCHANGED tables

\* The insert was committed but its answer is lost (500): nothing is deleted.
LoseAnswer(h) ==
  /\ pc[h] = "drop"
  /\ lost' = lost \cup drop[h]
  /\ Finish(h)
  /\ UNCHANGED <<tables, cache, outrun, seeded>>

-----------------------------------------------------------------------------
(* The production seed: what it does not find it inserts, and nobody        *)
(* deletes the keys of the lists that lack the row.                        *)

Outdate(ks) == seeded' = seeded \cup {k \in ks : cache[k] # Miss}

SeedBrand(b) ==
  /\ b \notin brands
  /\ brands' = brands \cup {b}
  /\ OvertakeBrands
  /\ Outdate({All})
  /\ UNCHANGED <<models, cache, pc, key, got, drop, outrun, lost>>

SeedModel(b, n) ==
  /\ b \in brands
  /\ <<b, n>> \notin models
  /\ models' = models \cup {<<b, n>>}
  /\ OvertakeModels({All, b})
  /\ Outdate({All, b})
  /\ UNCHANGED <<brands, cache, pc, key, got, drop, outrun, lost>>

-----------------------------------------------------------------------------
\* Mutant: the time to live is read as no limit.
NeverExpire(k) == FALSE

\* The time to live of an entry is over.
Expire(k) ==
  /\ cache[k] # Miss
  /\ cache' = [cache EXCEPT ![k] = Miss]
  /\ Renewed({k})
  /\ UNCHANGED <<tables, pc, key, got, drop, late>>

\* A query of the list fails (500); nothing is cached.
ListFails(h) ==
  /\ pc[h] \in {"query", "include"}
  /\ Finish(h)
  /\ UNCHANGED <<tables, cache, outrun, seeded, lost>>

\* The process restarts with an empty cache.
Restart ==
  /\ cache' = [k \in Keys |-> Miss]
  /\ pc' = [h \in Handlers |-> "idle"]
  /\ key' = [h \in Handlers |-> All]
  /\ got' = [h \in Handlers |-> Miss]
  /\ drop' = [h \in Handlers |-> {}]
  /\ late' = {}
  /\ outrun' = {} /\ seeded' = {} /\ lost' = {}
  /\ UNCHANGED tables

Receive(h) ==
  \/ \E k \in Keys : ServeCached(h, k) \/ List(h, k)
  \/ \E b \in Brands : \/ CreateBrand(h, b) \/ RefuseBrand(h, b)
                       \/ \E n \in Names : CreateModel(h, b, n) \/ RefuseModel(h, b, n)

Work(h) ==
  QueryBrands(h) \/ QueryIncluded(h) \/ QueryModels(h) \/ FillCache(h) \/ DropKeys(h)

Next ==
  \/ \E h \in Handlers : Receive(h) \/ Work(h) \/ LoseAnswer(h) \/ ListFails(h)
  \/ \E b \in Brands : SeedBrand(b) \/ \E n \in Names : SeedModel(b, n)
  \/ \E k \in Keys : Expire(k)
  \/ Restart

Spec == Init /\ [][Next]_vars

\* Requests are executed and entries expire.
Fairness ==
  /\ \A h \in Handlers : WF_vars(Work(h))
  /\ \A k \in Keys : WF_vars(Expire(k))
FairSpec == Spec /\ Fairness

-----------------------------------------------------------------------------
(* Properties.                                                             *)

Rows == (SUBSET Brands) \X (SUBSET (Brands \X Names))

\* Every variable holds what its table, key or place in a handler can hold.
TypeOK ==
  /\ brands \in SUBSET Brands
  /\ models \in SUBSET (Brands \X Names)
  /\ cache \in [Keys -> Rows \cup {Miss}]
  /\ pc \in [Handlers -> {"idle", "query", "include", "fill", "drop"}]
  /\ key \in [Handlers -> Keys]
  /\ got \in [Handlers -> Rows \cup {Miss}]
  /\ \A h \in Handlers : pc[h] = "include" => key[h] = All /\ got[h] \in Rows
  /\ drop \in [Handlers -> SUBSET Keys]
  /\ late \in SUBSET Handlers
  /\ outrun \in SUBSET Keys /\ seeded \in SUBSET Keys /\ lost \in SUBSET Keys

Dropping(k) == \E h \in Handlers : pc[h] = "drop" /\ k \in drop[h]

\* A cached list differs from the tables only while the creation that changed
\* them is about to delete the key, or because a list request that had read the
\* table before filled the key afterwards, or because the creation's answer was
\* lost, or because the seed changed the table (BrandsService.createBrand,
\* createModel, listBrands, listModels; prisma/seed.ts).
StaleHasCause ==
  \A k \in Keys :
    \/ cache[k] \in {Miss, View(k)}
    \/ Dropping(k)
    \/ k \in outrun \cup seeded \cup lost

\* What a list request that was not overtaken read is what the tables hold,
\* although listBrands reads the brands and their models one after the other.
FreshRead ==
  \A h \in Handlers :
    /\ pc[h] = "include" => h \in late \/ got[h][1] = brands
    /\ pc[h] = "fill" => h \in late \/ got[h] = View(key[h])

\* CarModel.brandId references a brand.
ModelsOfBrands == \A m \in models : m[1] \in brands

\* The inductive invariant behind the theorem of BrandsCacheProofs.
CacheInv == TypeOK /\ ModelsOfBrands /\ FreshRead /\ StaleHasCause

ShowsModel(k, m) == cache[k] = Miss \/ m \in cache[k][2]

\* A new model is missing from a list for a time only: from some time on every
\* answer shows it, although nothing orders the fills and the deletions.
ModelsGetShown ==
  \A m \in Brands \X Names :
    m \in models ~> [](ShowsModel(All, m) /\ ShowsModel(m[1], m))

==============================================================================
