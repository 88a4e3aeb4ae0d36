----------------------------- MODULE ServiceLists -----------------------------
(***************************************************************************)
(* Lists of services (src/services): findAll answers from an in-process    *)
(* cache, filled with what it reads from the table; every change ends with *)
(* invalidateListCache.  Composes ServiceNames with the list requests and  *)
(* the cache.                                                              *)
(***************************************************************************)
EXTENDS ServiceNames

CONSTANTS
  Keys,       \* keys of lists: values of activeOnly, for one category and page
  Readers,    \* list requests in progress at the same time
  Miss        \* nothing cached under a key

VARIABLES
  cache,      \* what each list key holds
  read        \* what each list request read and for which key

listVars == <<cache, read>>
allVars  == <<vars, listVars>>

NotReading == [key |-> TRUE, list |-> Miss]

\* servicesRepository.findAll.
View(activeOnly) ==
  {[id |-> i, name |-> services[i].name] :
     i \in {j \in Live : activeOnly => services[j].isActive}}

ListsInit ==
  /\ Init
  /\ cache = [k \in Keys |-> Miss]
  /\ read = [r \in Readers |-> NotReading]

Reading(r) == read[r].list # Miss

\* findAll: the key is cached and its value is the answer.
ServeCached(r, k) ==
  /\ ~Reading(r)
  /\ cache[k] # Miss
  /\ UNCHANGED allVars

\* findAll: nothing is cached and the table is read.
QueryServices(r, k) ==
  /\ ~Reading(r)
  /\ cache[k] = Miss
  /\ read' = [read EXCEPT ![r] = [key |-> k, list |-> View(k)]]
  /\ UNCHANGED <<vars, cache>>

\* findAll: what was read is cached.
FillCache(r) ==
  /\ Reading(r)
  /\ cache' = [cache EXCEPT ![read[r].key] = read[r].list]
  /\ read' = [read EXCEPT ![r] = NotReading]
  /\ UNCHANGED vars

\* The request ends before it has cached the list.
ReaderFails(r) ==
  /\ Reading(r)
  /\ read' = [read EXCEPT ![r] = NotReading]
  /\ UNCHANGED <<vars, cache>>

\* What is cached under ALL_LIST_PREFIX: no code ever adds a key to it.
Registry == {}

\* invalidateListCache deletes the keys of the registry.
InvalidateListCache(h) ==
  /\ Answer(h)
  /\ cache' = [k \in Keys |-> IF k \in Registry THEN Miss ELSE cache[k]]
  /\ UNCHANGED read

\* Mutant: the time to live is read as no limit.
NeverExpire(k) == FALSE

\* The time to live of an entry is over.
Expire(k) ==
  /\ cache[k] # Miss
  /\ cache' = [cache EXCEPT ![k] = Miss]
  /\ UNCHANGED <<vars, read>>

\* The process restarts with an empty cache.
Restart ==
  /\ cache' = [k \in Keys |-> Miss]
  /\ read' = [r \in Readers |-> NotReading]
  /\ pc' = [h \in Handlers |-> "idle"]
  /\ req' = [h \in Handlers |-> Nothing]
  /\ UNCHANGED rows

ChangeServices(h) == (Receive(h) \/ Write(h) \/ HandlerFails(h)) /\ UNCHANGED listVars

List(r) == \E k \in Keys : ServeCached(r, k) \/ QueryServices(r, k)

ListsNext ==
  \/ \E h \in Handlers : ChangeServices(h) \/ InvalidateListCache(h)
  \/ \E r \in Readers : List(r) \/ FillCache(r) \/ ReaderFails(r)
  \/ \E k \in Keys : Expire(k)
  \/ Restart

ListsSpec == ListsInit /\ [][ListsNext]_allVars

\* A list request ends and an entry expires.
Fairness ==
  /\ \A r \in Readers : WF_allVars(FillCache(r) \/ ReaderFails(r))
  /\ \A k \in Keys : WF_allVars(Expire(k))

FairSpec == ListsSpec /\ Fairness

-----------------------------------------------------------------------------
(* Properties.                                                             *)

Shows(i) == \E k \in Keys : cache[k] # Miss /\ \E s \in cache[k] : s.id = i

Lacks(i) == \E k \in Keys : cache[k] # Miss /\ \A s \in cache[k] : s.id # i

\* From some time on every list shows a service that was inserted, or none does
\* once it was removed, although no change deletes a cached list, a list read
\* before a change may be cached after it, and the seed cannot reach the cache.
ListsCatchUp ==
  \A i \in Ids : i \in Inserted ~> [](IF i \in removed THEN ~Shows(i) ELSE ~Lacks(i))

\* invalidateListCache (services.service.ts) runs at the end of every change:
\* when it returns and no other change is under way, a cached list is the
\* table's.
ListsInvalidated ==
  [][\A h \in Handlers :
       InvalidateListCache(h) /\ (\A g \in Handlers \ {h} : pc[g] = "idle")
         => \A k \in Keys : cache'[k] \in {Miss, View(k)}]_allVars
==============================================================================
