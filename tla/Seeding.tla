------------------------------- MODULE Seeding -------------------------------
(***************************************************************************)
(* The production seed (prisma/seed.ts), a process beside the API: it      *)
(* looks each row of seed-data.ts up and creates it when it is missing,    *)
(* services first, then brands, models and the rules of each model, every  *)
(* query a statement of its own.  Administrators create rules (POST        *)
(* /maintenance/rules), brands and models meanwhile.  Composes the         *)
(* services and their lists with the seed and the rules.                   *)
(***************************************************************************)
EXTENDS ServiceLists

CONSTANTS
  SeedNames,  \* names in SERVICES
  SeedRows,   \* brands and models in CAR_DATA: <<brand, Omitted>>, <<brand, model>>
  SeedRules,  \* rules in CAR_DATA: [row, name, km]
  Kms,        \* distances an administrator may give a rule
  Clerks      \* requests to create a rule in progress at the same time

\* In seed-data.ts no model has two rules for one service, and a service is
\* active unless a request says otherwise.
ASSUME SeedAssumption ==
  /\ SeedNames \subseteq Names /\ TRUE \in Active
  /\ SeedRules \subseteq [row : SeedRows, name : SeedNames, km : Kms]
  /\ \A r, s \in SeedRules : r.row = s.row /\ r.name = s.name => r = s

VARIABLES
  catalog,    \* rows of CarBrand and CarModel
  rules,      \* rows of MaintenanceRule
  at,         \* where the seed is
  todo,       \* what the seed has still to look up
  hand,       \* what it did not find and is about to create
  idOf,       \* serviceMap
  draft,      \* the rule each clerk's request is about to insert
  alone,      \* history: nobody else ever changed a table
  quiet,      \* history: nobody else did since the seed began
  whole       \* history: nobody else did since the beginning of a seed that ended

tables   == <<services, removed, catalog, rules>>
seedVars == <<at, todo, hand, idOf>>
history  == <<alone, quiet, whole>>
all      == <<allVars, catalog, rules, seedVars, draft, history>>

NothingToDo == [names |-> {}, rows |-> {}, rules |-> {}]

\* The row of a brand that a model's row refers to.
Parent(k) == <<k[1], Omitted>>

Rule(k, i, km) == [row |-> k, service |-> i, km |-> km]

\* serviceId and modelId together are unique.
PairFree(r) == \A s \in rules : ~(s.row = r.row /\ s.service = r.service)

SeedInit ==
  /\ ListsInit
  /\ catalog = {} /\ rules = {}
  /\ at = "off" /\ todo = NothingToDo /\ hand = Omitted
  /\ idOf = [n \in SeedNames |-> Omitted]
  /\ draft = [c \in Clerks |-> Omitted]
  /\ alone = TRUE /\ quiet = FALSE /\ whole = FALSE

-----------------------------------------------------------------------------
(* The seed.                                                               *)

Go(place, item) == at' = place /\ hand' = item

BeginSeed ==
  /\ at = "off"
  /\ Go("find", Omitted)
  /\ todo' = [names |-> SeedNames, rows |-> SeedRows, rules |-> SeedRules]
  /\ idOf' = [n \in SeedNames |-> Omitted]
  /\ quiet' = TRUE
  /\ UNCHANGED <<tables, alone, whole>>

\* service.findFirst by name, among removed services too; the one it returns is
\* updated in what is not shown here.
FindService(n) ==
  LET found == {i \in Inserted : services[i].name = n} IN
  /\ at = "find" /\ n \in todo.names
  /\ IF found = {}
       THEN Go("service", n) /\ UNCHANGED <<todo, idOf>>
       ELSE /\ \E i \in found : idOf' = [idOf EXCEPT ![n] = i]
            /\ todo' = [todo EXCEPT !.names = @ \ {n}]
            /\ UNCHANGED <<at, hand>>
  /\ UNCHANGED <<tables, history>>

SeedService(i) ==
  /\ at = "service"
  /\ Named(hand) = {}
  /\ i \in Ids \ Inserted
  /\ services' = [j \in Inserted \cup {i} |->
                    IF j = i THEN [name |-> hand, isActive |-> TRUE] ELSE services[j]]
  /\ idOf' = [idOf EXCEPT ![hand] = i]
  /\ todo' = [todo EXCEPT !.names = @ \ {hand}]
  /\ Go("find", Omitted)
  /\ UNCHANGED <<removed, catalog, rules, history>>

\* carBrand.findFirst; once the brand is there, carModel.findFirst in it.
FindRow(k) ==
  /\ at = "find" /\ todo.names = {} /\ k \in todo.rows
  /\ k # Parent(k) => Parent(k) \notin todo.rows
  /\ IF k \in catalog THEN /\ todo' = [todo EXCEPT !.rows = @ \ {k}]
                           /\ UNCHANGED <<at, hand>>
                      ELSE Go("row", k) /\ UNCHANGED todo
  /\ UNCHANGED <<tables, idOf, history>>

SeedRow ==
  /\ at = "row"
  /\ hand \notin catalog
  /\ catalog' = catalog \cup {hand}
  /\ todo' = [todo EXCEPT !.rows = @ \ {hand}]
  /\ Go("find", Omitted)
  /\ UNCHANGED <<services, removed, rules, idOf, history>>

\* Mutant: the rule is looked for by the name of the service, not by its id.
FoundByName(r) == \E s \in rules : s.row = r.row /\ s.km = r.km /\ s.service = r.name

\* Mutant: a rule with another distance is taken for it.
FoundWithAnyKm(r) == \E s \in rules : s.row = r.row /\ s.service = idOf[r.name]

RuleFound(r) == Rule(r.row, idOf[r.name], r.km) \in rules

\* maintenanceRule.findFirst by model, service and distance.
FindRule(r) ==
  /\ at = "find" /\ todo.names = {} /\ r \in todo.rules
  /\ r.row \notin todo.rows
  /\ IF RuleFound(r) THEN /\ todo' = [todo EXCEPT !.rules = @ \ {r}]
                          /\ UNCHANGED <<at, hand>>
                     ELSE Go("rule", r) /\ UNCHANGED todo
  /\ UNCHANGED <<tables, idOf, history>>

InHand == Rule(hand.row, idOf[hand.name], hand.km)

SeedRule ==
  /\ at = "rule"
  /\ PairFree(InHand)
  /\ rules' = rules \cup {InHand}
  /\ todo' = [todo EXCEPT !.rules = @ \ {hand}]
  /\ Go("find", Omitted)
  /\ UNCHANGED <<services, removed, catalog, idOf, history>>

Stop == /\ Go("off", Omitted)
        /\ todo' = NothingToDo
        /\ idOf' = [n \in SeedNames |-> Omitted]

EndSeed ==
  /\ at = "find" /\ todo = NothingToDo
  /\ Stop
  /\ whole' = (whole \/ quiet)
  /\ UNCHANGED <<tables, alone, quiet>>

\* Prisma's P2002: main's catch ends the process with code 1.
AbortSeed ==
  /\ \/ at = "service" /\ Named(hand) # {}
     \/ at = "row" /\ hand \in catalog
     \/ at = "rule" /\ ~PairFree(InHand)
  /\ Stop
  /\ UNCHANGED <<tables, history>>

\* The process is killed or loses its connection between two statements.
KillSeed ==
  /\ at # "off"
  /\ Stop
  /\ UNCHANGED <<tables, history>>

Seed ==
  /\ \/ BeginSeed \/ EndSeed \/ AbortSeed \/ KillSeed
     \/ SeedRow \/ SeedRule
     \/ \E n \in SeedNames : FindService(n)
     \/ \E i \in Ids : SeedService(i)
     \/ \E k \in SeedRows : FindRow(k)
     \/ \E r \in SeedRules : FindRule(r)
  /\ UNCHANGED <<pc, req, listVars, draft>>

-----------------------------------------------------------------------------
(* Administrators.                                                         *)

\* MaintenanceService.createRule: no rule of the service for the model is there.
CreateRule(c, r) ==
  /\ draft[c] = Omitted
  /\ PairFree(r)
  /\ draft' = [draft EXCEPT ![c] = r]
  /\ UNCHANGED rules

\* A rule is there (409).
RefuseRule(c, r) ==
  /\ draft[c] = Omitted
  /\ ~PairFree(r)
  /\ UNCHANGED <<rules, draft>>

\* repository.createRule; the foreign keys and the unique pair are the table's.
InsertRule(c) ==
  /\ draft[c] # Omitted
  /\ PairFree(draft[c])
  /\ draft[c].row \in catalog /\ draft[c].service \in Inserted
  /\ rules' = rules \cup {draft[c]}
  /\ draft' = [draft EXCEPT ![c] = Omitted]

\* The insert is refused (P2002 or P2003), or the request ends before.
RuleFails(c) ==
  /\ draft[c] # Omitted
  /\ draft' = [draft EXCEPT ![c] = Omitted]
  /\ UNCHANGED rules

ClerkStep(c) ==
  \/ \E k \in SeedRows, i \in Ids, km \in Kms :
       k # Parent(k) /\ (CreateRule(c, Rule(k, i, km)) \/ RefuseRule(c, Rule(k, i, km)))
  \/ InsertRule(c) \/ RuleFails(c)

\* BrandsService.createBrand and createModel, one insert each.
AddRow(k) ==
  /\ k \notin catalog
  /\ k # Parent(k) => Parent(k) \in catalog
  /\ catalog' = catalog \cup {k}

Others ==
  /\ \/ ListsNext /\ UNCHANGED <<catalog, rules, draft>>
     \/ \E c \in Clerks : ClerkStep(c) /\ UNCHANGED <<allVars, catalog>>
     \/ \E k \in SeedRows : AddRow(k) /\ UNCHANGED <<allVars, rules, draft>>
  /\ alone' = (alone /\ UNCHANGED tables)
  /\ quiet' = (quiet /\ UNCHANGED tables)
  /\ whole' = (whole /\ UNCHANGED tables)
  /\ UNCHANGED seedVars

\* The bound on services leaves a row for every insert to come.
Missing(n) ==
  IF at = "service" /\ hand = n THEN Named(n) = {}
                                ELSE \A i \in Inserted : services[i].name # n

Room ==
  Cardinality({h \in Handlers : Creating(h)}) + Cardinality({n \in todo.names : Missing(n)})
    <= Cardinality(Ids \ Inserted)

SeedNext == (Seed \/ Others) /\ Room'

SeedSpec == SeedInit /\ [][SeedNext]_all

\* Fairness of the lists alone: the seed and the clerks may stop anywhere.
FairSeedSpec == SeedSpec /\ Fairness

-----------------------------------------------------------------------------
(* Properties.                                                             *)

SeedTypeOK ==
  /\ TypeOK
  /\ catalog \subseteq SeedRows
  /\ rules \subseteq [row : catalog, service : Inserted, km : Kms]
  /\ at \in {"off", "find", "service", "row", "rule"}
  /\ todo \in [names : SUBSET SeedNames, rows : SUBSET SeedRows, rules : SUBSET SeedRules]
  /\ idOf \in [SeedNames -> Inserted \cup {Omitted}]
  /\ draft \in [Clerks -> [row : SeedRows, service : Ids, km : Kms] \cup {Omitted}]
  /\ alone \in BOOLEAN /\ quiet \in BOOLEAN /\ whole \in BOOLEAN
  /\ at = "service" => hand \in todo.names
  /\ at = "row" => hand \in todo.rows
  /\ at = "rule" => hand \in todo.rules /\ todo.names = {} /\ hand.row \notin todo.rows
  /\ at # "off" => /\ \A n \in SeedNames : n \in todo.names <=> idOf[n] = Omitted
                   /\ SeedRows \subseteq todo.rows \cup catalog

\* A seed that was cut off anywhere can be run again, any number of times: as
\* long as nobody else has changed a table it never stumbles over what an earlier
\* run left behind (main's find-or-create pairs have no transaction).
SeedResumes ==
  alone => /\ at = "service" => Named(hand) = {}
           /\ at = "row" => hand \notin catalog
           /\ at = "rule" => PairFree(InHand)

\* A rule is the one that seed-data.ts lists as r.
ListedAs(s, r) == s.row = r.row /\ s.km = r.km /\ services[s.service].name = r.name

\* When a seed ended and nobody interfered, everything it lists is there, what
\* administrators created before included; a service may be a removed one.
SeedComplete ==
  whole => /\ \A n \in SeedNames : \E i \in Inserted : services[i].name = n
           /\ SeedRows \subseteq catalog
           /\ \A r \in SeedRules : \E s \in rules : ListedAs(s, r)

\* The inductive invariant: what the seed has dealt with is there, and, as long
\* as it was alone, there is no rule that it does not list.
SeedInv ==
  /\ IInv /\ SeedTypeOK /\ SeedResumes /\ SeedComplete
  /\ at # "off" =>
       /\ alone => quiet
       /\ quiet => /\ \A n \in SeedNames \ todo.names : services[idOf[n]].name = n
                   /\ \A r \in SeedRules \ todo.rules : \E s \in rules : ListedAs(s, r)
  /\ alone => \A s \in rules : \E r \in SeedRules : ListedAs(s, r)
==============================================================================
