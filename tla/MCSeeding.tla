------------------------------ MODULE MCSeeding ------------------------------
(***************************************************************************)
(* Seeding on a small instance: one service, one brand with one model, and *)
(* one rule, besides what the API's requests insert.                       *)
(***************************************************************************)
EXTENDS Seeding

CONSTANTS brand, model, seeded

MCSeedNames == {seeded}
MCSeedRows  == {<<brand, Omitted>>, <<brand, model>>}
MCSeedRules == {[row |-> <<brand, model>>, name |-> seeded, km |-> 10]}

\* Lists and rules share no state, so the instance does not multiply the two: an
\* administrator's rules are explored while no list is cached or read.
Unmixed ==
  \/ (\A k \in Keys : cache[k] = Miss) /\ \A r \in Readers : ~Reading(r)
  \/ \A c \in Clerks : draft[c] = Omitted /\ \A r \in rules : r.km = 10

MCSpec == SeedInit /\ [][SeedNext /\ Unmixed']_all /\ Fairness
==============================================================================
