------------------------------ MODULE MCMileage ------------------------------
(***************************************************************************)
(* Mileage on small instances; handlers and cars are interchangeable.      *)
(***************************************************************************)
EXTENDS Mileage, TLC

Symmetry == Permutations(Handlers) \cup Permutations(Cars)
==============================================================================
