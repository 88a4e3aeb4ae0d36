------------------------------ MODULE MCOrders ------------------------------
(***************************************************************************)
(* Orders on small instances.  Handlers, parts and orders are              *)
(* interchangeable, so the safety runs use their permutations as symmetry. *)
(***************************************************************************)
EXTENDS Orders, TLC

Symmetry ==
  Permutations(Handlers) \cup Permutations(Parts) \cup Permutations(OrderIds)
==============================================================================
