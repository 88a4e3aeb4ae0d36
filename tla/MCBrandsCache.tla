---------------------------- MODULE MCBrandsCache ----------------------------
(***************************************************************************)
(* BrandsCache on small instances; handlers, brands and names are          *)
(* interchangeable.                                                        *)
(***************************************************************************)
EXTENDS BrandsCache, TLC

Symmetry ==
  Permutations(Handlers) \cup Permutations(Brands) \cup Permutations(Names)
==============================================================================
