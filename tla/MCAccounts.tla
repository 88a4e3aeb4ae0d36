----------------------------- MODULE MCAccounts -----------------------------
(***************************************************************************)
(* Accounts on a small instance.                                           *)
(***************************************************************************)
EXTENDS Accounts, TLC

Symmetry ==
  Permutations(Handlers) \cup Permutations(Users) \cup Permutations(Emails) \cup Permutations(Orgs)
==============================================================================
