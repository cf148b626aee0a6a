-------------------------- MODULE MCAccountHealth --------------------------
(***************************************************************************)
(* Instances of AccountHealth for TLC.                                     *)
(***************************************************************************)
EXTENDS AccountHealth, TLC

Symmetry == Permutations(Handlers) \cup Permutations(Identities)
=============================================================================
