--------------------------- MODULE MCConfigCommit ---------------------------
(***************************************************************************)
(* Instances of ConfigCommit for TLC.                                      *)
(***************************************************************************)
EXTENDS ConfigCommit, TLC

Symmetry == Permutations(Admins) \cup Permutations(Visitors)
=============================================================================
