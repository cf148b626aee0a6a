---------------------------- MODULE MCBodyBudget ----------------------------
(***************************************************************************)
(* Instances of BodyBudget for TLC.                                        *)
(***************************************************************************)
EXTENDS BodyBudget, TLC

Symmetry == Permutations(Handlers)
=============================================================================
