----------------------------- MODULE MCReadiness -----------------------------
(***************************************************************************)
(* Instances of Readiness for TLC.                                         *)
(***************************************************************************)
EXTENDS Readiness, TLC

CONSTANTS s1, s2, ra, rb, f, g, h1, h2

MCRouteOf == (s1 :> ra) @@ (s2 :> rb)

MCTargetOf == (s1 :> "x") @@ (s2 :> "y")

\* A route is replaced under its alias; another one comes and goes.
MCConfigs ==
  { (ra :> f) @@ (rb :> None), (ra :> g) @@ (rb :> f) }

MCCircuits == { {}, {s1} }

MCSymmetry == Permutations({h1, h2})
=============================================================================
