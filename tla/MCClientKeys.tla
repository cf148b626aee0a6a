---------------------------- MODULE MCClientKeys ----------------------------
(***************************************************************************)
(* Instances of ClientKeys for TLC.                                        *)
(***************************************************************************)
EXTENDS ClientKeys, TLC

\* A tight policy, a wider one without a rate limit, and a disabled one.
MCPolicies ==
  { [enabled |-> TRUE, rpm |-> 1, concurrency |-> 1, expires |-> None],
    [enabled |-> TRUE, rpm |-> 0, concurrency |-> 2, expires |-> 1],
    [enabled |-> FALSE, rpm |-> 0, concurrency |-> 1, expires |-> None] }

\* One request a minute, any number at a time.
MCRatePolicies ==
  { [enabled |-> TRUE, rpm |-> 1, concurrency |-> 0, expires |-> None] }

Symmetry == Permutations(Handlers)
=============================================================================
