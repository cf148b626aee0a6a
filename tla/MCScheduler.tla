---------------------------- MODULE MCScheduler ----------------------------
(***************************************************************************)
(* Instances of Scheduler for TLC.                                         *)
(***************************************************************************)
EXTENDS Scheduler, TLC

CONSTANTS a1, a2

\* Three configurations: one slot each; two slots for a2; and one that drops a1
\* and lifts the limit of a2 altogether.
MCMember == ("one" :> Accounts) @@ ("two" :> Accounts) @@ ("without" :> (Accounts \ {a1}))

MCLimit ==
  ("one" :> [a \in Accounts |-> 1])
    @@ ("two" :> [a \in Accounts |-> IF a = a1 THEN 1 ELSE 2])
    @@ ("without" :> [a \in Accounts |-> IF a = a1 THEN 1 ELSE 0])
=============================================================================
