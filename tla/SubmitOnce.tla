----------------------------- MODULE SubmitOnce -----------------------------
(***************************************************************************)
(* What a client of the gateway may rely on, whatever accounts the request *)
(* was tried on: the work is executed at most once, the request is closed  *)
(* at most once, and it is closed as a success only if the work was done.  *)
(* The work may still be executed after the request was closed as failed.  *)
(***************************************************************************)
EXTENDS Integers

VARIABLES
  executions,  \* how often any upstream has executed the work
  outcome      \* "open", "success" or "failure"

onceVars == <<executions, outcome>>

Init == executions = 0 /\ outcome = "open"

Execute ==
  /\ executions = 0
  /\ executions' = 1
  /\ UNCHANGED outcome

Succeed ==
  /\ outcome = "open"
  /\ executions = 1
  /\ outcome' = "success"
  /\ UNCHANGED executions

GiveUp ==
  /\ outcome = "open"
  /\ outcome' = "failure"
  /\ UNCHANGED executions

Next == Execute \/ Succeed \/ GiveUp

Spec == Init /\ [][Next]_onceVars
=============================================================================
