---------------------------- MODULE LeaseLedger ----------------------------
(***************************************************************************)
(* What the account scheduler promises, without counters, channels or      *)
(* retries.  A request is admitted under the configuration published when  *)
(* it arrives and keeps that configuration until it ends.  A lease on an   *)
(* account is granted only while fewer leases than the limit of the        *)
(* request's own configuration are outstanding, whoever holds them and     *)
(* whatever configuration they were granted under.                         *)
(***************************************************************************)
EXTENDS Integers, FiniteSets

CONSTANTS
  Requests,         \* handlers that ask for a lease
  Accounts,         \* upstream accounts
  Generations,      \* configurations a reload may publish
  FirstGeneration,  \* the configuration published at start-up
  Limit,            \* Limit[g][a]: concurrency of a in g; 0 or less: unlimited
  None              \* "admitted under no configuration"

VARIABLES
  published,  \* the configuration a new request is admitted under
  pinned,     \* the configuration each admitted request runs under
  leases      \* the requests that hold a lease on each account

ledgerVars == <<published, pinned, leases>>

HasRoom(g, a) == Limit[g][a] <= 0 \/ Cardinality(leases[a]) < Limit[g][a]

Init ==
  /\ published = FirstGeneration
  /\ pinned = [r \in Requests |-> None]
  /\ leases = [a \in Accounts |-> {}]

Publish(g) ==
  /\ published' = g
  /\ UNCHANGED <<pinned, leases>>

Admit(r) ==
  /\ pinned[r] = None
  /\ pinned' = [pinned EXCEPT ![r] = published]
  /\ UNCHANGED <<published, leases>>

Grant(r, a) ==
  /\ pinned[r] # None
  /\ \A b \in Accounts : r \notin leases[b]
  /\ HasRoom(pinned[r], a)
  /\ leases' = [leases EXCEPT ![a] = @ \cup {r}]
  /\ UNCHANGED <<published, pinned>>

Return(r, a) ==
  /\ r \in leases[a]
  /\ leases' = [leases EXCEPT ![a] = @ \ {r}]
  /\ UNCHANGED <<published, pinned>>

End(r) ==
  /\ pinned[r] # None
  /\ \A a \in Accounts : r \notin leases[a]
  /\ pinned' = [pinned EXCEPT ![r] = None]
  /\ UNCHANGED <<published, leases>>

Next ==
  \/ \E g \in Generations : Publish(g)
  \/ \E r \in Requests : Admit(r) \/ End(r)
  \/ \E r \in Requests, a \in Accounts : Grant(r, a) \/ Return(r, a)

Spec == Init /\ [][Next]_ledgerVars
=============================================================================
