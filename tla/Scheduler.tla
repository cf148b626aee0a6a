----------------------------- MODULE Scheduler -----------------------------
(***************************************************************************)
(* Account leases and the capacity queue (internal/gateway/runtime.go).    *)
(*                                                                         *)
(* Every request runs SelectForRequest on the scheduler it was pinned to:  *)
(* subscribe to the shared notifier, try the eligible candidates one by    *)
(* one, and sleep when at least one of them was available but full.  The   *)
(* active counters and the notifier are shared by all scheduler            *)
(* generations, so leases outlive a hot reload.  tryAcquire is a load      *)
(* followed by a compare-and-swap; a release is a decrement followed by a  *)
(* broadcast: four separate steps that interleave with everything else.    *)
(*                                                                         *)
(* The order in which candidates are tried (the routing strategy) and the  *)
(* state of their circuits are left open: any remaining candidate may be   *)
(* tried next and may be found unavailable.  A prompt test or capability   *)
(* verification is the request with one candidate that may not wait.       *)
(***************************************************************************)
EXTENDS Integers, FiniteSets

CONSTANTS
  Requests,         \* handler goroutines
  Accounts,         \* account IDs known to the capacity registry
  Generations,      \* configurations a reload may publish
  FirstGeneration,  \* the configuration loaded at start-up
  Member,           \* Member[g]: the enabled accounts of configuration g
  Limit,            \* Limit[g][a]: Account.Concurrency of a in g
  None              \* no account, no configuration

ASSUME SchedulerAssumption ==
  /\ IsFiniteSet(Requests)
  /\ FirstGeneration \in Generations
  /\ Member \in [Generations -> SUBSET Accounts]
  /\ Limit \in [Generations -> [Accounts -> Int]]
  /\ None \notin Accounts
  /\ None \notin Generations

VARIABLES
  generation,  \* configuration of the published runtime state
  active,      \* accountCapacityState.active of every registered account
  woken,       \* requests whose subscribed channel has been closed
  pc,          \* where each request is in SelectForRequest and after it
  pin,         \* the generation whose scheduler the request uses
  wait,        \* wait > 0: the request may join the capacity queue
  eligible,    \* candidates of this call: not excluded, enabled, compatible
  todo,        \* candidates this pass has not looked at yet
  full,        \* candidates this pass found available but at their limit
  account,     \* the candidate being acquired, or the account leased
  seen         \* the value of active loaded before the compare-and-swap

vars == <<generation, active, woken, pc, pin, wait, eligible, todo, full,
          account, seen>>

\* Stages of a request between subscribe and the end of the wait.
Subscribed == {"try", "load", "cas", "wait"}

Stages == Subscribed \cup {"idle", "select", "hold", "notify", "released"}

Holders(a) == {r \in Requests : pc[r] = "hold" /\ account[r] = a}

Unlimited(g, a) == Limit[g][a] <= 0

AtLimit(g, a) == ~Unlimited(g, a) /\ active[a] >= Limit[g][a]

-----------------------------------------------------------------------------
Init ==
  /\ generation = FirstGeneration
  /\ active = [a \in Accounts |-> 0]
  /\ woken = {}
  /\ pc = [r \in Requests |-> "idle"]
  /\ pin = [r \in Requests |-> None]
  /\ wait = [r \in Requests |-> FALSE]
  /\ eligible = [r \in Requests |-> {}]
  /\ todo = [r \in Requests |-> {}]
  /\ full = [r \in Requests |-> {}]
  /\ account = [r \in Requests |-> None]
  /\ seen = [r \in Requests |-> 0]

\* What if a reload started with a registry of its own?
ReloadFreshRegistry(g) ==
  /\ g # generation
  /\ generation' = g
  /\ active' = [a \in Accounts |-> 0]
  /\ UNCHANGED <<woken, pc, pin, wait, eligible, todo, full, account, seen>>

\* A committed reload swaps in a scheduler built over the same registry and
\* notifier.  Accounts that leave the configuration keep their counter.
Reload(g) ==
  /\ g # generation
  /\ generation' = g
  /\ UNCHANGED <<active, woken, pc, pin, wait, eligible, todo, full, account, seen>>

\* A handler pins the published state and calls SelectForRequest.
Arrive(r) ==
  /\ pc[r] = "idle"
  /\ pc' = [pc EXCEPT ![r] = "select"]
  /\ pin' = [pin EXCEPT ![r] = generation]
  /\ \E S \in SUBSET Member[generation] : eligible' = [eligible EXCEPT ![r] = S]
  /\ \E w \in BOOLEAN : wait' = [wait EXCEPT ![r] = w]
  /\ UNCHANGED <<generation, active, woken, todo, full, account, seen>>

\* Top of the loop: take the current channel before looking at any capacity.
Subscribe(r) ==
  /\ pc[r] = "select"
  /\ pc' = [pc EXCEPT ![r] = "try"]
  /\ woken' = woken \ {r}
  /\ todo' = [todo EXCEPT ![r] = eligible[r]]
  /\ full' = [full EXCEPT ![r] = {}]
  /\ UNCHANGED <<generation, active, pin, wait, eligible, account, seen>>

\* The candidate's circuit is open: skipped, and not a reason to wait.
SkipUnavailable(r, a) ==
  /\ pc[r] = "try"
  /\ a \in todo[r]
  /\ todo' = [todo EXCEPT ![r] = @ \ {a}]
  /\ UNCHANGED <<generation, active, woken, pc, pin, wait, eligible, full, account, seen>>

\* The candidate is available: enter its tryAcquire.
Consider(r, a) ==
  /\ pc[r] = "try"
  /\ a \in todo[r]
  /\ pc' = [pc EXCEPT ![r] = "load"]
  /\ todo' = [todo EXCEPT ![r] = @ \ {a}]
  /\ account' = [account EXCEPT ![r] = a]
  /\ UNCHANGED <<generation, active, woken, pin, wait, eligible, full, seen>>

\* The request leaves the select loop holding a lease.
Leased(r) ==
  /\ active' = [active EXCEPT ![account[r]] = @ + 1]
  /\ pc' = [pc EXCEPT ![r] = "hold"]
  /\ woken' = woken \ {r}
  /\ todo' = [todo EXCEPT ![r] = {}]
  /\ full' = [full EXCEPT ![r] = {}]
  /\ seen' = [seen EXCEPT ![r] = 0]
  /\ UNCHANGED <<generation, pin, wait, eligible, account>>

\* What if the limit were read from the configuration published last?
AcquireUnlimitedByPublished(r) ==
  /\ pc[r] = "load"
  /\ Unlimited(generation, account[r])
  /\ Leased(r)

AcquireUnlimited(r) ==
  /\ pc[r] = "load"
  /\ Unlimited(pin[r], account[r])
  /\ Leased(r)

FindFull(r) ==
  /\ pc[r] = "load"
  /\ AtLimit(pin[r], account[r])
  /\ pc' = [pc EXCEPT ![r] = "try"]
  /\ full' = [full EXCEPT ![r] = @ \cup {account[r]}]
  /\ account' = [account EXCEPT ![r] = None]
  /\ UNCHANGED <<generation, active, woken, pin, wait, eligible, todo, seen>>

LoadActive(r) ==
  /\ pc[r] = "load"
  /\ ~Unlimited(pin[r], account[r])
  /\ ~AtLimit(pin[r], account[r])
  /\ pc' = [pc EXCEPT ![r] = "cas"]
  /\ seen' = [seen EXCEPT ![r] = active[account[r]]]
  /\ UNCHANGED <<generation, active, woken, pin, wait, eligible, todo, full, account>>

\* CompareAndSwap(current, current+1) succeeds on the loaded value only.
SwapSucceeds(r) ==
  /\ pc[r] = "cas"
  /\ active[account[r]] = seen[r]
  /\ Leased(r)

SwapFails(r) ==
  /\ pc[r] = "cas"
  /\ active[account[r]] # seen[r]
  /\ pc' = [pc EXCEPT ![r] = "load"]
  /\ seen' = [seen EXCEPT ![r] = 0]
  /\ UNCHANGED <<generation, active, woken, pin, wait, eligible, todo, full, account>>

\* The handler is done with the scheduler: nothing of this call survives.
Leave(r) ==
  /\ pc' = [pc EXCEPT ![r] = "idle"]
  /\ woken' = woken \ {r}
  /\ pin' = [pin EXCEPT ![r] = None]
  /\ wait' = [wait EXCEPT ![r] = FALSE]
  /\ eligible' = [eligible EXCEPT ![r] = {}]
  /\ todo' = [todo EXCEPT ![r] = {}]
  /\ full' = [full EXCEPT ![r] = {}]
  /\ account' = [account EXCEPT ![r] = None]
  /\ UNCHANGED <<generation, active, seen>>

\* No candidate, none available, no permission to wait, or no time left.
Refuse(r) ==
  /\ pc[r] = "try"
  /\ todo[r] = {}
  /\ Leave(r)

\* What if the request subscribed only when it decides to sleep?
SubscribeLate(r) ==
  /\ pc[r] = "try"
  /\ todo[r] = {}
  /\ full[r] # {}
  /\ wait[r]
  /\ pc' = [pc EXCEPT ![r] = "wait"]
  /\ woken' = woken \ {r}
  /\ UNCHANGED <<generation, active, pin, wait, eligible, todo, full, account, seen>>

\* capacityBlocked: sleep on the channel subscribed to before the pass.
Sleep(r) ==
  /\ pc[r] = "try"
  /\ todo[r] = {}
  /\ full[r] # {}
  /\ wait[r]
  /\ pc' = [pc EXCEPT ![r] = "wait"]
  /\ UNCHANGED <<generation, active, woken, pin, wait, eligible, todo, full, account, seen>>

WakeUp(r) ==
  /\ pc[r] = "wait"
  /\ r \in woken
  /\ pc' = [pc EXCEPT ![r] = "select"]
  /\ UNCHANGED <<generation, active, woken, pin, wait, eligible, todo, full, account, seen>>

\* The queue timer fires or the client goes away.
GiveUp(r) ==
  /\ pc[r] = "wait"
  /\ Leave(r)

Release(r) ==
  /\ pc[r] = "hold"
  /\ active' = [active EXCEPT ![account[r]] = @ - 1]
  /\ pc' = [pc EXCEPT ![r] = "notify"]
  /\ UNCHANGED <<generation, woken, pin, wait, eligible, todo, full, account, seen>>

\* What if a release were not announced at all?
BroadcastNothing(r) ==
  /\ pc[r] = "notify"
  /\ pc' = [pc EXCEPT ![r] = "released"]
  /\ UNCHANGED <<generation, active, woken, pin, wait, eligible, todo, full, account, seen>>

\* Closing the shared channel wakes everyone who subscribed to it, asleep or
\* still on its way to sleep.
Broadcast(r) ==
  /\ pc[r] = "notify"
  /\ woken' = {s \in Requests : pc[s] \in Subscribed} \cup woken
  /\ pc' = [pc EXCEPT ![r] = "released"]
  /\ UNCHANGED <<generation, active, pin, wait, eligible, todo, full, account, seen>>

\* The next attempt of the failover loop, still on the pinned scheduler.  It
\* may queue again only while no upstream response is buffered.
Failover(r) ==
  /\ pc[r] = "released"
  /\ pc' = [pc EXCEPT ![r] = "select"]
  /\ \E S \in SUBSET (eligible[r] \ {account[r]}) :
       eligible' = [eligible EXCEPT ![r] = S]
  /\ \E w \in {FALSE, wait[r]} : wait' = [wait EXCEPT ![r] = w]
  /\ account' = [account EXCEPT ![r] = None]
  /\ UNCHANGED <<generation, active, woken, pin, todo, full, seen>>

Finish(r) ==
  /\ pc[r] = "released"
  /\ Leave(r)

-----------------------------------------------------------------------------
\* Steps a handler goroutine takes without waiting for anyone else.
Progress(r) ==
  \/ Subscribe(r)
  \/ \E a \in Accounts : SkipUnavailable(r, a) \/ Consider(r, a)
  \/ AcquireUnlimited(r) \/ FindFull(r) \/ LoadActive(r)
  \/ SwapSucceeds(r) \/ SwapFails(r)
  \/ Refuse(r) \/ Sleep(r) \/ WakeUp(r)
  \/ Broadcast(r) \/ Failover(r) \/ Finish(r)

Next ==
  \/ \E g \in Generations : Reload(g)
  \/ \E r \in Requests : Arrive(r) \/ Progress(r) \/ GiveUp(r) \/ Release(r)

Spec == Init /\ [][Next]_vars

\* A runnable goroutine keeps running and an upstream call ends (its timeouts
\* are modelled elsewhere).  No fairness for the queue timer: the wake-up has
\* to come from the notifier.
FairSpec == Spec /\ \A r \in Requests : WF_vars(Progress(r)) /\ WF_vars(Release(r))

-----------------------------------------------------------------------------
TypeOK ==
  /\ generation \in Generations
  /\ active \in [Accounts -> Int]
  /\ woken \in SUBSET Requests
  /\ pc \in [Requests -> Stages]
  /\ pin \in [Requests -> Generations \cup {None}]
  /\ wait \in [Requests -> BOOLEAN]
  /\ eligible \in [Requests -> SUBSET Accounts]
  /\ todo \in [Requests -> SUBSET Accounts]
  /\ full \in [Requests -> SUBSET Accounts]
  /\ account \in [Requests -> Accounts \cup {None}]
  /\ seen \in [Requests -> Int]

\* The counter of an account is the number of requests holding a lease on it,
\* across reloads, failed swaps, removal and re-adding of the account.
LeasesCounted == \A a \in Accounts : active[a] = Cardinality(Holders(a))

\* No lost wake-up: a request asleep on an open channel saw accounts that are
\* still at its limit, or a releaser is about to broadcast.
NoLostWakeup ==
  \A r \in Requests :
    pc[r] = "wait" /\ r \notin woken =>
      \/ \A a \in full[r] : AtLimit(pin[r], a)
      \/ \E s \in Requests : pc[s] = "notify"

\* Nobody waits for nothing: while a request sleeps on an open channel some
\* other request holds a lease it is waiting for, or is about to broadcast.
SleeperHasWaker ==
  \A r \in Requests :
    pc[r] = "wait" /\ r \notin woken =>
      \/ \E a \in full[r] : Holders(a) # {}
      \/ \E s \in Requests : pc[s] = "notify"

\* However often the configuration changes, an account that every
\* configuration limits never has more leases than the largest limit any
\* configuration gives it.
WithinSomeLimit ==
  \A a \in Accounts :
    (\A g \in Generations : ~Unlimited(g, a)) =>
      \E g \in Generations : Cardinality(Holders(a)) <= Limit[g][a]

\* Whatever interleaving of loads, swaps, releases and reloads: the counters
\* are well formed, exact, and within a limit that was in force.
LeasesExact == TypeOK /\ LeasesCounted /\ WithinSomeLimit

\* The capacity queue loses no wake-up and has somebody to wake every sleeper.
SleepersAreWatched == NoLostWakeup /\ SleeperHasWaker

\* A sleeper whose account has room is woken, or the room is taken by
\* somebody else, without any help from the queue timer.
FreedSlotIsNoticed ==
  \A r \in Requests : \A a \in Accounts :
    (pc[r] = "wait" /\ a \in full[r] /\ ~AtLimit(pin[r], a))
      ~> (pc[r] # "wait" \/ AtLimit(pin[r], a))

-----------------------------------------------------------------------------
\* The scheduler implements the lease ledger.
Ledger == INSTANCE LeaseLedger WITH
  published <- generation,
  pinned <- pin,
  leases <- [a \in Accounts |-> Holders(a)]

ImplementsLedger == Ledger!Spec
=============================================================================
