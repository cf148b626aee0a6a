-------------------------- MODULE Scheduler_proofs --------------------------
(***************************************************************************)
(* Proofs about Scheduler for every number of requests, accounts and       *)
(* configurations and for all concurrency limits.                          *)
(***************************************************************************)
EXTENDS Scheduler, FiniteSetTheorems, TLAPS

-----------------------------------------------------------------------------
(* The inductive invariant.                                                *)

\* What the stage of a request says about its other fields.
StageInv ==
  \A r \in Requests :
    /\ pc[r] = "idle" <=> pin[r] = None
    /\ account[r] \in Accounts <=> pc[r] \in {"load", "cas", "hold", "notify", "released"}
    /\ pc[r] = "cas" => /\ ~Unlimited(pin[r], account[r])
                        /\ seen[r] < Limit[pin[r]][account[r]]
    /\ pc[r] = "wait" => full[r] # {}

\* The no-lost-wake-up argument starts at the subscription, not at the sleep:
\* whatever was found full since then is still full, or a broadcast that will
\* close the subscribed channel is on its way.
WatchInv ==
  \A r \in Requests :
    pc[r] \in Subscribed /\ r \notin woken =>
      \/ \A a \in full[r] : AtLimit(pin[r], a)
      \/ \E s \in Requests : pc[s] = "notify"

\* The bound of WithinSomeLimit on the counter itself.
BoundInv ==
  \A a \in Accounts :
    (\A g \in Generations : ~Unlimited(g, a)) =>
      \E g \in Generations : active[a] <= Limit[g][a]

IInv == TypeOK /\ StageInv /\ LeasesCounted /\ WatchInv /\ BoundInv

-----------------------------------------------------------------------------
(* Types and stages are preserved together: a full candidate is recorded    *)
(* from account, which StageInv knows to be an account by then.             *)

\* The initial state is typed and every request is idle.
LEMMA InitTyped == Init => TypeOK /\ StageInv
  BY SchedulerAssumption DEF Init, TypeOK, StageInv, Stages

\* Every step keeps the types.
LEMMA TypeStep == TypeOK /\ StageInv /\ [Next]_vars => TypeOK'
<1> SUFFICES ASSUME TypeOK, StageInv, [Next]_vars PROVE TypeOK'
  OBVIOUS
<1> USE SchedulerAssumption DEF TypeOK, Stages, Subscribed, StageInv
<1>1. ASSUME NEW g \in Generations, Reload(g) PROVE TypeOK'
  BY <1>1 DEF Reload
<1>2. ASSUME NEW r \in Requests, Arrive(r) PROVE TypeOK'
  BY <1>2 DEF Arrive
<1>3. ASSUME NEW r \in Requests, Subscribe(r) PROVE TypeOK'
  BY <1>3 DEF Subscribe
<1>4. ASSUME NEW r \in Requests, NEW a \in Accounts, SkipUnavailable(r, a) PROVE TypeOK'
  BY <1>4 DEF SkipUnavailable
<1>5. ASSUME NEW r \in Requests, NEW a \in Accounts, Consider(r, a) PROVE TypeOK'
  BY <1>5 DEF Consider
<1>6. ASSUME NEW r \in Requests, AcquireUnlimited(r) PROVE TypeOK'
  BY <1>6 DEF AcquireUnlimited, Leased
<1>7. ASSUME NEW r \in Requests, FindFull(r) PROVE TypeOK'
  BY <1>7 DEF FindFull
<1>8. ASSUME NEW r \in Requests, LoadActive(r) PROVE TypeOK'
  BY <1>8 DEF LoadActive
<1>9. ASSUME NEW r \in Requests, SwapSucceeds(r) PROVE TypeOK'
  BY <1>9 DEF SwapSucceeds, Leased
<1>10. ASSUME NEW r \in Requests, SwapFails(r) PROVE TypeOK'
  BY <1>10 DEF SwapFails
<1>11. ASSUME NEW r \in Requests, Refuse(r) PROVE TypeOK'
  BY <1>11 DEF Refuse, Leave
<1>12. ASSUME NEW r \in Requests, Sleep(r) PROVE TypeOK'
  BY <1>12 DEF Sleep
<1>13. ASSUME NEW r \in Requests, WakeUp(r) PROVE TypeOK'
  BY <1>13 DEF WakeUp
<1>14. ASSUME NEW r \in Requests, GiveUp(r) PROVE TypeOK'
  BY <1>14 DEF GiveUp, Leave
<1>15. ASSUME NEW r \in Requests, Release(r) PROVE TypeOK'
  BY <1>15 DEF Release
<1>16. ASSUME NEW r \in Requests, Broadcast(r) PROVE TypeOK'
  BY <1>16 DEF Broadcast
<1>17. ASSUME NEW r \in Requests, Failover(r) PROVE TypeOK'
  <2>1. wait' \in [Requests -> BOOLEAN]
    <3>1. PICK w \in {FALSE, wait[r]} : wait' = [wait EXCEPT ![r] = w]
      BY <1>17 DEF Failover
    <3>2. w \in BOOLEAN
      BY <3>1
    <3>3. QED
      BY <3>1, <3>2, Zenon
  <2>2. eligible' \in [Requests -> SUBSET Accounts]
    BY <1>17 DEF Failover
  <2>3. QED
    BY <1>17, <2>1, <2>2 DEF Failover
<1>18. ASSUME NEW r \in Requests, Finish(r) PROVE TypeOK'
  BY <1>18 DEF Finish, Leave
<1>19. CASE UNCHANGED vars
  BY <1>19 DEF vars
<1>20. QED
  BY <1>1, <1>2, <1>3, <1>4, <1>5, <1>6, <1>7, <1>8, <1>9, <1>10, <1>11, <1>12, <1>13, <1>14, <1>15, <1>16, <1>17, <1>18, <1>19 DEF Next, Progress

\* Every step keeps the fields of a request in step with its stage.
LEMMA StageStep == TypeOK /\ StageInv /\ [Next]_vars => StageInv'
<1> SUFFICES ASSUME TypeOK, StageInv, [Next]_vars PROVE StageInv'
  OBVIOUS
<1> USE SchedulerAssumption DEF TypeOK, Stages, Subscribed, StageInv, Unlimited, AtLimit
<1>1. ASSUME NEW g \in Generations, Reload(g) PROVE StageInv'
  BY <1>1 DEF Reload
<1>2. ASSUME NEW r \in Requests, Arrive(r) PROVE StageInv'
  BY <1>2 DEF Arrive
<1>3. ASSUME NEW r \in Requests, Subscribe(r) PROVE StageInv'
  BY <1>3 DEF Subscribe
<1>4. ASSUME NEW r \in Requests, NEW a \in Accounts, SkipUnavailable(r, a) PROVE StageInv'
  BY <1>4 DEF SkipUnavailable
<1>5. ASSUME NEW r \in Requests, NEW a \in Accounts, Consider(r, a) PROVE StageInv'
  BY <1>5 DEF Consider
<1>6. ASSUME NEW r \in Requests, AcquireUnlimited(r) PROVE StageInv'
  BY <1>6 DEF AcquireUnlimited, Leased
<1>7. ASSUME NEW r \in Requests, FindFull(r) PROVE StageInv'
  BY <1>7 DEF FindFull
<1>8. ASSUME NEW r \in Requests, LoadActive(r) PROVE StageInv'
  BY <1>8 DEF LoadActive
<1>9. ASSUME NEW r \in Requests, SwapSucceeds(r) PROVE StageInv'
  BY <1>9 DEF SwapSucceeds, Leased
<1>10. ASSUME NEW r \in Requests, SwapFails(r) PROVE StageInv'
  BY <1>10 DEF SwapFails
<1>11. ASSUME NEW r \in Requests, Refuse(r) PROVE StageInv'
  BY <1>11 DEF Refuse, Leave
<1>12. ASSUME NEW r \in Requests, Sleep(r) PROVE StageInv'
  BY <1>12 DEF Sleep
<1>13. ASSUME NEW r \in Requests, WakeUp(r) PROVE StageInv'
  BY <1>13 DEF WakeUp
<1>14. ASSUME NEW r \in Requests, GiveUp(r) PROVE StageInv'
  BY <1>14 DEF GiveUp, Leave
<1>15. ASSUME NEW r \in Requests, Release(r) PROVE StageInv'
  BY <1>15 DEF Release
<1>16. ASSUME NEW r \in Requests, Broadcast(r) PROVE StageInv'
  BY <1>16 DEF Broadcast
<1>17. ASSUME NEW r \in Requests, Failover(r) PROVE StageInv'
  BY <1>17 DEF Failover
<1>18. ASSUME NEW r \in Requests, Finish(r) PROVE StageInv'
  BY <1>18 DEF Finish, Leave
<1>19. CASE UNCHANGED vars
  BY <1>19 DEF vars
<1>20. QED
  BY <1>1, <1>2, <1>3, <1>4, <1>5, <1>6, <1>7, <1>8, <1>9, <1>10, <1>11, <1>12, <1>13, <1>14, <1>15, <1>16, <1>17, <1>18, <1>19 DEF Next, Progress

-----------------------------------------------------------------------------
(* What a step does to the leases: nothing, one more, or one fewer.        *)

\* There are finitely many leases.
LEMMA FiniteHolders == \A a \in Accounts : IsFiniteSet(Holders(a))
  BY SchedulerAssumption, FS_Subset DEF Holders

\* Leased(r), from a stage that holds nothing: one holder more on the chosen
\* account and one more in its counter.
LEMMA GrantStep ==
  ASSUME TypeOK, StageInv, NEW r \in Requests, pc[r] \in {"load", "cas"}, Leased(r),
         NEW a \in Accounts
  PROVE  /\ a = account[r] => /\ Holders(a)' = Holders(a) \cup {r}
                              /\ r \notin Holders(a)
                              /\ active'[a] = active[a] + 1
         /\ a # account[r] => Holders(a)' = Holders(a) /\ active'[a] = active[a]
  BY DEF TypeOK, StageInv, Stages, Leased, Holders

\* Release(r): one holder fewer and one fewer in the counter.
LEMMA ReturnStep ==
  ASSUME TypeOK, StageInv, NEW r \in Requests, Release(r), NEW a \in Accounts
  PROVE  /\ a = account[r] => /\ Holders(a)' = Holders(a) \ {r}
                              /\ r \in Holders(a)
                              /\ active'[a] = active[a] - 1
         /\ a # account[r] => Holders(a)' = Holders(a) /\ active'[a] = active[a]
  BY DEF TypeOK, StageInv, Stages, Release, Holders

\* The steps that change a counter, and what all the others have in common.
LeaseStep(r) == AcquireUnlimited(r) \/ SwapSucceeds(r) \/ Release(r)

Quiet == UNCHANGED active /\ \A a \in Accounts : Holders(a)' = Holders(a)

\* Steps that leave the counters and the leases alone keep the count.
LEMMA QuietStep ==
  ASSUME TypeOK, StageInv, [Next]_vars, \A r \in Requests : ~LeaseStep(r)
  PROVE  Quiet
<1> USE DEF TypeOK, StageInv, Stages, Holders, Quiet
<1>1. ASSUME NEW g \in Generations, Reload(g) PROVE Quiet
  BY <1>1 DEF Reload
<1>2. ASSUME NEW r \in Requests, Arrive(r) PROVE Quiet
  BY <1>2 DEF Arrive
<1>3. ASSUME NEW r \in Requests, Subscribe(r) PROVE Quiet
  BY <1>3 DEF Subscribe
<1>4. ASSUME NEW r \in Requests, NEW a \in Accounts, SkipUnavailable(r, a) PROVE Quiet
  BY <1>4 DEF SkipUnavailable
<1>5. ASSUME NEW r \in Requests, NEW a \in Accounts, Consider(r, a) PROVE Quiet
  BY <1>5 DEF Consider
<1>6. ASSUME NEW r \in Requests, FindFull(r) PROVE Quiet
  BY <1>6 DEF FindFull
<1>7. ASSUME NEW r \in Requests, LoadActive(r) PROVE Quiet
  BY <1>7 DEF LoadActive
<1>8. ASSUME NEW r \in Requests, SwapFails(r) PROVE Quiet
  BY <1>8 DEF SwapFails
<1>9. ASSUME NEW r \in Requests, Refuse(r) PROVE Quiet
  BY <1>9 DEF Refuse, Leave
<1>10. ASSUME NEW r \in Requests, Sleep(r) PROVE Quiet
  BY <1>10 DEF Sleep
<1>11. ASSUME NEW r \in Requests, WakeUp(r) PROVE Quiet
  BY <1>11 DEF WakeUp
<1>12. ASSUME NEW r \in Requests, GiveUp(r) PROVE Quiet
  BY <1>12 DEF GiveUp, Leave
<1>13. ASSUME NEW r \in Requests, Broadcast(r) PROVE Quiet
  BY <1>13 DEF Broadcast
<1>14. ASSUME NEW r \in Requests, Failover(r) PROVE Quiet
  BY <1>14 DEF Failover
<1>15. ASSUME NEW r \in Requests, Finish(r) PROVE Quiet
  BY <1>15 DEF Finish, Leave
<1>16. CASE UNCHANGED vars
  BY <1>16 DEF vars
<1>17. QED
  BY <1>1, <1>2, <1>3, <1>4, <1>5, <1>6, <1>7, <1>8, <1>9, <1>10, <1>11, <1>12, <1>13, <1>14, <1>15, <1>16 DEF Next, Progress, LeaseStep

-----------------------------------------------------------------------------
(* The counter counts the leases.                                          *)

\* Every step keeps counters and leases equal.
LEMMA CountStep ==
  ASSUME TypeOK, StageInv, LeasesCounted, [Next]_vars
  PROVE  LeasesCounted'
<1>1. ASSUME NEW r \in Requests, AcquireUnlimited(r) \/ SwapSucceeds(r)
      PROVE  LeasesCounted'
  <2>1. pc[r] \in {"load", "cas"} /\ Leased(r)
    BY <1>1 DEF AcquireUnlimited, SwapSucceeds
  <2>2. SUFFICES ASSUME NEW a \in Accounts PROVE active'[a] = Cardinality(Holders(a)')
    BY DEF LeasesCounted
  <2>3. CASE a = account[r]
    <3>1. Cardinality(Holders(a) \cup {r}) = Cardinality(Holders(a)) + 1
      BY <2>1, <2>3, GrantStep, FiniteHolders, FS_AddElement
    <3>2. QED
      BY <2>1, <2>3, <3>1, GrantStep DEF LeasesCounted
  <2>4. CASE a # account[r]
    BY <2>1, <2>4, GrantStep DEF LeasesCounted
  <2>5. QED
    BY <2>3, <2>4
<1>2. ASSUME NEW r \in Requests, Release(r) PROVE LeasesCounted'
  <2>1. SUFFICES ASSUME NEW a \in Accounts PROVE active'[a] = Cardinality(Holders(a)')
    BY DEF LeasesCounted
  <2>2. CASE a = account[r]
    <3>1. Cardinality(Holders(a) \ {r}) = Cardinality(Holders(a)) - 1
      BY <1>2, <2>2, ReturnStep, FiniteHolders, FS_RemoveElement
    <3>2. QED
      BY <1>2, <2>2, <3>1, ReturnStep DEF LeasesCounted
  <2>3. CASE a # account[r]
    BY <1>2, <2>3, ReturnStep DEF LeasesCounted
  <2>4. QED
    BY <2>2, <2>3
<1>3. CASE \A r \in Requests : ~LeaseStep(r)
  BY <1>3, QuietStep DEF Quiet, LeasesCounted
<1>4. QED
  BY <1>1, <1>2, <1>3 DEF LeaseStep

-----------------------------------------------------------------------------
(* A lease is granted under the limit of the request's own configuration.  *)

\* A lease is granted only under the limit of the request's configuration:
\* the swap succeeds on the very value that was compared with it.
LEMMA GrantedUnderLimit ==
  ASSUME TypeOK, StageInv, NEW r \in Requests, AcquireUnlimited(r) \/ SwapSucceeds(r)
  PROVE  /\ pin[r] \in Generations
         /\ account[r] \in Accounts
         /\ \/ Unlimited(pin[r], account[r])
            \/ active[account[r]] < Limit[pin[r]][account[r]]
<1>1. CASE AcquireUnlimited(r)
  BY <1>1 DEF AcquireUnlimited, TypeOK, StageInv
<1>2. CASE SwapSucceeds(r)
  BY <1>2 DEF SwapSucceeds, TypeOK, StageInv
<1>3. QED
  BY <1>1, <1>2

\* Every step keeps the bound over all configurations.
LEMMA BoundStep ==
  ASSUME TypeOK, StageInv, BoundInv, [Next]_vars
  PROVE  BoundInv'
<1> SUFFICES ASSUME NEW a \in Accounts, \A g \in Generations : ~Unlimited(g, a)
             PROVE  \E g \in Generations : active'[a] <= Limit[g][a]
  BY DEF BoundInv, Unlimited
<1>1. PICK g \in Generations : active[a] <= Limit[g][a]
  BY DEF BoundInv
<1> USE SchedulerAssumption DEF TypeOK
<1>2. ASSUME NEW r \in Requests, AcquireUnlimited(r) \/ SwapSucceeds(r)
      PROVE  \E h \in Generations : active'[a] <= Limit[h][a]
  <2>1. pc[r] \in {"load", "cas"} /\ Leased(r)
    BY <1>2 DEF AcquireUnlimited, SwapSucceeds
  <2>2. CASE a = account[r]
    BY <1>2, <2>1, <2>2, GrantedUnderLimit, GrantStep
  <2>3. CASE a # account[r]
    BY <1>1, <2>1, <2>3, GrantStep
  <2>4. QED
    BY <2>2, <2>3
<1>3. ASSUME NEW r \in Requests, Release(r)
      PROVE  \E h \in Generations : active'[a] <= Limit[h][a]
  BY <1>1, <1>3, ReturnStep
<1>4. CASE \A r \in Requests : ~LeaseStep(r)
  BY <1>1, <1>4, QuietStep DEF Quiet
<1>5. QED
  BY <1>2, <1>3, <1>4 DEF LeaseStep

-----------------------------------------------------------------------------
(* No wake-up is lost.                                                     *)

\* Every step keeps a subscriber informed.
LEMMA WatchStep ==
  ASSUME TypeOK, StageInv, TypeOK', StageInv', WatchInv, [Next]_vars
  PROVE  WatchInv'
<1> DEFINE Full(s) == \A b \in full'[s] : /\ ~Unlimited(pin'[s], b)
                                          /\ active'[b] >= Limit[pin'[s]][b]
           Notifier == \E q \in Requests : pc'[q] = "notify"
<1> SUFFICES ASSUME NEW s \in Requests, pc'[s] \in Subscribed, s \notin woken'
             PROVE  Full(s) \/ Notifier
  BY DEF WatchInv, AtLimit, Unlimited
<1> DEFINE Watched == Full(s) \/ Notifier
<1> USE SchedulerAssumption DEF TypeOK, StageInv, WatchInv, Stages, Subscribed, AtLimit, Unlimited
<1>1. ASSUME NEW g \in Generations, Reload(g) PROVE Watched
  BY <1>1 DEF Reload
<1>2. ASSUME NEW r \in Requests, Arrive(r) PROVE Watched
  BY <1>2 DEF Arrive
<1>3. ASSUME NEW r \in Requests, Subscribe(r) PROVE Watched
  BY <1>3 DEF Subscribe
<1>4. ASSUME NEW r \in Requests, NEW a \in Accounts, SkipUnavailable(r, a) PROVE Watched
  BY <1>4 DEF SkipUnavailable
<1>5. ASSUME NEW r \in Requests, NEW a \in Accounts, Consider(r, a) PROVE Watched
  BY <1>5 DEF Consider
<1>6. ASSUME NEW r \in Requests, AcquireUnlimited(r) PROVE Watched
  BY <1>6 DEF AcquireUnlimited, Leased
<1>7. ASSUME NEW r \in Requests, FindFull(r) PROVE Watched
  BY <1>7 DEF FindFull
<1>8. ASSUME NEW r \in Requests, LoadActive(r) PROVE Watched
  BY <1>8 DEF LoadActive
<1>9. ASSUME NEW r \in Requests, SwapSucceeds(r) PROVE Watched
  BY <1>9 DEF SwapSucceeds, Leased
<1>10. ASSUME NEW r \in Requests, SwapFails(r) PROVE Watched
  BY <1>10 DEF SwapFails
<1>11. ASSUME NEW r \in Requests, Refuse(r) PROVE Watched
  BY <1>11 DEF Refuse, Leave
<1>12. ASSUME NEW r \in Requests, Sleep(r) PROVE Watched
  BY <1>12 DEF Sleep
<1>13. ASSUME NEW r \in Requests, WakeUp(r) PROVE Watched
  BY <1>13 DEF WakeUp
<1>14. ASSUME NEW r \in Requests, GiveUp(r) PROVE Watched
  BY <1>14 DEF GiveUp, Leave
<1>15. ASSUME NEW r \in Requests, Release(r) PROVE Watched
  BY <1>15 DEF Release
<1>16. ASSUME NEW r \in Requests, Broadcast(r) PROVE Watched
  BY <1>16 DEF Broadcast
<1>17. ASSUME NEW r \in Requests, Failover(r) PROVE Watched
  BY <1>17 DEF Failover
<1>18. ASSUME NEW r \in Requests, Finish(r) PROVE Watched
  BY <1>18 DEF Finish, Leave
<1>19. CASE UNCHANGED vars
  BY <1>19 DEF vars
<1>20. QED
  BY <1>1, <1>2, <1>3, <1>4, <1>5, <1>6, <1>7, <1>8, <1>9, <1>10, <1>11, <1>12, <1>13, <1>14, <1>15, <1>16, <1>17, <1>18, <1>19 DEF Next, Progress

-----------------------------------------------------------------------------
(* Safety of every behaviour.                                              *)

\* The invariant holds at start-up.
LEMMA InvariantInit == Init => IInv
<1> SUFFICES ASSUME Init PROVE IInv
  OBVIOUS
<1>1. TypeOK /\ StageInv
  BY InitTyped
<1>2. LeasesCounted
  <2>1. \A a \in Accounts : Holders(a) = {}
    BY DEF Init, Holders
  <2>2. QED
    BY <2>1, FS_EmptySet DEF Init, LeasesCounted
<1>3. WatchInv
  BY DEF Init, WatchInv, Subscribed
<1>4. BoundInv
  BY SchedulerAssumption DEF Init, BoundInv, Unlimited
<1>5. QED
  BY <1>1, <1>2, <1>3, <1>4 DEF IInv

\* The invariant is inductive.
LEMMA InvariantStep == IInv /\ [Next]_vars => IInv'
<1> SUFFICES ASSUME IInv, [Next]_vars PROVE IInv'
  OBVIOUS
<1>1. TypeOK' /\ StageInv'
  BY TypeStep, StageStep DEF IInv
<1>2. QED
  BY <1>1, CountStep, WatchStep, BoundStep DEF IInv

\* The invariant holds in every reachable state, for every instance.
THEOREM SchedulerInvariant == Spec => []IInv
  BY InvariantInit, InvariantStep, PTL DEF Spec

\* Every variable keeps its type under every interleaving.
THEOREM SchedulerTypeOK == Spec => []TypeOK
  BY SchedulerInvariant, PTL DEF IInv

\* runtime.go tryAcquire/release: the shared counter is exactly the number of
\* leases outstanding, so a reload, a removal or a re-added account can neither
\* leak capacity nor hand it out twice.
THEOREM SchedulerLeasesCounted == Spec => []LeasesCounted
  BY SchedulerInvariant, PTL DEF IInv

\* runtime.go SelectForRequest: subscribing before inspecting capacity leaves no
\* window in which a release goes unnoticed.
THEOREM SchedulerNoLostWakeup == Spec => []NoLostWakeup
<1>1. IInv => NoLostWakeup
  BY DEF IInv, WatchInv, NoLostWakeup, Subscribed
<1>2. QED
  BY <1>1, SchedulerInvariant, PTL

\* A sleeper always has somebody to wake it: the queue cannot deadlock on an
\* idle account.
THEOREM SchedulerSleeperHasWaker == Spec => []SleeperHasWaker
<1>1. IInv => SleeperHasWaker
  <2>1. SUFFICES ASSUME IInv, NEW r \in Requests, pc[r] = "wait", r \notin woken,
                        \A s \in Requests : pc[s] # "notify"
                 PROVE  \E a \in full[r] : Holders(a) # {}
    BY DEF SleeperHasWaker
  <2>2. PICK a \in full[r] : AtLimit(pin[r], a)
    BY <2>1 DEF IInv, StageInv, WatchInv, Subscribed
  <2>3. a \in Accounts /\ pin[r] \in Generations
    BY <2>1, <2>2 DEF IInv, TypeOK, StageInv
  <2>4. active[a] > 0
    BY <2>1, <2>2, <2>3, SchedulerAssumption DEF AtLimit, Unlimited, IInv, TypeOK
  <2>5. Cardinality(Holders(a)) > 0
    BY <2>1, <2>3, <2>4 DEF IInv, LeasesCounted
  <2>6. Holders(a) # {}
    BY <2>5, FS_EmptySet
  <2>7. QED
    BY <2>2, <2>6
<1>2. QED
  BY <1>1, SchedulerInvariant, PTL

\* An account limited by every configuration never carries more leases than the
\* largest of those limits, however reloads and pinned requests interleave.
THEOREM SchedulerWithinSomeLimit == Spec => []WithinSomeLimit
<1>1. IInv => WithinSomeLimit
  BY DEF IInv, BoundInv, LeasesCounted, WithinSomeLimit
<1>2. QED
  BY <1>1, SchedulerInvariant, PTL

\* runtime.go tryAcquire/release: the whole of what a counter must satisfy.
THEOREM SchedulerLeasesExact == Spec => []LeasesExact
  BY SchedulerTypeOK, SchedulerLeasesCounted, SchedulerWithinSomeLimit, PTL DEF LeasesExact

\* runtime.go SelectForRequest: the whole of what a sleeper is promised.
THEOREM SchedulerSleepersAreWatched == Spec => []SleepersAreWatched
  BY SchedulerNoLostWakeup, SchedulerSleeperHasWaker, PTL DEF SleepersAreWatched

-----------------------------------------------------------------------------
(* The scheduler implements the lease ledger.                              *)

\* The two modules count alike.
LEMMA LedgerCardinality == \A S : Ledger!Cardinality(S) = Cardinality(S)
  BY DEF Cardinality, Ledger!Cardinality

\* Initial states map to initial states.
LEMMA LedgerInit == Init => Ledger!Init
<1> SUFFICES ASSUME Init PROVE Ledger!Init
  OBVIOUS
<1>1. \A a \in Accounts : Holders(a) = {}
  BY DEF Init, Holders
<1>2. QED
  BY <1>1 DEF Init, Ledger!Init

\* A granted lease has room in the ledger because the counter is the number of
\* leases and the swap succeeded below the limit.
LEMMA LedgerGrant ==
  ASSUME IInv, NEW r \in Requests, AcquireUnlimited(r) \/ SwapSucceeds(r)
  PROVE  Ledger!Grant(r, account[r])
<1> DEFINE a == account[r]
<1>1. pc[r] \in {"load", "cas"} /\ Leased(r)
  BY DEF AcquireUnlimited, SwapSucceeds
<1>2. /\ pin[r] \in Generations
      /\ a \in Accounts
      /\ Limit[pin[r]][a] <= 0 \/ Cardinality(Holders(a)) < Limit[pin[r]][a]
  BY GrantedUnderLimit DEF IInv, LeasesCounted, Unlimited
<1>3. \A b \in Accounts : r \notin Holders(b)
  BY <1>1 DEF Holders
<1>4. [b \in Accounts |-> Holders(b)]'
        = [[b \in Accounts |-> Holders(b)] EXCEPT ![a] = @ \cup {r}]
  BY <1>1, <1>2, GrantStep DEF IInv
<1>5. UNCHANGED <<generation, pin>>
  BY <1>1 DEF Leased
<1>6. pin[r] # None
  BY <1>2, SchedulerAssumption
<1>7. QED
  BY <1>2, <1>3, <1>4, <1>5, <1>6, LedgerCardinality DEF Ledger!Grant, Ledger!HasRoom

\* A release returns the lease.
LEMMA LedgerReturn ==
  ASSUME IInv, NEW r \in Requests, Release(r)
  PROVE  account[r] \in Accounts /\ Ledger!Return(r, account[r])
<1> DEFINE a == account[r]
<1>1. a \in Accounts
  BY DEF Release, IInv, StageInv
<1>2. r \in Holders(a)
  BY <1>1, ReturnStep DEF IInv
<1>3. [b \in Accounts |-> Holders(b)]'
        = [[b \in Accounts |-> Holders(b)] EXCEPT ![a] = @ \ {r}]
  BY <1>1, ReturnStep DEF IInv
<1>4. UNCHANGED <<generation, pin>>
  BY DEF Release
<1>5. QED
  BY <1>1, <1>2, <1>3, <1>4 DEF Ledger!Return

\* A request that leaves the scheduler ends.
LEMMA LedgerEnd ==
  ASSUME IInv, NEW r \in Requests, pc[r] \in {"try", "wait", "released"}, Leave(r)
  PROVE  Ledger!End(r)
<1>1. \A a \in Accounts : r \notin Holders(a) /\ Holders(a)' = Holders(a)
  BY DEF IInv, TypeOK, Stages, Leave, Holders
<1>2. pin[r] # None
  BY DEF IInv, StageInv
<1>3. QED
  BY <1>1, <1>2 DEF Leave, Ledger!End

\* Every step is a step of the ledger or invisible in it.
LEMMA LedgerStep ==
  ASSUME IInv, [Next]_vars
  PROVE  [Ledger!Next]_(Ledger!ledgerVars)
<1>1. ASSUME NEW g \in Generations, Reload(g) PROVE Ledger!Publish(g)
  BY <1>1 DEF Reload, Holders, Ledger!Publish
<1>2. ASSUME NEW r \in Requests, Arrive(r) PROVE Ledger!Admit(r)
  <2>1. pin[r] = None
    BY <1>2 DEF Arrive, IInv, StageInv
  <2>2. \A a \in Accounts : Holders(a)' = Holders(a)
    BY <1>2 DEF Arrive, Holders, IInv, TypeOK
  <2>3. QED
    BY <1>2, <2>1, <2>2 DEF Arrive, Ledger!Admit
<1>3. ASSUME NEW r \in Requests, AcquireUnlimited(r) \/ SwapSucceeds(r)
      PROVE  \E a \in Accounts : Ledger!Grant(r, a)
  BY <1>3, LedgerGrant, GrantedUnderLimit DEF IInv
<1>4. ASSUME NEW r \in Requests, Release(r) PROVE \E a \in Accounts : Ledger!Return(r, a)
  BY <1>4, LedgerReturn
<1>5. ASSUME NEW r \in Requests, Refuse(r) \/ GiveUp(r) \/ Finish(r) PROVE Ledger!End(r)
  BY <1>5, LedgerEnd DEF Refuse, GiveUp, Finish
<1>6. ASSUME NEW r \in Requests, Subscribe(r)
      PROVE  UNCHANGED Ledger!ledgerVars
  <2>1. \A b \in Accounts : Holders(b)' = Holders(b)
    BY <1>6 DEF Subscribe, Holders, IInv, TypeOK, Stages
  <2>2. QED
    BY <1>6, <2>1 DEF Subscribe, Ledger!ledgerVars
<1>7. ASSUME NEW r \in Requests, NEW a \in Accounts, SkipUnavailable(r, a) \/ Consider(r, a)
      PROVE  UNCHANGED Ledger!ledgerVars
  <2>1. \A b \in Accounts : Holders(b)' = Holders(b)
    BY <1>7 DEF SkipUnavailable, Consider, Holders, IInv, TypeOK, Stages
  <2>2. QED
    BY <1>7, <2>1 DEF SkipUnavailable, Consider, Ledger!ledgerVars
<1>8. ASSUME NEW r \in Requests, FindFull(r) \/ LoadActive(r) \/ SwapFails(r)
      PROVE  UNCHANGED Ledger!ledgerVars
  <2>1. \A b \in Accounts : Holders(b)' = Holders(b)
    BY <1>8 DEF FindFull, LoadActive, SwapFails, Holders, IInv, TypeOK, Stages
  <2>2. QED
    BY <1>8, <2>1 DEF FindFull, LoadActive, SwapFails, Ledger!ledgerVars
<1>9. ASSUME NEW r \in Requests, Sleep(r) \/ WakeUp(r)
      PROVE  UNCHANGED Ledger!ledgerVars
  <2>1. \A b \in Accounts : Holders(b)' = Holders(b)
    BY <1>9 DEF Sleep, WakeUp, Holders, IInv, TypeOK, Stages
  <2>2. QED
    BY <1>9, <2>1 DEF Sleep, WakeUp, Ledger!ledgerVars
<1>10. ASSUME NEW r \in Requests, Broadcast(r) \/ Failover(r)
      PROVE  UNCHANGED Ledger!ledgerVars
  <2>1. \A b \in Accounts : Holders(b)' = Holders(b)
    BY <1>10 DEF Broadcast, Failover, Holders, IInv, TypeOK, Stages
  <2>2. QED
    BY <1>10, <2>1 DEF Broadcast, Failover, Ledger!ledgerVars
<1>11. CASE UNCHANGED vars
  BY <1>11 DEF vars, Holders, Ledger!ledgerVars
<1>12. QED
  BY <1>1, <1>2, <1>3, <1>4, <1>5, <1>6, <1>7, <1>8, <1>9, <1>10, <1>11
     DEF Next, Progress, Ledger!Next

\* Whatever the goroutines do to counters and channels, clients observe a lease
\* ledger: a lease is granted only with room under the pinned configuration.
THEOREM SchedulerImplementsLedger == Spec => ImplementsLedger
  BY LedgerInit, LedgerStep, SchedulerInvariant, PTL DEF Spec, ImplementsLedger, Ledger!Spec

=============================================================================
