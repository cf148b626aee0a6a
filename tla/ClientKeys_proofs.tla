-------------------------- MODULE ClientKeys_proofs --------------------------
(***************************************************************************)
(* Proofs about ClientKeys for every number of requests, keys, policies    *)
(* and changes, with and without power failures.                           *)
(***************************************************************************)
EXTENDS ClientKeys, FiniteSetTheorems, TLAPS

-----------------------------------------------------------------------------
(* The inductive invariant.                                                *)

\* Whoever works with a key works with a policy: the one of the snapshot, the
\* one last published for a key that was deleted, or the one it has read.
PolicyInv ==
  /\ \A k \in live : meta[k] # None
  /\ \A h \in Handlers : request[h].stage = "found" =>
       request[h].key \in Keys /\ meta[request[h].key] # None
  /\ \A h \in Handlers : request[h].stage \in {"checked", "rated", "admitted"} =>
       request[h].key \in Keys /\ request[h].policy # None

\* A change in progress is of a key that was created, and never one that
\* would give a deleted key a policy.
WriterInv ==
  /\ revoked \subseteq known
  /\ writer.stage = "publish" =>
       /\ writer.key \in known
       /\ writer.policy # None /\ writer.key \in revoked => writer.key \in live

\* The packed word of a key counts at least the requests of this minute.
RateInv ==
  \A k \in Keys \ late :
    \/ counted[k] = 0
    \/ /\ rate[k].minute = minute
       /\ counted[k] <= rate[k].count
       /\ \E p \in Policies : rate[k].count <= p.rpm

IInv ==
  /\ TypeOK /\ ActiveCounted /\ PublishedIsPersisted
  /\ PolicyInv /\ WriterInv /\ RateInv /\ WithinSomePolicy

-----------------------------------------------------------------------------
(* The requests admitted with a key.                                       *)

\* Every policy is a record of limits, and none is the sentinel.
LEMMA PolicyType ==
  ASSUME NEW p \in Policies
  PROVE  /\ p.enabled \in BOOLEAN /\ p.rpm \in Nat /\ p.concurrency \in Nat
         /\ p.expires \in Nat \cup {None}
         /\ p # None
  BY KeysAssumption

\* There are finitely many requests under way, hence with each key.
LEMMA AdmittedFinite ==
  ASSUME NEW k \in Keys
  PROVE  IsFiniteSet(Admitted(k)) /\ Cardinality(Admitted(k)) \in Nat
<1>1. Admitted(k) \in SUBSET Handlers
  BY DEF Admitted
<1>2. IsFiniteSet(Admitted(k))
  BY <1>1, KeysAssumption, FS_Subset
<1>3. QED
  BY <1>2, FS_CardinalityType

\* A request that is not admitted before and after a step changes no count.
LEMMA NobodyAdmitted ==
  ASSUME NEW h \in Handlers, NEW r,
         request \in [Handlers -> [stage : {"idle", "found", "checked", "rated", "admitted"},
                                   key : Keys \cup {None}, policy : Policies \cup {None},
                                   minute : Nat]],
         request' = [request EXCEPT ![h] = r],
         request[h].stage # "admitted", r.stage # "admitted"
  PROVE  \A k \in Keys : Admitted(k)' = Admitted(k)
  BY DEF Admitted

\* One more request is under way with a key.
LEMMA OneMoreAdmitted ==
  ASSUME TypeOK, NEW h \in Handlers, NEW c \in Keys,
         request[h].stage = "rated", request[h].key = c,
         request' = [request EXCEPT ![h].stage = "admitted"]
  PROVE  /\ \A k \in Keys \ {c} : Admitted(k)' = Admitted(k)
         /\ Cardinality(Admitted(c)') = Cardinality(Admitted(c)) + 1
<1>1. \A k \in Keys \ {c} : Admitted(k)' = Admitted(k)
  BY DEF Admitted, TypeOK
<1>2. Admitted(c)' = Admitted(c) \cup {h} /\ h \notin Admitted(c)
  BY DEF Admitted, TypeOK
<1>3. Cardinality(Admitted(c) \cup {h}) = Cardinality(Admitted(c)) + 1
  BY <1>2, AdmittedFinite, FS_AddElement
<1>4. QED
  BY <1>1, <1>2, <1>3

\* One request less is under way with a key.
LEMMA OneLessAdmitted ==
  ASSUME TypeOK, NEW h \in Handlers, NEW c \in Keys,
         request[h].stage = "admitted", request[h].key = c,
         request' = [request EXCEPT ![h] = Idle]
  PROVE  /\ \A k \in Keys \ {c} : Admitted(k)' = Admitted(k)
         /\ Cardinality(Admitted(c)) \in Nat \ {0}
         /\ Cardinality(Admitted(c)') = Cardinality(Admitted(c)) - 1
<1>1. \A k \in Keys \ {c} : Admitted(k)' = Admitted(k)
  BY DEF Admitted, TypeOK, Idle
<1>2. Admitted(c)' = Admitted(c) \ {h} /\ h \in Admitted(c)
  BY DEF Admitted, TypeOK, Idle
<1>3. Cardinality(Admitted(c) \ {h}) = Cardinality(Admitted(c)) - 1
  BY <1>2, AdmittedFinite, FS_RemoveElement
<1>4. Cardinality(Admitted(c)) # 0
  BY <1>2, AdmittedFinite, FS_EmptySet
<1>5. QED
  BY <1>1, <1>2, <1>3, <1>4, AdmittedFinite

-----------------------------------------------------------------------------
(* Every action preserves the invariant.                                   *)

\* At first there is no key and no request.
LEMMA InitInv == Init => IInv
<1> SUFFICES ASSUME Init PROVE IInv
  OBVIOUS
<1>1. TypeOK
  BY KeysAssumption DEF Init, TypeOK, NoPolicies, Quiescent, Idle
<1>2. \A k \in Keys : Admitted(k) = {}
  BY DEF Init, Admitted, Idle
<1>3. \A k \in Keys : Cardinality(Admitted(k)) = 0
  BY <1>2, FS_EmptySet
<1>4. ActiveCounted /\ WithinSomePolicy
  BY <1>3 DEF Init, ActiveCounted, WithinSomePolicy
<1>5. PublishedIsPersisted
  BY DEF Init, PublishedIsPersisted, NoPolicies, Quiescent
<1>6. PolicyInv /\ WriterInv /\ RateInv
  BY DEF Init, PolicyInv, WriterInv, RateInv, Idle, Quiescent
<1>7. QED
  BY <1>1, <1>4, <1>5, <1>6 DEF IInv

\* What is said of requests and counters holds on while nobody touches them.
LEMMA RequestsUntouched ==
  ASSUME IInv, UNCHANGED <<active, request>>
  PROVE  ActiveCounted' /\ WithinSomePolicy'
<1>1. \A k \in Keys : Admitted(k)' = Admitted(k)
  BY DEF Admitted
<1>2. ActiveCounted'
  BY <1>1 DEF IInv, ActiveCounted
<1>3. WithinSomePolicy'
  BY <1>1 DEF IInv, WithinSomePolicy
<1>4. QED
  BY <1>2, <1>3

\* Writing the file begins a change.
LEMMA PersistInv ==
  ASSUME IInv, NEW k \in Keys, NEW policy \in Policies \cup {None}, Persist(k, policy),
         policy # None /\ k \in revoked => k \in live
  PROVE  IInv'
<1>1. TypeOK'
  <2>1. disk' \in [Keys -> Policies \cup {None}]
    BY DEF IInv, TypeOK, Persist
  <2>2. synced' \in [Keys -> Policies \cup {None}]
    BY <2>1 DEF IInv, TypeOK, Persist
  <2>3. writer' \in [stage : {"idle", "publish"}, key : Keys \cup {None},
                     policy : Policies \cup {None}]
    BY DEF Persist
  <2>4. QED
    BY <2>1, <2>2, <2>3 DEF IInv, TypeOK, Persist
<1>2. ActiveCounted' /\ WithinSomePolicy'
  BY RequestsUntouched DEF Persist
<1>3. PublishedIsPersisted'
  BY DEF PublishedIsPersisted, Persist
<1>4. PolicyInv'
  BY DEF IInv, PolicyInv, Persist
<1>5. WriterInv'
  BY DEF IInv, WriterInv, Persist
<1>6. RateInv'
  BY DEF IInv, RateInv, Persist
<1>7. QED
  BY <1>1, <1>2, <1>3, <1>4, <1>5, <1>6 DEF IInv

\* Publishing ends it.
LEMMA PublishInv == ASSUME IInv, Publish PROVE IInv'
<1>1. writer.key \in Keys
  BY DEF IInv, WriterInv, TypeOK, Publish
<1>2. TypeOK'
  <2>1. live' \in SUBSET Keys /\ revoked' \in SUBSET Keys
    BY <1>1 DEF IInv, TypeOK, Publish
  <2>2. meta' \in [Keys -> Policies \cup {None}]
    BY DEF IInv, TypeOK, Publish
  <2>3. QED
    BY <2>1, <2>2 DEF IInv, TypeOK, Publish, Quiescent
<1>3. ActiveCounted' /\ WithinSomePolicy'
  BY RequestsUntouched DEF Publish
<1>4. PublishedIsPersisted'
  BY <1>1 DEF IInv, TypeOK, PublishedIsPersisted, Publish, Quiescent
<1>5. PolicyInv'
  BY <1>1 DEF IInv, TypeOK, PolicyInv, Publish
<1>6. WriterInv'
  BY DEF IInv, WriterInv, Publish, Quiescent
<1>7. RateInv'
  BY DEF IInv, RateInv, Publish
<1>8. QED
  BY <1>2, <1>3, <1>4, <1>5, <1>6, <1>7 DEF IInv

\* The directory reaches the disk.
LEMMA SyncInv == ASSUME IInv, Sync PROVE IInv'
<1>1. TypeOK'
  BY DEF IInv, TypeOK, Sync
<1>2. ActiveCounted' /\ WithinSomePolicy'
  BY RequestsUntouched DEF Sync
<1>3. PublishedIsPersisted' /\ PolicyInv' /\ WriterInv' /\ RateInv'
  BY DEF IInv, PublishedIsPersisted, PolicyInv, WriterInv, RateInv, Sync
<1>4. QED
  BY <1>1, <1>2, <1>3 DEF IInv

\* A restart finds a file with a policy for every key in it.
LEMMA RestartInv ==
  ASSUME IInv, NEW file \in [Keys -> Policies \cup {None}], Restart(file)
  PROVE  IInv'
<1>1. TypeOK'
  BY KeysAssumption DEF IInv, TypeOK, Restart, Quiescent, Idle
<1>2. \A k \in Keys : Admitted(k)' = {}
  BY DEF Admitted, Restart, Idle
<1>3. \A k \in Keys : Cardinality(Admitted(k)') = 0
  BY <1>2, FS_EmptySet
<1>4. ActiveCounted' /\ WithinSomePolicy'
  BY <1>3 DEF Restart, ActiveCounted, WithinSomePolicy
<1>5. PublishedIsPersisted'
  BY DEF Restart, PublishedIsPersisted, Quiescent
<1>6. PolicyInv'
  BY DEF Restart, PolicyInv, Idle
<1>7. WriterInv'
  BY DEF IInv, Restart, WriterInv, Quiescent
<1>8. RateInv'
  BY DEF Restart, RateInv
<1>9. QED
  BY <1>1, <1>4, <1>5, <1>6, <1>7, <1>8 DEF IInv

\* A minute ends.
LEMMA TickInv == ASSUME IInv, Tick PROVE IInv'
<1>1. TypeOK'
  BY DEF IInv, TypeOK, Tick, admin
<1>2. ActiveCounted' /\ WithinSomePolicy'
  BY RequestsUntouched DEF Tick
<1>3. PublishedIsPersisted' /\ PolicyInv' /\ WriterInv' /\ RateInv'
  BY DEF IInv, PublishedIsPersisted, PolicyInv, WriterInv, RateInv, Tick, admin
<1>4. QED
  BY <1>1, <1>2, <1>3 DEF IInv

\* A request that moves without being admitted, or counted, disturbs only what
\* is said of its own policy.
LEMMA RequestMoves ==
  ASSUME IInv, NEW h \in Handlers,
         NEW r \in [stage : {"idle", "found", "checked", "rated"}, key : Keys \cup {None},
                    policy : Policies \cup {None}, minute : Nat],
         request[h].stage # "admitted",
         request' = [request EXCEPT ![h] = r],
         UNCHANGED <<minute, admin, active>>,
         r.stage = "found" => r.key \in Keys /\ meta[r.key] # None,
         r.stage \in {"checked", "rated"} => r.key \in Keys /\ r.policy # None
  PROVE  /\ request' \in [Handlers ->
              [stage : {"idle", "found", "checked", "rated", "admitted"},
               key : Keys \cup {None}, policy : Policies \cup {None}, minute : Nat]]
         /\ ActiveCounted' /\ WithinSomePolicy'
         /\ PublishedIsPersisted' /\ PolicyInv' /\ WriterInv'
<1>1. request' \in [Handlers ->
        [stage : {"idle", "found", "checked", "rated", "admitted"},
         key : Keys \cup {None}, policy : Policies \cup {None}, minute : Nat]]
  BY DEF IInv, TypeOK
<1>2. \A k \in Keys : Admitted(k)' = Admitted(k)
  BY NobodyAdmitted DEF IInv, TypeOK
<1>3. ActiveCounted' /\ WithinSomePolicy'
  BY <1>2 DEF IInv, ActiveCounted, WithinSomePolicy
<1>4. PublishedIsPersisted' /\ WriterInv'
  BY DEF IInv, PublishedIsPersisted, WriterInv, admin
<1>5. PolicyInv'
  BY DEF IInv, TypeOK, PolicyInv, admin
<1>6. QED
  BY <1>1, <1>3, <1>4, <1>5

\* The steps of a request that charge nothing.
LEMMA QuietRequestInv ==
  ASSUME IInv, NEW h \in Handlers,
         \/ \E k \in Keys : Lookup(h, k)
         \/ Check(h) \/ SkipRate(h) \/ RefuseRate(h) \/ RefuseSlot(h)
  PROVE  IInv'
<1> DEFINE R == [stage : {"idle", "found", "checked", "rated"}, key : Keys \cup {None},
                 policy : Policies \cup {None}, minute : Nat]
           Stays(r) ==
             /\ r.stage = "found" => r.key \in Keys /\ meta[r.key] # None
             /\ r.stage \in {"checked", "rated"} => r.key \in Keys /\ r.policy # None
<1>1. UNCHANGED <<minute, admin, active, rate, counted, late>>
  BY DEF Lookup, Check, SkipRate, RefuseRate, RefuseSlot
<1>2. request[h].stage # "admitted"
  BY DEF Lookup, Check, SkipRate, RefuseRate, RefuseSlot
<1>3. \E r \in R : request' = [request EXCEPT ![h] = r] /\ Stays(r)
  <2>0. Idle \in R /\ Stays(Idle)
    BY KeysAssumption DEF Idle
  <2>1. ASSUME NEW k \in Keys, Lookup(h, k)
        PROVE  \E r \in R : request' = [request EXCEPT ![h] = r] /\ Stays(r)
    <3> DEFINE r == [Idle EXCEPT !.stage = "found", !.key = k]
    <3>1. r \in R /\ Stays(r)
      BY <2>1, KeysAssumption DEF Lookup, Idle, IInv, PolicyInv
    <3>2. QED
      BY <2>1, <3>1 DEF Lookup
  <2>2. CASE Check(h)
    <3> DEFINE k == request[h].key
               r == [stage |-> "checked", key |-> k, policy |-> meta[k], minute |-> minute]
    <3>1. k \in Keys /\ meta[k] # None
      BY <2>2 DEF Check, IInv, PolicyInv
    <3>2. r \in R /\ Stays(r)
      BY <3>1 DEF IInv, TypeOK
    <3>3. request' = [request EXCEPT ![h] = r] \/ request' = [request EXCEPT ![h] = Idle]
      BY <2>2 DEF Check
    <3>4. QED
      BY <2>0, <3>2, <3>3
  <2>3. CASE SkipRate(h)
    <3> DEFINE r == [request[h] EXCEPT !.stage = "rated"]
    <3>1. r \in R /\ Stays(r)
      BY <2>3 DEF SkipRate, IInv, TypeOK, PolicyInv
    <3>2. QED
      BY <2>3, <3>1 DEF SkipRate
  <2>4. CASE RefuseRate(h) \/ RefuseSlot(h)
    BY <2>0, <2>4 DEF RefuseRate, RefuseSlot
  <2>5. QED
    BY <2>1, <2>2, <2>3, <2>4
<1>4. PICK r \in R : request' = [request EXCEPT ![h] = r] /\ Stays(r)
  BY <1>3
<1>5. /\ request' \in [Handlers ->
           [stage : {"idle", "found", "checked", "rated", "admitted"},
            key : Keys \cup {None}, policy : Policies \cup {None}, minute : Nat]]
      /\ ActiveCounted' /\ WithinSomePolicy'
      /\ PublishedIsPersisted' /\ PolicyInv' /\ WriterInv'
  BY <1>1, <1>2, <1>4, RequestMoves
<1>6. TypeOK'
  BY <1>1, <1>5 DEF IInv, TypeOK, admin
<1>7. RateInv'
  BY <1>1 DEF IInv, RateInv
<1>8. QED
  BY <1>5, <1>6, <1>7 DEF IInv

\* A request is counted in the minute it was checked in.
LEMMA CountInv ==
  ASSUME IInv, NEW h \in Handlers, CountInMinute(h)
  PROVE  IInv'
<1> DEFINE r == request[h]
           k == r.key
           s == [r EXCEPT !.stage = "rated"]
           n == IF rate[k].minute = r.minute THEN rate[k].count + 1 ELSE 1
<1>1. /\ k \in Keys /\ r.policy \in Policies /\ r.policy.rpm \in Nat /\ r.policy.rpm > 0
      /\ r.minute \in Nat /\ r.stage = "checked"
  BY PolicyType DEF CountInMinute, IInv, PolicyInv, TypeOK
<1>2. rate[k].minute \in Nat /\ rate[k].count \in Nat /\ counted[k] \in Nat /\ minute \in Nat
  BY <1>1 DEF IInv, TypeOK
<1>3. n \in Nat /\ n <= r.policy.rpm
  BY <1>1, <1>2 DEF CountInMinute, HasRate
<1>4. rate' = [rate EXCEPT ![k] = [minute |-> r.minute, count |-> n]]
  BY DEF CountInMinute
<1>5. /\ request' \in [Handlers ->
           [stage : {"idle", "found", "checked", "rated", "admitted"},
            key : Keys \cup {None}, policy : Policies \cup {None}, minute : Nat]]
      /\ ActiveCounted' /\ WithinSomePolicy'
      /\ PublishedIsPersisted' /\ PolicyInv' /\ WriterInv'
  <2>1. s \in [stage : {"idle", "found", "checked", "rated"}, key : Keys \cup {None},
               policy : Policies \cup {None}, minute : Nat]
    BY DEF IInv, TypeOK
  <2>2. s.stage = "rated" /\ s.key = k /\ s.policy = r.policy
    BY DEF IInv, TypeOK
  <2>3. request' = [request EXCEPT ![h] = s] /\ UNCHANGED <<minute, admin, active>>
    BY DEF CountInMinute
  <2>4. r.policy # None
    BY <1>1, PolicyType
  <2>5. QED
    BY <1>1, <2>1, <2>2, <2>3, <2>4, RequestMoves
<1>6. TypeOK'
  <2>1. rate' \in [Keys -> [minute : Nat, count : Nat]]
    BY <1>1, <1>3, <1>4 DEF IInv, TypeOK
  <2>2. counted' \in [Keys -> Nat] /\ late' \in SUBSET Keys
    BY <1>1, <1>2 DEF CountInMinute, IInv, TypeOK
  <2>3. QED
    BY <1>5, <2>1, <2>2 DEF CountInMinute, IInv, TypeOK, admin
<1>7. RateInv'
  <2> SUFFICES ASSUME NEW j \in Keys, j \notin late'
               PROVE  \/ counted'[j] = 0
                      \/ /\ rate'[j].minute = minute'
                         /\ counted'[j] <= rate'[j].count
                         /\ \E p \in Policies : rate'[j].count <= p.rpm
    BY DEF RateInv
  <2>0. minute' = minute /\ j \notin late
    BY DEF CountInMinute
  <2>1. CASE j # k
    <3>1. rate'[j] = rate[j] /\ counted'[j] = counted[j]
      BY <2>1, <1>1 DEF CountInMinute, IInv, TypeOK
    <3>2. QED
      BY <2>0, <3>1 DEF IInv, RateInv
  <2>2. CASE j = k
    <3>1. r.minute = minute /\ counted'[k] = counted[k] + 1
      BY <2>2, <1>1 DEF CountInMinute, IInv, TypeOK
    <3>2. rate'[k] = [minute |-> minute, count |-> n]
      BY <3>1, <1>1, <1>4 DEF IInv, TypeOK
    <3>3. counted[k] = 0 \/ (rate[k].minute = minute /\ counted[k] <= rate[k].count)
      BY <1>1, <2>0, <2>2 DEF IInv, RateInv
    <3>4. counted[k] + 1 <= n
      BY <1>2, <3>1, <3>3
    <3>5. QED
      BY <1>1, <1>3, <2>0, <2>2, <3>1, <3>2, <3>4
  <2>3. QED
    BY <2>1, <2>2
<1>8. QED
  BY <1>5, <1>6, <1>7 DEF IInv

\* A request is admitted within the limit of the policy it has read.
LEMMA TakeSlotInv ==
  ASSUME IInv, NEW h \in Handlers, TakeSlot(h)
  PROVE  IInv'
<1> DEFINE p == request[h].policy
           s == [request[h] EXCEPT !.stage = "admitted"]
<1>0. PICK c \in Keys : c = request[h].key
  BY DEF TakeSlot, IInv, PolicyInv
<1>1. p \in Policies /\ p.concurrency \in Nat /\ request[h].stage = "rated"
  BY PolicyType DEF TakeSlot, IInv, PolicyInv, TypeOK
<1>2. active[c] \in Nat /\ active[c] = Cardinality(Admitted(c))
  BY DEF IInv, TypeOK, ActiveCounted
<1>3. TypeOK'
  <2>1. active' \in [Keys -> Nat]
    BY <1>0, <1>1, <1>2 DEF TakeSlot, IInv, TypeOK
  <2>2. request' \in [Handlers ->
           [stage : {"idle", "found", "checked", "rated", "admitted"},
            key : Keys \cup {None}, policy : Policies \cup {None}, minute : Nat]]
    <3>1. s \in [stage : {"idle", "found", "checked", "rated", "admitted"},
                 key : Keys \cup {None}, policy : Policies \cup {None}, minute : Nat]
      BY DEF IInv, TypeOK
    <3>2. request' = [request EXCEPT ![h] = s]
      BY DEF TakeSlot
    <3>3. QED
      BY <3>1, <3>2 DEF IInv, TypeOK
  <2>3. QED
    BY <2>1, <2>2 DEF TakeSlot, IInv, TypeOK, admin
<1>4. /\ \A k \in Keys \ {c} : Admitted(k)' = Admitted(k)
      /\ Cardinality(Admitted(c)') = Cardinality(Admitted(c)) + 1
  BY <1>0, <1>1, OneMoreAdmitted DEF TakeSlot, IInv
<1>5. /\ \A k \in Keys \ {c} : active'[k] = active[k]
      /\ active'[c] = active[c] + 1
  BY <1>0, <1>1 DEF TakeSlot, IInv, TypeOK
<1>6. ActiveCounted'
  BY <1>2, <1>4, <1>5 DEF IInv, ActiveCounted
<1>7. WithinSomePolicy'
  <2>1. p.concurrency = 0 \/ Cardinality(Admitted(c)') <= p.concurrency
    BY <1>0, <1>1, <1>2, <1>4 DEF TakeSlot, HasSlot
  <2>2. ASSUME \A q \in Policies : q.concurrency > 0
        PROVE  \E q \in Policies : Cardinality(Admitted(c)') <= q.concurrency
    BY <1>1, <2>1, <2>2
  <2>3. QED
    BY <1>4, <2>2 DEF IInv, WithinSomePolicy
<1>8. PublishedIsPersisted' /\ WriterInv' /\ RateInv'
  BY DEF TakeSlot, IInv, PublishedIsPersisted, WriterInv, RateInv, admin
<1>9. PolicyInv'
  BY <1>1 DEF TakeSlot, IInv, TypeOK, PolicyInv, admin
<1>10. QED
  BY <1>3, <1>6, <1>7, <1>8, <1>9 DEF IInv

\* A request ends.
LEMMA CompleteInv ==
  ASSUME IInv, NEW h \in Handlers, Complete(h)
  PROVE  IInv'
<1>0. PICK c \in Keys : c = request[h].key
  BY DEF Complete, IInv, PolicyInv
<1>1. request[h].stage = "admitted"
  BY DEF Complete
<1>2. active[c] = Cardinality(Admitted(c))
  BY <1>0, <1>1 DEF IInv, ActiveCounted
<1>3. /\ \A k \in Keys \ {c} : Admitted(k)' = Admitted(k)
      /\ Cardinality(Admitted(c)) \in Nat \ {0}
      /\ Cardinality(Admitted(c)') = Cardinality(Admitted(c)) - 1
  BY <1>0, <1>1, OneLessAdmitted DEF Complete, IInv
<1>4. /\ \A k \in Keys \ {c} : active'[k] = active[k]
      /\ active'[c] = active[c] - 1
  BY <1>0, <1>1 DEF Complete, IInv, TypeOK
<1>5. TypeOK'
  <2>1. active' \in [Keys -> Nat]
    <3>1. active[c] - 1 \in Nat
      BY <1>2, <1>3
    <3>2. active' = [active EXCEPT ![c] = active[c] - 1]
      BY <1>0 DEF Complete
    <3>3. QED
      BY <3>1, <3>2 DEF IInv, TypeOK
  <2>2. request' \in [Handlers ->
           [stage : {"idle", "found", "checked", "rated", "admitted"},
            key : Keys \cup {None}, policy : Policies \cup {None}, minute : Nat]]
    BY KeysAssumption DEF Complete, IInv, TypeOK, Idle
  <2>3. QED
    BY <2>1, <2>2 DEF Complete, IInv, TypeOK, admin
<1>6. ActiveCounted'
  BY <1>2, <1>3, <1>4 DEF IInv, ActiveCounted
<1>7. WithinSomePolicy'
  <2>1. ASSUME \A q \in Policies : q.concurrency > 0
        PROVE  \E q \in Policies : Cardinality(Admitted(c)') <= q.concurrency
    <3>1. PICK q \in Policies : Cardinality(Admitted(c)) <= q.concurrency
      BY <1>0, <1>1, <1>3, <2>1 DEF IInv, WithinSomePolicy
    <3>2. q.concurrency \in Nat
      BY PolicyType
    <3>3. QED
      BY <1>3, <3>1, <3>2
  <2>2. QED
    BY <1>3, <2>1 DEF IInv, WithinSomePolicy
<1>8. PublishedIsPersisted' /\ WriterInv' /\ RateInv'
  BY DEF Complete, IInv, PublishedIsPersisted, WriterInv, RateInv, admin
<1>9. PolicyInv'
  BY DEF Complete, IInv, TypeOK, PolicyInv, admin, Idle
<1>10. QED
  BY <1>5, <1>6, <1>7, <1>8, <1>9 DEF IInv

\* Every step preserves it.
LEMMA NextInv == IInv /\ [Next]_vars => IInv'
<1> SUFFICES ASSUME IInv, [Next]_vars PROVE IInv'
  OBVIOUS
<1>1. ASSUME NEW k \in Keys, Create(k) \/ Update(k) \/ Delete(k) PROVE IInv'
  <2>1. PICK policy \in Policies \cup {None} : Persist(k, policy)
    BY <1>1 DEF Create, Update, Delete
  <2>2. k \in revoked => k \in live
    BY <1>1 DEF Create, Update, Delete, IInv, WriterInv
  <2>3. QED
    BY <2>1, <2>2, PersistInv
<1>2. CASE Publish
  BY <1>2, PublishInv
<1>3. CASE Sync
  BY <1>3, SyncInv
<1>4. CASE Crash \/ PowerLoss
  BY <1>4, RestartInv DEF Crash, PowerLoss, IInv, TypeOK
<1>5. CASE Tick
  BY <1>5, TickInv
<1>6. ASSUME NEW h \in Handlers,
             \/ \E k \in Keys : Lookup(h, k)
             \/ Check(h) \/ SkipRate(h) \/ RefuseRate(h) \/ RefuseSlot(h)
      PROVE  IInv'
  BY <1>6, QuietRequestInv
<1>7. ASSUME NEW h \in Handlers, CountInMinute(h) PROVE IInv'
  BY <1>7, CountInv
<1>8. ASSUME NEW h \in Handlers, TakeSlot(h) PROVE IInv'
  BY <1>8, TakeSlotInv
<1>9. ASSUME NEW h \in Handlers, Complete(h) PROVE IInv'
  BY <1>9, CompleteInv
<1>10. CASE UNCHANGED vars
  <2>1. ActiveCounted' /\ WithinSomePolicy'
    BY <1>10, RequestsUntouched DEF vars
  <2>2. QED
    BY <1>10, <2>1 DEF vars, IInv, TypeOK, PublishedIsPersisted, PolicyInv, WriterInv, RateInv
<1>11. QED
  BY <1>1, <1>2, <1>3, <1>4, <1>5, <1>6, <1>7, <1>8, <1>9, <1>10 DEF Next

\* The inductive invariant holds in every reachable state.
LEMMA SpecInv == Spec => []IInv
  BY InitInv, NextInv, PTL DEF Spec

-----------------------------------------------------------------------------
(* The properties.                                                         *)

\* The active counter of every key is exact, and the state is well-typed: no
\* request is counted twice or forgotten, through changes, deletion and restart.
THEOREM SpecCountersExact == Spec => []CountersExact
<1>1. IInv => CountersExact
  BY DEF IInv, CountersExact
<1>2. QED
  BY <1>1, SpecInv, PTL

\* The key file is ahead of the snapshot by at most the change being published.
THEOREM SpecPublishedIsPersisted == Spec => []PublishedIsPersisted
<1>1. IInv => PublishedIsPersisted
  BY DEF IInv
<1>2. QED
  BY <1>1, SpecInv, PTL

\* No interleaving of requests with each other, with changes of the policy or
\* with restarts passes the concurrency or, in its own minute, the rate limit.
THEOREM SpecLimitsHold == Spec => []LimitsHold
<1>1. IInv => LimitsHold
  <2> SUFFICES ASSUME IInv, NEW k \in Keys \ late
               PROVE  counted[k] = 0 \/ \E p \in Policies : counted[k] <= p.rpm
    BY DEF IInv, LimitsHold, RateHeld
  <2>1. counted[k] \in Nat /\ rate[k].count \in Nat
    BY DEF IInv, TypeOK
  <2>2. CASE counted[k] # 0
    <3>1. counted[k] <= rate[k].count
      BY <2>2 DEF IInv, RateInv
    <3>2. PICK p \in Policies : rate[k].count <= p.rpm
      BY <2>2 DEF IInv, RateInv
    <3>3. p.rpm \in Nat
      BY PolicyType
    <3>4. QED
      BY <2>1, <3>1, <3>2, <3>3
  <2>3. QED
    BY <2>2
<1>2. QED
  BY <1>1, SpecInv, PTL

\* Once the deletion of a key has reached the disk, no step gives it back.
THEOREM SpecSyncedRevocationHolds == Spec => SyncedRevocationHolds
<1>1. IInv /\ [Next]_vars =>
        [\A k \in revoked : synced[k] = None /\ k \notin live => k \notin live']_vars
  <2> SUFFICES ASSUME IInv, Next, NEW k \in revoked, synced[k] = None, k \notin live
               PROVE  k \notin live'
    OBVIOUS
  <2>0. k \in Keys /\ k \in known
    BY DEF IInv, TypeOK, WriterInv
  <2>1. disk[k] = None
    BY <2>0 DEF IInv, PublishedIsPersisted, WriterInv
  <2>2. CASE Publish
    BY <2>2, <2>0 DEF Publish, IInv, WriterInv
  <2>3. CASE Crash \/ PowerLoss
    BY <2>3, <2>0, <2>1 DEF Crash, PowerLoss, Restart
  <2>4. CASE UNCHANGED live
    BY <2>4
  <2>5. QED
    BY <2>2, <2>3, <2>4
    DEF Next, Create, Update, Delete, Persist, Sync, Tick, Lookup, Check, CountInMinute,
        SkipRate, RefuseRate, TakeSlot, RefuseSlot, Complete, admin
<1>2. QED
  BY <1>1, SpecInv, PTL DEF Spec, SyncedRevocationHolds

-----------------------------------------------------------------------------
(* The refinement.                                                         *)

\* The values of the register, and the change of one key.
LEMMA RegisterTypes ==
  ASSUME TypeOK
  PROVE  /\ Seen \in Snapshots /\ disk \in Snapshots /\ synced \in Snapshots
         /\ \A k \in Keys, p \in Policies \cup {None} :
              /\ [Seen EXCEPT ![k] = p] \in Snapshots
              /\ [Seen EXCEPT ![k] = p] = [j \in Keys |-> IF j = k THEN p ELSE Seen[j]]
  BY DEF TypeOK, Seen, Snapshots

\* At first no key is seen and none is in the file.
LEMMA RegisterInit == Init => Register!Init
<1> SUFFICES ASSUME Init PROVE Register!Init
  OBVIOUS
<1>1. Seen = NoPolicies /\ disk = NoPolicies /\ synced = NoPolicies
  BY DEF Init, Seen, NoPolicies
<1>2. Seen \in Snapshots
  BY <1>1 DEF NoPolicies, Snapshots
<1>3. writer.stage # "publish"
  BY DEF Init, Quiescent
<1>4. QED
  BY <1>1, <1>2, <1>3 DEF Register!Init

\* Nobody sees a change that is in the file only.
LEMMA RegisterWrite ==
  ASSUME IInv, NEW k \in Keys, NEW p \in Policies \cup {None}, Persist(k, p)
  PROVE  Register!Write
<1>1. PICK v \in Snapshots :
        v = [Seen EXCEPT ![k] = p] /\ v = [j \in Keys |-> IF j = k THEN p ELSE Seen[j]]
  BY RegisterTypes DEF IInv
<1>2. writer.stage # "publish" /\ writer' = [stage |-> "publish", key |-> k, policy |-> p]
  BY DEF Persist
<1>3. Seen' = Seen
  BY DEF Persist, Seen
<1>4. Intended' = v
  BY <1>1, <1>2, <1>3 DEF Intended
<1>5. disk' = v
  BY <1>1 DEF Persist, Seen
<1>6. synced' \in {synced, disk, v}
  BY <1>5 DEF Persist
<1>7. <<Seen, v>> \in OneKey
  BY <1>1, RegisterTypes DEF OneKey, IInv
<1>8. QED
  BY <1>2, <1>3, <1>4, <1>5, <1>6, <1>7 DEF Register!Write

\* The snapshot that is published has the one change.
LEMMA RegisterShow ==
  ASSUME IInv, Publish
  PROVE  Register!Show([value |-> Intended, own |-> TRUE])
<1>1. /\ writer.stage = "publish" /\ writer.key \in Keys
      /\ writer' = Quiescent /\ disk' = disk /\ synced' = synced
  BY DEF Publish, IInv, TypeOK, WriterInv
<1>2. Seen' = [k \in Keys |-> IF k = writer.key THEN writer.policy ELSE Seen[k]]
  BY <1>1 DEF Publish, IInv, TypeOK, Seen
<1>3. Intended = [k \in Keys |-> IF k = writer.key THEN writer.policy ELSE Seen[k]]
  BY DEF Intended, Seen
<1>4. writer'.stage # "publish"
  BY <1>1 DEF Quiescent
<1>5. QED
  BY <1>1, <1>2, <1>3, <1>4 DEF Register!Show

\* What is found at a restart is what is seen.
LEMMA RegisterRestart ==
  ASSUME IInv, NEW content \in {disk, synced}, Restart(content)
  PROVE  Register!Restart(content)
<1>1. content \in Snapshots
  BY RegisterTypes DEF IInv
<1>2. Seen' = [k \in Keys |-> content[k]]
  BY DEF Restart, Seen
<1>3. Seen' = content
  BY <1>1, <1>2 DEF Snapshots
<1>4. writer'.stage # "publish" /\ disk' = content /\ synced' = content
  BY DEF Restart, Quiescent
<1>5. QED
  BY <1>1, <1>3, <1>4 DEF Register!Restart

\* Every step is one of the register, or changes nothing of it.
LEMMA RegisterStep == IInv /\ [Next]_vars => [Register!Next]_(Register!registerVars)
<1> SUFFICES ASSUME IInv, [Next]_vars
             PROVE  Register!Next \/ UNCHANGED Register!registerVars
  OBVIOUS
<1>1. ASSUME NEW k \in Keys, Create(k) \/ Update(k) \/ Delete(k)
      PROVE  Register!Next
  BY <1>1, RegisterWrite DEF Create, Update, Delete, Register!Next
<1>2. CASE Publish
  <2>1. [value |-> Intended, own |-> TRUE] \in
          IF writer.stage = "publish" THEN {[value |-> Intended, own |-> TRUE]} ELSE {}
    BY <1>2 DEF Publish
  <2>2. QED
    BY <1>2, <2>1, RegisterShow DEF Register!Next
<1>3. CASE Crash \/ PowerLoss
  BY <1>3, RegisterRestart DEF Crash, PowerLoss, Register!Next
<1>4. CASE Sync
  BY <1>4 DEF Sync, Seen, Intended, Register!Next, Register!Sync
<1>5. CASE UNCHANGED <<disk, synced, live, meta, writer>>
  BY <1>5 DEF Seen, Intended, Register!registerVars
<1>6. QED
  BY <1>1, <1>2, <1>3, <1>4, <1>5
  DEF Next, Tick, Lookup, Check, CountInMinute, SkipRate, RefuseRate, TakeSlot, RefuseSlot,
      Complete, admin, vars

\* However requests, changes and restarts interleave, requests see a register of
\* policies that is changed one key at a time, from what they saw before, and that
\* comes back from the file as it was or with the change under way.
THEOREM SpecImplementsRegister == Spec => ImplementsRegister
  BY RegisterInit, RegisterStep, SpecInv, PTL DEF Spec, ImplementsRegister, Register!Spec
=============================================================================
