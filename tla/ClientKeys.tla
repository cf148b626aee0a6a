----------------------------- MODULE ClientKeys -----------------------------
(***************************************************************************)
(* Managed client keys (internal/gateway/clientkeys.go): an administrator  *)
(* creates, changes and revokes keys while requests authenticate with      *)
(* them.                                                                   *)
(*                                                                         *)
(* A change is written to the key file first (temporary file, rename) and  *)
(* published to the requests afterwards; a crash may come in between, and  *)
(* the rename itself is not yet durable: the directory is not synced.      *)
(* Authentication loads the snapshot, then the key's policy and the time,  *)
(* then counts the request against the minute, then against the active     *)
(* requests: four steps between which everything else may happen.  Each of *)
(* the two compare-and-swap loops swaps in a function of the very value it *)
(* compared, so a loop takes effect in one step.                           *)
(***************************************************************************)
EXTENDS Integers, FiniteSets

CONSTANTS
  Handlers,    \* requests that may be under way
  Keys,        \* key IDs; a random ID is never drawn twice
  Policies,    \* [enabled, rpm, concurrency, expires]: what a record grants
  PowerFails,  \* TRUE: a rename that was not yet synced can be lost
  MaxMinute,   \* bound of the clock
  MaxWrites,   \* bound of administrative changes
  None         \* no key, no policy, no expiry

ASSUME KeysAssumption ==
  /\ IsFiniteSet(Handlers)
  /\ Policies \subseteq [enabled : BOOLEAN, rpm : Nat, concurrency : Nat,
                         expires : Nat \cup {None}]
  /\ PowerFails \in BOOLEAN
  /\ MaxMinute \in Nat /\ MaxWrites \in Nat
  /\ None \notin Keys \cup Policies \cup Nat

VARIABLES
  minute,   \* wall clock, in the unit of the rate limit
  disk,     \* the key file: a policy for every key in it
  synced,   \* the key file a power failure may fall back to
  live,     \* keys in the published snapshot
  meta,     \* the policy requests see
  active,   \* requests admitted with each key and not complete
  rate,     \* rate[k]: [minute, count] packed in one atomic word
  writer,   \* the change under writeMu: [stage, key, policy]
  writes,   \* administrative changes begun
  request,  \* what every handler is doing
  known,    \* history: keys that were ever created
  revoked,  \* history: keys whose deletion was acknowledged
  counted,  \* history: counted[k]: requests counted in the current minute
  late      \* history: keys with a request counted in a minute after its own

vars == <<minute, disk, synced, live, meta, active, rate, writer, writes, request,
          known, revoked, counted, late>>

admin == <<disk, synced, live, meta, writer, writes, known, revoked>>

Idle == [stage |-> "idle", key |-> None, policy |-> None, minute |-> 0]

Quiescent == [stage |-> "idle", key |-> None, policy |-> None]

NoPolicies == [k \in Keys |-> None]

Admitted(k) == {h \in Handlers : request[h].stage = "admitted" /\ request[h].key = k}

-----------------------------------------------------------------------------
Init ==
  /\ minute = 0
  /\ disk = NoPolicies /\ synced = NoPolicies
  /\ live = {} /\ meta = NoPolicies
  /\ active = [k \in Keys |-> 0]
  /\ rate = [k \in Keys |-> [minute |-> 0, count |-> 0]]
  /\ writer = Quiescent /\ writes = 0
  /\ request = [h \in Handlers |-> Idle]
  /\ known = {} /\ revoked = {}
  /\ counted = [k \in Keys |-> 0]
  /\ late = {}

-----------------------------------------------------------------------------
(* The administrator.                                                      *)

\* What if the file were written from the snapshot as it is?
PersistUnchanged(k, policy) ==
  /\ writer.stage = "idle"
  /\ writes < MaxWrites
  /\ writes' = writes + 1
  /\ disk' = [j \in Keys |-> IF j \in live THEN meta[j] ELSE None]
  /\ synced' = IF PowerFails THEN disk ELSE disk'
  /\ writer' = [stage |-> "publish", key |-> k, policy |-> policy]
  /\ known' = known \cup {k}
  /\ UNCHANGED <<minute, live, meta, active, rate, request, revoked, counted, late>>

\* What if keys no longer in the snapshot were written as well?
PersistKnown(k, policy) ==
  /\ writer.stage = "idle"
  /\ writes < MaxWrites
  /\ writes' = writes + 1
  /\ disk' = [j \in Keys |-> IF j = k THEN policy ELSE IF j \in known THEN meta[j] ELSE None]
  /\ synced' = IF PowerFails THEN disk ELSE disk'
  /\ writer' = [stage |-> "publish", key |-> k, policy |-> policy]
  /\ known' = known \cup {k}
  /\ UNCHANGED <<minute, live, meta, active, rate, request, revoked, counted, late>>

\* persist: the whole file is written anew from the snapshot, with the one
\* change; then it replaces the old file.
Persist(k, policy) ==
  /\ writer.stage = "idle"
  /\ writes < MaxWrites
  /\ writes' = writes + 1
  /\ disk' = [j \in Keys |-> IF j = k THEN policy ELSE IF j \in live THEN meta[j] ELSE None]
  /\ synced' = IF PowerFails THEN disk ELSE disk'
  /\ writer' = [stage |-> "publish", key |-> k, policy |-> policy]
  /\ known' = known \cup {k}
  /\ UNCHANGED <<minute, live, meta, active, rate, request, revoked, counted, late>>

Create(k) == k \notin known /\ \E p \in Policies : Persist(k, p)

Update(k) == k \in live /\ \E p \in Policies : Persist(k, p)

Delete(k) == k \in live /\ Persist(k, None)

\* What if a changed key were published with the runtime built for the file?
PublishReplacement ==
  LET k == writer.key IN
  /\ writer.stage = "publish"
  /\ live' = IF writer.policy = None THEN live \ {k} ELSE live \cup {k}
  /\ meta' = IF writer.policy = None THEN meta ELSE [meta EXCEPT ![k] = writer.policy]
  /\ active' = [active EXCEPT ![k] = 0]
  /\ rate' = [rate EXCEPT ![k] = [minute |-> 0, count |-> 0]]
  /\ revoked' = IF writer.policy = None THEN revoked \cup {k} ELSE revoked
  /\ writer' = Quiescent
  /\ UNCHANGED <<minute, disk, synced, writes, request, known, counted, late>>

\* The new snapshot is stored and the call returns.  Counters stay with the
\* key; whoever found a key before it was deleted goes on with its last policy.
Publish ==
  LET k == writer.key IN
  /\ writer.stage = "publish"
  /\ live' = IF writer.policy = None THEN live \ {k} ELSE live \cup {k}
  /\ meta' = IF writer.policy = None THEN meta ELSE [meta EXCEPT ![k] = writer.policy]
  /\ revoked' = IF writer.policy = None THEN revoked \cup {k} ELSE revoked
  /\ writer' = Quiescent
  /\ UNCHANGED <<minute, disk, synced, active, rate, writes, request, known, counted, late>>

\* The kernel writes the directory back.
Sync ==
  /\ synced # disk
  /\ synced' = disk
  /\ UNCHANGED <<minute, disk, live, meta, active, rate, writer, writes, request,
                 known, revoked, counted, late>>

\* The process ends and starts again from the file it finds.
Restart(file) ==
  /\ disk' = file /\ synced' = file
  /\ live' = {k \in Keys : file[k] # None}
  /\ meta' = file
  /\ active' = [k \in Keys |-> 0]
  /\ rate' = [k \in Keys |-> [minute |-> 0, count |-> 0]]
  /\ writer' = Quiescent
  /\ request' = [h \in Handlers |-> Idle]
  /\ counted' = [k \in Keys |-> 0]
  /\ late' = {}
  /\ UNCHANGED <<minute, writes, known, revoked>>

Crash == Restart(disk)

PowerLoss == PowerFails /\ Restart(synced)

-----------------------------------------------------------------------------
(* A request.                                                              *)

Lookup(h, k) ==
  /\ request[h].stage = "idle"
  /\ k \in live
  /\ request' = [request EXCEPT ![h] = [Idle EXCEPT !.stage = "found", !.key = k]]
  /\ UNCHANGED <<minute, admin, active, rate, counted, late>>

\* The policy and the time are read once and used to the end.
Check(h) ==
  LET k == request[h].key
      p == meta[k]
  IN  /\ request[h].stage = "found"
      /\ request' = [request EXCEPT ![h] =
           IF p.enabled /\ (p.expires = None \/ minute < p.expires)
           THEN [stage |-> "checked", key |-> k, policy |-> p, minute |-> minute]
           ELSE Idle]
      /\ UNCHANGED <<minute, admin, active, rate, counted, late>>

\* A window of the rate limit that the request opens, or that has room for it.
HasRate(bucket, r) == bucket.minute # r.minute \/ bucket.count < r.policy.rpm

\* What if the count were compared one too late?
CountInMinuteLate(h) ==
  LET r == request[h]
      bucket == rate[r.key]
  IN  /\ r.stage = "checked"
      /\ r.policy.rpm > 0
      /\ bucket.minute # r.minute \/ bucket.count <= r.policy.rpm
      /\ rate' = [rate EXCEPT ![r.key] =
           [minute |-> r.minute,
            count |-> IF bucket.minute = r.minute THEN bucket.count + 1 ELSE 1]]
      /\ request' = [request EXCEPT ![h].stage = "rated"]
      /\ counted' = IF r.minute = minute THEN [counted EXCEPT ![r.key] = @ + 1] ELSE counted
      /\ late' = IF r.minute = minute THEN late ELSE late \cup {r.key}
      /\ UNCHANGED <<minute, admin, active>>

\* acquireRPM, with the minute of the check.
CountInMinute(h) ==
  LET r == request[h]
      bucket == rate[r.key]
  IN  /\ r.stage = "checked"
      /\ r.policy.rpm > 0
      /\ HasRate(bucket, r)
      /\ rate' = [rate EXCEPT ![r.key] =
           [minute |-> r.minute,
            count |-> IF bucket.minute = r.minute THEN bucket.count + 1 ELSE 1]]
      /\ request' = [request EXCEPT ![h].stage = "rated"]
      /\ counted' = IF r.minute = minute THEN [counted EXCEPT ![r.key] = @ + 1] ELSE counted
      /\ late' = IF r.minute = minute THEN late ELSE late \cup {r.key}
      /\ UNCHANGED <<minute, admin, active>>

SkipRate(h) ==
  /\ request[h].stage = "checked"
  /\ request[h].policy.rpm = 0
  /\ request' = [request EXCEPT ![h].stage = "rated"]
  /\ UNCHANGED <<minute, admin, active, rate, counted, late>>

RefuseRate(h) ==
  LET r == request[h] IN
  /\ r.stage = "checked"
  /\ r.policy.rpm > 0
  /\ ~HasRate(rate[r.key], r)
  /\ request' = [request EXCEPT ![h] = Idle]
  /\ UNCHANGED <<minute, admin, active, rate, counted, late>>

HasSlot(r) == r.policy.concurrency = 0 \/ active[r.key] < r.policy.concurrency

\* acquireAtomic: the request is admitted.
TakeSlot(h) ==
  LET r == request[h] IN
  /\ r.stage = "rated"
  /\ HasSlot(r)
  /\ active' = [active EXCEPT ![r.key] = @ + 1]
  /\ request' = [request EXCEPT ![h].stage = "admitted"]
  /\ UNCHANGED <<minute, admin, rate, counted, late>>

\* The minute stays charged.
RefuseSlot(h) ==
  LET r == request[h] IN
  /\ r.stage = "rated"
  /\ ~HasSlot(r)
  /\ request' = [request EXCEPT ![h] = Idle]
  /\ UNCHANGED <<minute, admin, active, rate, counted, late>>

\* KeyLease.Complete, when the request is over.
Complete(h) ==
  /\ request[h].stage = "admitted"
  /\ active' = [active EXCEPT ![request[h].key] = @ - 1]
  /\ request' = [request EXCEPT ![h] = Idle]
  /\ UNCHANGED <<minute, admin, rate, counted, late>>

-----------------------------------------------------------------------------
Tick ==
  /\ minute < MaxMinute
  /\ minute' = minute + 1
  /\ counted' = [k \in Keys |-> 0]
  /\ late' = {}
  /\ UNCHANGED <<admin, active, rate, request>>

Next ==
  \/ \E k \in Keys : Create(k) \/ Update(k) \/ Delete(k)
  \/ Publish \/ Sync \/ Crash \/ PowerLoss \/ Tick
  \/ \E h \in Handlers :
       \/ \E k \in Keys : Lookup(h, k)
       \/ Check(h) \/ CountInMinute(h) \/ SkipRate(h) \/ RefuseRate(h)
       \/ TakeSlot(h) \/ RefuseSlot(h) \/ Complete(h)

Spec == Init /\ [][Next]_vars

-----------------------------------------------------------------------------
TypeOK ==
  /\ minute \in Nat /\ writes \in Nat
  /\ disk \in [Keys -> Policies \cup {None}]
  /\ synced \in [Keys -> Policies \cup {None}]
  /\ live \in SUBSET Keys
  /\ meta \in [Keys -> Policies \cup {None}]
  /\ active \in [Keys -> Nat]
  /\ rate \in [Keys -> [minute : Nat, count : Nat]]
  /\ writer \in [stage : {"idle", "publish"}, key : Keys \cup {None},
                 policy : Policies \cup {None}]
  /\ request \in [Handlers -> [stage : {"idle", "found", "checked", "rated", "admitted"},
                               key : Keys \cup {None}, policy : Policies \cup {None},
                               minute : Nat]]
  /\ known \in SUBSET Keys /\ revoked \in SUBSET Keys /\ late \in SUBSET Keys
  /\ counted \in [Keys -> Nat]

\* The counter of a key is the number of requests admitted with it, across
\* changes of its policy and after its deletion.
ActiveCounted == \A k \in Keys : active[k] = Cardinality(Admitted(k))

CountersExact == TypeOK /\ ActiveCounted

\* The file is ahead of what requests see by at most the change being
\* published: a crash never brings back a policy that was replaced.
PublishedIsPersisted ==
  \A k \in Keys :
    disk[k] = IF writer.stage = "publish" /\ writer.key = k THEN writer.policy
              ELSE IF k \in live THEN meta[k] ELSE None

\* A deletion that reached the disk is final: neither another change nor a
\* power failure brings the key back.
SyncedRevocationHolds ==
  [][\A k \in revoked : synced[k] = None /\ k \notin live => k \notin live']_vars

\* However its policy changes, a key that every policy limits never has more
\* requests under way than the largest limit.
WithinSomePolicy ==
  \A k \in Keys : (\A p \in Policies : p.concurrency > 0) =>
    Cardinality(Admitted(k)) = 0 \/ \E p \in Policies : Cardinality(Admitted(k)) <= p.concurrency

\* A minute in which no request was counted after its own minute had ended
\* never exceeds the largest rate of any policy.
RateHeld ==
  \A k \in Keys \ late : counted[k] = 0 \/ \E p \in Policies : counted[k] <= p.rpm

\* Neither limit is passed by requests that race with each other, with changes
\* of the policy and with restarts.
LimitsHold == WithinSomePolicy /\ RateHeld

\* docs/LITE2API_PROJECT_OVERVIEW_2026-10-28.md:115: the RPM policy is enforced
\* as configured ("RPM、并发及有效期策略按配置执行").
RateEnforced ==
  \A k \in Keys : counted[k] = 0 \/ \E p \in Policies : counted[k] <= p.rpm

-----------------------------------------------------------------------------
(* The keys as a register.                                                 *)

Snapshots == [Keys -> Policies \cup {None}]

\* What requests see, and what they will see of a change in progress.
Seen == [k \in Keys |-> IF k \in live THEN meta[k] ELSE None]

Intended == [Seen EXCEPT ![writer.key] = writer.policy]

\* One key is created, changed or deleted.
OneKey ==
  {c \in Snapshots \X Snapshots :
     \E k \in Keys, p \in Policies \cup {None} : c[2] = [c[1] EXCEPT ![k] = p]}

Register == INSTANCE CommitRegister WITH
  Values <- Snapshots,
  Changes <- OneKey,
  Edits <- {},
  Syncs <- FALSE,
  Down <- None,
  value <- Seen,
  staged <- IF writer.stage = "publish" THEN {[value |-> Intended, own |-> TRUE]} ELSE {},
  file <- disk,
  durable <- synced

\* clientkeys.go:371: requests see a register of policies: each change is made
\* of what they see, one key at a time, is in the file before, and is found there
\* after a crash.
ImplementsRegister == Register!Spec
=============================================================================
