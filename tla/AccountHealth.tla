--------------------------- MODULE AccountHealth ---------------------------
(***************************************************************************)
(* The circuit breaker of one account in one scope (operation, upstream    *)
(* model, credential): internal/gateway/runtime.go and the places in       *)
(* gateway.go that report to it.                                           *)
(*                                                                         *)
(* Attempts take a sequence number when they begin and report when they    *)
(* end, in any order, possibly long after a reload.  A health object       *)
(* (accountRuntimeState) is kept by a reload only if the account of the    *)
(* scheduler it replaces has the same identity; requests keep the object   *)
(* they were pinned to.  reportSuccess and reportFailure run under the     *)
(* breaker's mutex: one step each.                                         *)
(***************************************************************************)
EXTENDS Integers, FiniteSets

CONSTANTS
  Handlers,     \* requests that may have an attempt in flight
  Identities,   \* what accountIdentity hashes: endpoint, credential, adapter
  Threshold,    \* server.failure_threshold
  Cooldown,     \* server.circuit_cooldown
  RetryAfters,  \* delays upstreams ask for in Retry-After
  MaxCooldown,  \* cooldownFor's cap (24 hours in the code)
  None,         \* no account published, no Retry-After header
  MaxTime,      \* bound of the clock
  MaxSequence,  \* bound of attempts per health object
  MaxObjects    \* bound of health objects created

ASSUME HealthAssumption ==
  /\ None \notin Identities
  /\ Threshold \in Nat \ {0}
  /\ Cooldown \in Nat \ {0}
  /\ RetryAfters \subseteq Nat \ {0}
  /\ None \notin RetryAfters
  /\ MaxCooldown \in Nat \ {0}
  /\ MaxTime \in Nat
  /\ MaxSequence \in Nat
  /\ MaxObjects \in Nat \ {0}

Objects == 1..MaxObjects

\* Decisive results.  "denied": 401, 402, 403.  "limited": 429.  "failed":
\* transport errors, uncertain submissions, broken or incomplete responses.
FailureKinds == {"denied", "limited", "failed"}

Evidence == [seq : Nat, kind : FailureKinds \cup {"success"}]

VARIABLES
  now,        \* the clock
  published,  \* [identity, object] of the account in the published state, or None
  created,    \* health objects created so far
  health,     \* the breaker of every object
  attempt,    \* what every handler is doing
  delivered   \* history: the decisive results reported to every object

vars == <<now, published, created, health, attempt, delivered>>

\* identity: of the account the object was created for; seq: attemptSeq;
\* until: circuitUntil, 0 when closed.
Health == [identity : Identities \cup {None}, seq : Nat, failures : Nat, until : Nat,
           latestFailure : Nat, latestNonFailure : Nat]

Fresh(i) == [identity |-> i, seq |-> 0, failures |-> 0, until |-> 0,
             latestFailure |-> 0, latestNonFailure |-> 0]

Idle == [stage |-> "idle", object |-> None, identity |-> None, seq |-> 0]

Available(o) == health[o].until <= now

MaxOf(x, y) == IF x >= y THEN x ELSE y

\* A Retry-After delay is honoured up to the cap; without one the configured
\* cooldown applies.
CooldownFor(delay) ==
  IF delay = None THEN Cooldown ELSE IF delay >= MaxCooldown THEN MaxCooldown ELSE delay

-----------------------------------------------------------------------------
Init ==
  /\ now = 0
  /\ \E i \in Identities :
       /\ published = [identity |-> i, object |-> 1]
       /\ health = [o \in Objects |-> IF o = 1 THEN Fresh(i) ELSE Fresh(None)]
  /\ created = 1
  /\ attempt = [h \in Handlers |-> Idle]
  /\ delivered = [o \in Objects |-> {}]

\* What if health were kept by account ID alone?
ReloadById(i) ==
  /\ IF published # None
       THEN published' = [published EXCEPT !.identity = i] /\ UNCHANGED <<created, health>>
       ELSE /\ created < MaxObjects
            /\ created' = created + 1
            /\ published' = [identity |-> i, object |-> created']
            /\ health' = [health EXCEPT ![created'] = Fresh(i)]
  /\ UNCHANGED <<now, attempt, delivered>>

\* NewSchedulerWithPrevious: the account is (re)published with identity i.
\* Only an unchanged identity in the scheduler being replaced keeps its health.
Reload(i) ==
  /\ IF published # None /\ published.identity = i
       THEN UNCHANGED <<published, created, health>>
       ELSE /\ created < MaxObjects
            /\ created' = created + 1
            /\ published' = [identity |-> i, object |-> created']
            /\ health' = [health EXCEPT ![created'] = Fresh(i)]
  /\ UNCHANGED <<now, attempt, delivered>>

\* A reload without the account.
Remove ==
  /\ published # None
  /\ published' = None
  /\ UNCHANGED <<now, created, health, attempt, delivered>>

\* Selection finds the circuit closed.
Select(h) ==
  /\ attempt[h].stage = "idle"
  /\ published # None
  /\ Available(published.object)
  /\ attempt' = [attempt EXCEPT ![h] =
       [stage |-> "selected", object |-> published.object,
        identity |-> published.identity, seq |-> 0]]
  /\ UNCHANGED <<now, published, created, health, delivered>>

\* The request is rewritten and the attempt begins: others may have opened the
\* circuit meanwhile.
BeginAttempt(h) ==
  LET o == attempt[h].object IN
  /\ attempt[h].stage = "selected"
  /\ health[o].seq < MaxSequence
  /\ health' = [health EXCEPT ![o].seq = @ + 1]
  /\ attempt' = [attempt EXCEPT ![h].stage = "inflight", ![h].seq = health[o].seq + 1]
  /\ UNCHANGED <<now, published, created, delivered>>

\* The handler is through with the attempt; e is its evidence.
Deliver(h, kind) ==
  /\ attempt' = [attempt EXCEPT ![h] = Idle]
  /\ delivered' = [delivered EXCEPT ![attempt[h].object] =
                     @ \cup {[seq |-> attempt[h].seq, kind |-> kind]}]
  /\ UNCHANGED <<now, published, created>>

\* What if every success were believed?
ReportSuccessUnfenced(h) ==
  LET o == attempt[h].object IN
  /\ attempt[h].stage = "inflight"
  /\ health' = [health EXCEPT ![o] =
                  [@ EXCEPT !.latestNonFailure = MaxOf(@, attempt[h].seq),
                            !.failures = 0, !.until = 0]]
  /\ Deliver(h, "success")

\* What if a success were compared with the successes before it?
ReportSuccessWrongFence(h) ==
  LET o == attempt[h].object
      b == health[o]
      s == attempt[h].seq
  IN  /\ attempt[h].stage = "inflight"
      /\ health' = IF s <= b.latestNonFailure THEN health
                   ELSE [health EXCEPT ![o] =
                           [b EXCEPT !.latestNonFailure = MaxOf(@, s),
                                     !.failures = 0, !.until = 0]]
      /\ Deliver(h, "success")

\* A success older than a reported failure proves nothing about the present.
ReportSuccess(h) ==
  LET o == attempt[h].object
      b == health[o]
      s == attempt[h].seq
  IN  /\ attempt[h].stage = "inflight"
      /\ health' = IF s <= b.latestFailure THEN health
                   ELSE [health EXCEPT ![o] =
                           [b EXCEPT !.latestNonFailure = MaxOf(@, s),
                                     !.failures = 0, !.until = 0]]
      /\ Deliver(h, "success")

\* What if a failure older than a success still counted?
RecordFailureUnfenced(h, kind, cooldown, force) ==
  LET o == attempt[h].object
      b == health[o]
  IN  /\ attempt[h].stage = "inflight"
      /\ health' = [health EXCEPT ![o] =
                      [b EXCEPT !.latestFailure = MaxOf(@, attempt[h].seq),
                                !.failures = @ + 1,
                                !.until = IF b.failures + 1 >= Threshold \/ force
                                          THEN now + cooldown ELSE @]]
      /\ Deliver(h, kind)

\* reportFailure(attempt, message, threshold, cooldown, forceCircuit).
RecordFailure(h, kind, cooldown, force) ==
  LET o == attempt[h].object
      b == health[o]
      s == attempt[h].seq
  IN  /\ attempt[h].stage = "inflight"
      /\ health' = IF s <= b.latestNonFailure THEN health
                   ELSE [health EXCEPT ![o] =
                           [b EXCEPT !.latestFailure = MaxOf(@, s),
                                     !.failures = @ + 1,
                                     !.until = IF b.failures + 1 >= Threshold \/ force
                                               THEN now + cooldown ELSE @]]
      /\ Deliver(h, kind)

\* Transport error, uncertain submission, interrupted or incomplete response.
ReportFailed(h) == RecordFailure(h, "failed", Cooldown, FALSE)

\* 429.
ReportLimited(h) ==
  \E delay \in RetryAfters \cup {None} :
    RecordFailure(h, "limited", CooldownFor(delay), FALSE)

\* 401, 402, 403.
ReportDenied(h) ==
  \E delay \in RetryAfters \cup {None} :
    RecordFailure(h, "denied", CooldownFor(delay), TRUE)

\* A neutral status, a targeted 404, a client that left, a rewrite that failed
\* before the attempt: the breaker is not told anything.
NoEvidence(h) ==
  /\ attempt[h].stage # "idle"
  /\ attempt' = [attempt EXCEPT ![h] = Idle]
  /\ UNCHANGED <<now, published, created, health, delivered>>

Tick ==
  /\ now < MaxTime
  /\ now' = now + 1
  /\ UNCHANGED <<published, created, health, attempt, delivered>>

Next ==
  \/ Tick \/ Remove
  \/ \E i \in Identities : Reload(i)
  \/ \E h \in Handlers :
       \/ Select(h) \/ BeginAttempt(h) \/ NoEvidence(h)
       \/ ReportSuccess(h) \/ ReportFailed(h) \/ ReportLimited(h) \/ ReportDenied(h)

Spec == Init /\ [][Next]_vars

-----------------------------------------------------------------------------
TypeOK ==
  /\ now \in Nat
  /\ published \in [identity : Identities, object : Objects] \cup {None}
  /\ created \in Objects
  /\ health \in [Objects -> Health]
  /\ attempt \in [Handlers -> [stage : {"idle", "selected", "inflight"},
                               object : Objects \cup {None},
                               identity : Identities \cup {None}, seq : Nat]]
  /\ delivered \in [Objects -> SUBSET Evidence]

Failures(o) == {e \in delivered[o] : e.kind \in FailureKinds}

Successes(o) == {e \in delivered[o] : e.kind = "success"}

\* No reported result is newer than e.
Newest(o, e) == e \in delivered[o] /\ \A f \in delivered[o] : f.seq <= e.seq

\* In whatever order results arrive, the newest attempt heard of decides: after
\* its success the breaker is clear, after its failure it is not.
NewestEvidenceRules ==
  \A o \in Objects : \A e \in delivered[o] :
    Newest(o, e) =>
      IF e.kind = "success"
        THEN health[o].failures = 0 /\ health[o].until = 0
        ELSE health[o].failures > 0 /\ (e.kind = "denied" => health[o].until > 0)

\* The failure count is exact: it holds every failure reported for an attempt
\* newer than the last success that was believed, and nothing else.
FailuresCounted ==
  \A o \in Objects :
    health[o].failures =
      Cardinality({e \in Failures(o) : e.seq > health[o].latestNonFailure})

\* Types hold and the counts are exact, whatever order results come in.
CountsExact == TypeOK /\ FailuresCounted

\* Health never crosses identities: the published account and every attempt in
\* flight report to an object created for the upstream they talk to.
HealthFollowsIdentity ==
  /\ published # None => health[published.object].identity = published.identity
  /\ \A h \in Handlers : attempt[h].stage # "idle" =>
       health[attempt[h].object].identity = attempt[h].identity

\* A circuit is cleared only by the success of an attempt begun after every
\* failure reported so far.
ClosingIsEarned ==
  \A o \in Objects :
    health[o].until > 0 /\ health'[o].until = 0 =>
      \E e \in delivered'[o] \ delivered[o] :
        e.kind = "success" /\ \A f \in Failures(o) : f.seq < e.seq

ClosedByNewerSuccess == [][ClosingIsEarned]_vars
=============================================================================
