------------------------ MODULE AccountHealth_proofs ------------------------
(***************************************************************************)
(* Proofs about AccountHealth for every number of attempts, reloads and    *)
(* identities, every threshold and every cooldown.                         *)
(***************************************************************************)
EXTENDS AccountHealth, FiniteSetTheorems, TLAPS

-----------------------------------------------------------------------------
(* The inductive invariant.                                                *)

\* Nothing refers to an object that has not been created.
CreatedInv ==
  /\ published # None => published.object \in 1..created
  /\ \A h \in Handlers : attempt[h].stage # "idle" =>
       attempt[h].object \in 1..created /\ attempt[h].identity \in Identities
  /\ \A o \in Objects : o > created => delivered[o] = {}

\* Sequence numbers are used once: by an attempt in flight or by one result.
SequenceInv ==
  /\ \A h \in Handlers : attempt[h].stage = "inflight" =>
       /\ attempt[h].seq \in 1..health[attempt[h].object].seq
       /\ \A e \in delivered[attempt[h].object] : e.seq # attempt[h].seq
  /\ \A h, k \in Handlers :
       /\ attempt[h].stage = "inflight" /\ attempt[k].stage = "inflight"
       /\ attempt[h].object = attempt[k].object
       /\ h # k
       => attempt[h].seq # attempt[k].seq
  /\ \A o \in Objects : \A e, f \in delivered[o] :
       /\ e.seq \in 1..health[o].seq
       /\ e.seq = f.seq => e = f

\* What the two fences of an object say about the results they stand for.
Fenced(o) ==
  /\ \/ health[o].latestNonFailure = 0
     \/ \E e \in Successes(o) : e.seq = health[o].latestNonFailure
  /\ \/ health[o].latestFailure = 0
     \/ \E f \in Failures(o) : f.seq = health[o].latestFailure
  /\ \A e \in Successes(o) :
       e.seq > health[o].latestFailure => e.seq <= health[o].latestNonFailure
  /\ \A f \in Failures(o) :
       f.seq > health[o].latestNonFailure =>
         /\ f.seq <= health[o].latestFailure
         /\ f.kind = "denied" => health[o].until > 0

FenceInv == \A o \in Objects : Fenced(o)

\* The failures the breaker still counts.
Believed(o) == {e \in Failures(o) : e.seq > health[o].latestNonFailure}

Counted(o) ==
  /\ IsFiniteSet(delivered[o])
  /\ health[o].failures = Cardinality(Believed(o))
  /\ health[o].until > 0 => health[o].failures > 0

CountInv == \A o \in Objects : Counted(o)

IInv ==
  TypeOK /\ CreatedInv /\ HealthFollowsIdentity /\ SequenceInv /\ FenceInv /\ CountInv

-----------------------------------------------------------------------------
\* The delay a breaker opens for is positive, whatever the header says.
LEMMA CooldownPositive ==
  ASSUME NEW d \in RetryAfters \cup {None}
  PROVE  CooldownFor(d) \in Nat /\ CooldownFor(d) > 0
BY HealthAssumption DEF CooldownFor

\* The three failure reports are one action with different arguments.
LEMMA FailureShape ==
  ASSUME NEW h \in Handlers,
         ReportFailed(h) \/ ReportLimited(h) \/ ReportDenied(h)
  PROVE  \E kind \in FailureKinds, c \in Nat \ {0}, force \in BOOLEAN :
           RecordFailure(h, kind, c, force) /\ (kind = "denied" => force)
<1>1. CASE ReportFailed(h)
  <2>1. Cooldown \in Nat \ {0} /\ "failed" \in FailureKinds
    BY HealthAssumption DEF FailureKinds
  <2>2. QED
    BY <1>1, <2>1 DEF ReportFailed
<1>2. CASE ReportLimited(h)
  <2>1. PICK d \in RetryAfters \cup {None} : RecordFailure(h, "limited", CooldownFor(d), FALSE)
    BY <1>2 DEF ReportLimited
  <2>2. CooldownFor(d) \in Nat \ {0} /\ "limited" \in FailureKinds
    BY CooldownPositive DEF FailureKinds
  <2>3. QED
    BY <2>1, <2>2
<1>3. CASE ReportDenied(h)
  <2>1. PICK d \in RetryAfters \cup {None} : RecordFailure(h, "denied", CooldownFor(d), TRUE)
    BY <1>3 DEF ReportDenied
  <2>2. CooldownFor(d) \in Nat \ {0} /\ "denied" \in FailureKinds
    BY CooldownPositive DEF FailureKinds
  <2>3. QED
    BY <2>1, <2>2
<1>4. QED
  BY <1>1, <1>2, <1>3

\* The breaker a success leaves behind.
LEMMA SuccessRecord ==
  ASSUME NEW b \in Health, NEW l \in Nat
  PROVE  LET n == [b EXCEPT !.latestNonFailure = l, !.failures = 0, !.until = 0]
         IN  /\ n \in Health
             /\ n.identity = b.identity /\ n.seq = b.seq
             /\ n.failures = 0 /\ n.until = 0
             /\ n.latestFailure = b.latestFailure /\ n.latestNonFailure = l
BY DEF Health

\* What every reported result has in common: it joins the results of the
\* object its attempt belongs to, and the handler becomes idle.
LEMMA DeliverEffect ==
  ASSUME TypeOK, CreatedInv, NEW h \in Handlers, NEW kind \in FailureKinds \cup {"success"},
         attempt[h].stage = "inflight", Deliver(h, kind)
  PROVE  LET o == attempt[h].object
             e == [seq |-> attempt[h].seq, kind |-> kind]
         IN  /\ o \in Objects /\ o \in 1..created
             /\ attempt[h].seq \in Nat
             /\ e \in Evidence
             /\ delivered' \in [Objects -> SUBSET Evidence]
             /\ delivered'[o] = delivered[o] \cup {e}
             /\ \A p \in Objects : p # o => delivered'[p] = delivered[p]
             /\ attempt'[h] = Idle
             /\ \A k \in Handlers : k # h => attempt'[k] = attempt[k]
<1> DEFINE o == attempt[h].object
           e == [seq |-> attempt[h].seq, kind |-> kind]
<1>1. o \in Objects /\ o \in 1..created /\ attempt[h].seq \in Nat
  BY HealthAssumption DEF TypeOK, CreatedInv, Objects
<1>2. e \in Evidence
  BY <1>1 DEF Evidence
<1>3. /\ delivered' \in [Objects -> SUBSET Evidence]
      /\ delivered'[o] = delivered[o] \cup {e}
      /\ \A p \in Objects : p # o => delivered'[p] = delivered[p]
  BY <1>1, <1>2 DEF Deliver, TypeOK
<1>4. /\ attempt'[h] = Idle
      /\ \A k \in Handlers : k # h => attempt'[k] = attempt[k]
  BY DEF Deliver, TypeOK
<1>5. QED
  BY <1>1, <1>2, <1>3, <1>4

\* What a reported success does to the breakers.
LEMMA SuccessEffect ==
  ASSUME TypeOK, CreatedInv, NEW h \in Handlers, ReportSuccess(h)
  PROVE  LET o == attempt[h].object
             s == attempt[h].seq
         IN  /\ health' \in [Objects -> Health]
             /\ \A p \in Objects : p # o => health'[p] = health[p]
             /\ \A p \in Objects :
                  health'[p].seq = health[p].seq /\ health'[p].identity = health[p].identity
             /\ s <= health[o].latestFailure => health'[o] = health[o]
             /\ s > health[o].latestFailure =>
                  /\ health'[o].failures = 0 /\ health'[o].until = 0
                  /\ health'[o].latestFailure = health[o].latestFailure
                  /\ health'[o].latestNonFailure = MaxOf(health[o].latestNonFailure, s)
<1> DEFINE o == attempt[h].object
           s == attempt[h].seq
           l == MaxOf(health[o].latestNonFailure, s)
           n == [health[o] EXCEPT !.latestNonFailure = l, !.failures = 0, !.until = 0]
<1>1. o \in Objects /\ s \in Nat
  BY DeliverEffect DEF ReportSuccess
<1>2. health[o] \in Health
  BY <1>1 DEF TypeOK
<1>3. l \in Nat
  BY <1>1, <1>2 DEF MaxOf, Health
<1>4. /\ n \in Health
      /\ n.identity = health[o].identity /\ n.seq = health[o].seq
      /\ n.failures = 0 /\ n.until = 0
      /\ n.latestFailure = health[o].latestFailure /\ n.latestNonFailure = l
  BY <1>2, <1>3, SuccessRecord
<1>5. health' = IF s <= health[o].latestFailure THEN health ELSE [health EXCEPT ![o] = n]
  BY DEF ReportSuccess
<1>6. health \in [Objects -> Health] /\ health[o].latestFailure \in Nat
  BY <1>2 DEF TypeOK, Health
<1> HIDE DEF n
<1>7. QED
  BY <1>1, <1>4, <1>5, <1>6

\* What a reported failure does to the breakers.
LEMMA FailureEffect ==
  ASSUME TypeOK, CreatedInv, NEW h \in Handlers, NEW kind \in FailureKinds,
         NEW c \in Nat \ {0}, NEW force \in BOOLEAN, RecordFailure(h, kind, c, force)
  PROVE  LET o == attempt[h].object
             s == attempt[h].seq
         IN  /\ health' \in [Objects -> Health]
             /\ \A p \in Objects : p # o => health'[p] = health[p]
             /\ \A p \in Objects :
                  health'[p].seq = health[p].seq /\ health'[p].identity = health[p].identity
             /\ s <= health[o].latestNonFailure => health'[o] = health[o]
             /\ s > health[o].latestNonFailure =>
                  /\ health'[o].failures = health[o].failures + 1
                  /\ health[o].until > 0 \/ force => health'[o].until > 0
                  /\ health'[o].latestFailure = MaxOf(health[o].latestFailure, s)
                  /\ health'[o].latestNonFailure = health[o].latestNonFailure
<1> DEFINE o == attempt[h].object
           s == attempt[h].seq
           l == MaxOf(health[o].latestFailure, s)
           f == health[o].failures + 1
           t == IF f >= Threshold \/ force THEN now + c ELSE health[o].until
           n == [health[o] EXCEPT !.latestFailure = l, !.failures = f, !.until = t]
<1>1. o \in Objects /\ s \in Nat
  BY DeliverEffect DEF RecordFailure
<1>2. health[o] \in Health
  BY <1>1 DEF TypeOK
<1>3. l \in Nat /\ f \in Nat
  BY <1>1, <1>2 DEF MaxOf, Health
<1>4. t \in Nat /\ (health[o].until > 0 \/ force => t > 0)
  <2>1. now \in Nat /\ health[o].until \in Nat
    BY <1>2 DEF TypeOK, Health
  <2>2. now + c \in Nat /\ now + c > 0
    BY <2>1
  <2>3. t = now + c \/ (t = health[o].until /\ ~force)
    OBVIOUS
  <2> HIDE DEF t
  <2>4. QED
    BY <2>1, <2>2, <2>3
<1>5. /\ n \in Health
      /\ n.identity = health[o].identity /\ n.seq = health[o].seq
      /\ n.failures = f /\ n.until = t
      /\ n.latestFailure = l /\ n.latestNonFailure = health[o].latestNonFailure
  <2>1. t \in Nat
    BY <1>4
  <2> DEFINE b == health[o]
             m == [b EXCEPT !.latestFailure = l, !.failures = f, !.until = t]
  <2>2. b \in Health
    BY <1>2
  <2> HIDE DEF l, f, t, b
  <2>3. /\ m \in Health
        /\ m.identity = b.identity /\ m.seq = b.seq
        /\ m.failures = f /\ m.until = t
        /\ m.latestFailure = l /\ m.latestNonFailure = b.latestNonFailure
    BY <1>3, <2>1, <2>2 DEF Health
  <2>4. QED
    BY <2>3 DEF b
<1>6. health' = IF s <= health[o].latestNonFailure THEN health ELSE [health EXCEPT ![o] = n]
  BY DEF RecordFailure
<1>7. health \in [Objects -> Health] /\ health[o].latestNonFailure \in Nat
  BY <1>2 DEF TypeOK, Health
<1> HIDE DEF n, t
<1>8. QED
  BY <1>1, <1>4, <1>5, <1>6, <1>7

-----------------------------------------------------------------------------
\* Types, references and identities are preserved by every step.
LEMMA TypedStep ==
  TypeOK /\ CreatedInv /\ HealthFollowsIdentity /\ [Next]_vars
    => TypeOK' /\ CreatedInv' /\ HealthFollowsIdentity'
<1> SUFFICES ASSUME TypeOK, CreatedInv, HealthFollowsIdentity, [Next]_vars
             PROVE  TypeOK' /\ CreatedInv' /\ HealthFollowsIdentity'
  OBVIOUS
<1> DEFINE Goal == TypeOK' /\ CreatedInv' /\ HealthFollowsIdentity'
<1>1. CASE Tick
  BY <1>1, HealthAssumption DEF Tick, TypeOK, CreatedInv, HealthFollowsIdentity
<1>2. CASE Remove
  BY <1>2 DEF Remove, TypeOK, CreatedInv, HealthFollowsIdentity
<1>3. ASSUME NEW i \in Identities, Reload(i) PROVE Goal
  <2>1. CASE UNCHANGED <<published, created, health>>
    BY <1>3, <2>1 DEF Reload, TypeOK, CreatedInv, HealthFollowsIdentity
  <2>2. CASE /\ created < MaxObjects
             /\ created' = created + 1
             /\ published' = [identity |-> i, object |-> created']
             /\ health' = [health EXCEPT ![created'] = Fresh(i)]
    <3>1. created' \in Objects /\ created' = created + 1 /\ created \in Nat
      BY <2>2, HealthAssumption DEF TypeOK, Objects
    <3>2. Fresh(i) \in Health /\ Fresh(i).identity = i
      BY DEF Fresh, Health
    <3>3. UNCHANGED <<now, attempt, delivered>>
      BY <1>3 DEF Reload
    <3>4. TypeOK'
      BY <2>2, <3>1, <3>2, <3>3 DEF TypeOK
    <3>5. CreatedInv'
      BY <2>2, <3>1, <3>3 DEF CreatedInv, TypeOK
    <3>6. \A o \in 1..created : health'[o] = health[o]
      BY <2>2, <3>1 DEF TypeOK, Objects
    <3>7. health'[created'].identity = i
      BY <2>2, <3>1, <3>2 DEF TypeOK
    <3>8. published'.identity = i /\ published'.object = created'
      BY <2>2
    <3>9. HealthFollowsIdentity'
      BY <3>3, <3>6, <3>7, <3>8 DEF HealthFollowsIdentity, CreatedInv
    <3>10. QED
      BY <3>4, <3>5, <3>9
  <2>3. QED
    BY <1>3, <2>1, <2>2 DEF Reload
<1>4. ASSUME NEW h \in Handlers, Select(h) PROVE Goal
  BY <1>4, HealthAssumption DEF Select, TypeOK, CreatedInv, HealthFollowsIdentity, Objects
<1>5. ASSUME NEW h \in Handlers, BeginAttempt(h) PROVE Goal
  <2> DEFINE o == attempt[h].object
  <2>1. o \in Objects
    BY <1>5, HealthAssumption DEF BeginAttempt, TypeOK, CreatedInv, Objects
  <2>2. health[o] \in Health /\ health[o].seq + 1 \in Nat
    BY <2>1 DEF TypeOK, Health
  <2>3. [health[o] EXCEPT !.seq = @ + 1] \in Health
    BY <2>2 DEF Health
  <2>4. health' = [health EXCEPT ![o] = [health[o] EXCEPT !.seq = @ + 1]]
    BY <1>5, <2>1 DEF BeginAttempt, TypeOK
  <2>5. /\ health' \in [Objects -> Health]
        /\ \A p \in Objects : health'[p].identity = health[p].identity
    BY <2>1, <2>2, <2>3, <2>4 DEF TypeOK, Health
  <2>6. /\ attempt'[h].object = o /\ attempt'[h].identity = attempt[h].identity
        /\ attempt'[h].stage = "inflight" /\ attempt[h].stage = "selected"
        /\ \A k \in Handlers : k # h => attempt'[k] = attempt[k]
    BY <1>5 DEF BeginAttempt, TypeOK
  <2>7. TypeOK'
    <3>1. UNCHANGED <<now, published, created, delivered>>
      BY <1>5 DEF BeginAttempt
    <3>2. attempt' = [attempt EXCEPT ![h] =
                        [attempt[h] EXCEPT !.stage = "inflight", !.seq = health[o].seq + 1]]
      BY <1>5 DEF BeginAttempt, TypeOK
    <3>3. [attempt[h] EXCEPT !.stage = "inflight", !.seq = health[o].seq + 1]
            \in [stage : {"idle", "selected", "inflight"}, object : Objects \cup {None},
                identity : Identities \cup {None}, seq : Nat]
      BY <2>2 DEF TypeOK
    <3>4. QED
      BY <2>5, <3>1, <3>2, <3>3 DEF TypeOK
  <2>8. CreatedInv'
    BY <1>5, <2>6 DEF BeginAttempt, CreatedInv
  <2>9. \A p \in 1..created : p \in Objects
    BY HealthAssumption DEF TypeOK, Objects
  <2>10. HealthFollowsIdentity'
    <3>1. published' = published
      BY <1>5 DEF BeginAttempt
    <3>2. published # None => health'[published.object].identity = published.identity
      BY <2>5, <2>9 DEF CreatedInv, HealthFollowsIdentity
    <3>3. ASSUME NEW k \in Handlers, attempt'[k].stage # "idle"
          PROVE  health'[attempt'[k].object].identity = attempt'[k].identity
      <4>1. /\ attempt[k].stage # "idle"
            /\ attempt'[k].object = attempt[k].object
            /\ attempt'[k].identity = attempt[k].identity
        BY <2>6, <3>3
      <4>2. attempt[k].object \in Objects
        BY <2>9, <4>1 DEF CreatedInv
      <4>3. QED
        BY <2>5, <4>1, <4>2 DEF HealthFollowsIdentity
    <3>4. QED
      BY <3>1, <3>2, <3>3 DEF HealthFollowsIdentity
  <2>11. QED
    BY <2>7, <2>8, <2>10
<1>6. ASSUME NEW h \in Handlers, NoEvidence(h) PROVE Goal
  BY <1>6 DEF NoEvidence, Idle, TypeOK, CreatedInv, HealthFollowsIdentity
<1>7. ASSUME NEW h \in Handlers, NEW kind \in FailureKinds \cup {"success"},
             attempt[h].stage = "inflight", Deliver(h, kind),
             health' \in [Objects -> Health],
             \A p \in Objects : health'[p].identity = health[p].identity
      PROVE  Goal
  <2>1. /\ attempt[h].object \in 1..created
        /\ delivered' \in [Objects -> SUBSET Evidence]
        /\ \A p \in Objects : p # attempt[h].object => delivered'[p] = delivered[p]
        /\ attempt'[h] = Idle
        /\ \A k \in Handlers : k # h => attempt'[k] = attempt[k]
    BY <1>7, DeliverEffect
  <2>2. UNCHANGED <<now, published, created>>
    BY <1>7 DEF Deliver
  <2>3. attempt' \in [Handlers -> [stage : {"idle", "selected", "inflight"},
                                   object : Objects \cup {None},
                                   identity : Identities \cup {None}, seq : Nat]]
    BY <1>7 DEF Deliver, TypeOK, Idle
  <2>4. TypeOK'
    BY <1>7, <2>1, <2>2, <2>3 DEF TypeOK
  <2>5. Idle.stage = "idle"
    BY DEF Idle
  <2>6. CreatedInv'
    <3>1. \A o \in Objects : o > created => o # attempt[h].object
      BY <2>1, HealthAssumption DEF TypeOK, Objects
    <3>2. QED
      BY <2>1, <2>2, <2>5, <3>1 DEF CreatedInv
  <2>7. \A p \in 1..created : p \in Objects
    BY HealthAssumption DEF TypeOK, Objects
  <2>8. HealthFollowsIdentity'
    BY <1>7, <2>1, <2>2, <2>5, <2>7 DEF CreatedInv, HealthFollowsIdentity
  <2>9. QED
    BY <2>4, <2>6, <2>8
<1>8. ASSUME NEW h \in Handlers, ReportSuccess(h) PROVE Goal
  BY <1>7, <1>8, SuccessEffect DEF ReportSuccess
<1>9. ASSUME NEW h \in Handlers, ReportFailed(h) \/ ReportLimited(h) \/ ReportDenied(h)
      PROVE  Goal
  <2>1. PICK kind \in FailureKinds, c \in Nat \ {0}, force \in BOOLEAN :
          RecordFailure(h, kind, c, force)
    BY <1>9, FailureShape
  <2>2. QED
    BY <1>7, <2>1, FailureEffect DEF RecordFailure
<1>10. CASE UNCHANGED vars
  BY <1>10 DEF vars, TypeOK, CreatedInv, HealthFollowsIdentity
<1>11. QED
  BY <1>1, <1>2, <1>3, <1>4, <1>5, <1>6, <1>8, <1>9, <1>10 DEF Next

-----------------------------------------------------------------------------
\* A reported result uses up the number of its attempt, and only that number.
LEMMA DeliverSequence ==
  ASSUME TypeOK, CreatedInv, SequenceInv,
         NEW h \in Handlers, NEW kind \in FailureKinds \cup {"success"},
         attempt[h].stage = "inflight", Deliver(h, kind),
         \A p \in Objects : health'[p].seq = health[p].seq
  PROVE  SequenceInv'
<1> DEFINE o == attempt[h].object
           e == [seq |-> attempt[h].seq, kind |-> kind]
<1>1. /\ o \in Objects
      /\ delivered'[o] = delivered[o] \cup {e}
      /\ \A p \in Objects : p # o => delivered'[p] = delivered[p]
      /\ attempt'[h] = Idle
      /\ \A k \in Handlers : k # h => attempt'[k] = attempt[k]
  BY DeliverEffect
<1>2. Idle.stage = "idle"
  BY DEF Idle
<1>3. \A k \in Handlers : attempt[k].stage = "inflight" => attempt[k].object \in Objects
  BY HealthAssumption DEF TypeOK, CreatedInv, Objects
<1>4. ASSUME NEW k \in Handlers, attempt'[k].stage = "inflight"
      PROVE  /\ attempt'[k].seq \in 1..health'[attempt'[k].object].seq
             /\ \A f \in delivered'[attempt'[k].object] : f.seq # attempt'[k].seq
  <2>1. k # h /\ attempt'[k] = attempt[k]
    BY <1>1, <1>2, <1>4
  <2>2. QED
    BY <1>1, <1>3, <1>4, <2>1 DEF SequenceInv
<1>5. ASSUME NEW k \in Handlers, NEW j \in Handlers,
             attempt'[k].stage = "inflight", attempt'[j].stage = "inflight",
             attempt'[k].object = attempt'[j].object, k # j
      PROVE  attempt'[k].seq # attempt'[j].seq
  BY <1>1, <1>2, <1>5 DEF SequenceInv
<1>6. ASSUME NEW p \in Objects, NEW f \in delivered'[p], NEW g \in delivered'[p]
      PROVE  f.seq \in 1..health'[p].seq /\ (f.seq = g.seq => f = g)
  <2>1. CASE p # o
    BY <1>1, <1>6, <2>1 DEF SequenceInv
  <2>2. CASE p = o
    <3>1. attempt[h].seq \in 1..health[o].seq /\ e.seq = attempt[h].seq
      BY DEF SequenceInv
    <3>2. \A x \in delivered[o] : x.seq # e.seq
      BY <3>1 DEF SequenceInv
    <3>3. QED
      BY <1>1, <1>6, <2>2, <3>1, <3>2 DEF SequenceInv
  <2>3. QED
    BY <2>1, <2>2
<1>7. QED
  BY <1>4, <1>5, <1>6 DEF SequenceInv

\* No sequence number is used twice.
LEMMA SequenceStep ==
  TypeOK /\ CreatedInv /\ SequenceInv /\ [Next]_vars => SequenceInv'
<1> SUFFICES ASSUME TypeOK, CreatedInv, SequenceInv, [Next]_vars
             PROVE  SequenceInv'
  OBVIOUS
<1>0. \A h \in Handlers : attempt[h].stage # "idle" => attempt[h].object \in Objects
  BY HealthAssumption DEF TypeOK, CreatedInv, Objects
<1>1. CASE Tick
  BY <1>1 DEF Tick, SequenceInv
<1>2. CASE Remove
  BY <1>2 DEF Remove, SequenceInv
<1>3. ASSUME NEW i \in Identities, Reload(i) PROVE SequenceInv'
  <2>1. CASE UNCHANGED <<published, created, health>>
    BY <1>3, <2>1 DEF Reload, SequenceInv
  <2>2. CASE created < MaxObjects /\ created' = created + 1
             /\ health' = [health EXCEPT ![created'] = Fresh(i)]
    <3>1. created' \in Objects /\ created' > created /\ created \in Nat
      BY <2>2, HealthAssumption DEF TypeOK, Objects
    <3>2. UNCHANGED <<attempt, delivered>>
      BY <1>3 DEF Reload
    <3>3. \A p \in Objects : p # created' => health'[p] = health[p]
      BY <2>2 DEF TypeOK
    <3>4. delivered[created'] = {}
      BY <3>1 DEF CreatedInv
    <3>5. \A h \in Handlers : attempt[h].stage # "idle" => attempt[h].object # created'
      BY <3>1 DEF CreatedInv
    <3>6. QED
      BY <1>0, <3>2, <3>3, <3>4, <3>5 DEF SequenceInv
  <2>3. QED
    BY <1>3, <2>1, <2>2 DEF Reload
<1>4. ASSUME NEW h \in Handlers, Select(h) PROVE SequenceInv'
  <2>1. /\ UNCHANGED <<health, delivered>>
        /\ attempt'[h].stage = "selected"
        /\ \A k \in Handlers : k # h => attempt'[k] = attempt[k]
    BY <1>4 DEF Select, TypeOK
  <2>2. QED
    BY <2>1 DEF SequenceInv
<1>5. ASSUME NEW h \in Handlers, BeginAttempt(h) PROVE SequenceInv'
  <2> DEFINE o == attempt[h].object
             s == health[o].seq + 1
  <2>1. o \in Objects /\ health[o] \in Health /\ health[o].seq \in Nat
    BY <1>0, <1>5 DEF BeginAttempt, TypeOK, Health
  <2>2. /\ attempt'[h].object = o /\ attempt'[h].seq = s
        /\ \A k \in Handlers : k # h => attempt'[k] = attempt[k]
    BY <1>5 DEF BeginAttempt, TypeOK
  <2>3. health'[o].seq = s /\ \A p \in Objects : p # o => health'[p] = health[p]
    BY <1>5, <2>1 DEF BeginAttempt, TypeOK, Health
  <2>4. delivered' = delivered /\ s \in Nat /\ s > health[o].seq
    BY <1>5, <2>1 DEF BeginAttempt
  <2> HIDE DEF s
  <2>5. ASSUME NEW p \in Objects, NEW x \in 1..health[p].seq
        PROVE  x \in 1..health'[p].seq /\ (p = o => x # s)
    BY <2>1, <2>3, <2>4, <2>5
  <2>6. ASSUME NEW k \in Handlers, attempt'[k].stage = "inflight"
        PROVE  /\ attempt'[k].seq \in 1..health'[attempt'[k].object].seq
               /\ \A f \in delivered'[attempt'[k].object] : f.seq # attempt'[k].seq
    <3>1. CASE k = h
      <4>1. s \in 1..s
        BY <2>1, <2>4
      <4>2. \A f \in delivered[o] : f.seq # s
        BY <2>1, <2>5 DEF SequenceInv
      <4>3. QED
        BY <2>2, <2>3, <2>4, <3>1, <4>1, <4>2
    <3>2. CASE k # h
      BY <1>0, <2>2, <2>4, <2>5, <2>6, <3>2 DEF SequenceInv
    <3>3. QED
      BY <3>1, <3>2
  <2>7. ASSUME NEW k \in Handlers, NEW j \in Handlers,
               attempt'[k].stage = "inflight", attempt'[j].stage = "inflight",
               attempt'[k].object = attempt'[j].object, k # j
        PROVE  attempt'[k].seq # attempt'[j].seq
    <3>1. ASSUME NEW m \in Handlers, m # h, attempt[m].stage = "inflight", attempt[m].object = o
          PROVE  attempt[m].seq # s
      BY <2>1, <2>5, <3>1 DEF SequenceInv
    <3>2. QED
      BY <2>2, <2>7, <3>1 DEF SequenceInv
  <2>8. ASSUME NEW p \in Objects, NEW f \in delivered'[p], NEW g \in delivered'[p]
        PROVE  f.seq \in 1..health'[p].seq /\ (f.seq = g.seq => f = g)
    BY <2>4, <2>5, <2>8 DEF SequenceInv
  <2>9. QED
    BY <2>6, <2>7, <2>8 DEF SequenceInv
<1>6. ASSUME NEW h \in Handlers, NoEvidence(h) PROVE SequenceInv'
  <2>1. /\ UNCHANGED <<health, delivered>>
        /\ attempt'[h].stage = "idle"
        /\ \A k \in Handlers : k # h => attempt'[k] = attempt[k]
    BY <1>6 DEF NoEvidence, TypeOK, Idle
  <2>2. QED
    BY <2>1 DEF SequenceInv
<1>7. ASSUME NEW h \in Handlers, ReportSuccess(h) PROVE SequenceInv'
  BY <1>7, SuccessEffect, DeliverSequence DEF ReportSuccess
<1>8. ASSUME NEW h \in Handlers, ReportFailed(h) \/ ReportLimited(h) \/ ReportDenied(h)
      PROVE  SequenceInv'
  <2>1. PICK kind \in FailureKinds, c \in Nat \ {0}, force \in BOOLEAN :
          RecordFailure(h, kind, c, force)
    BY <1>8, FailureShape
  <2>2. QED
    BY <2>1, FailureEffect, DeliverSequence DEF RecordFailure
<1>9. CASE UNCHANGED vars
  BY <1>9 DEF vars, SequenceInv
<1>10. QED
  BY <1>1, <1>2, <1>3, <1>4, <1>5, <1>6, <1>7, <1>8, <1>9 DEF Next

-----------------------------------------------------------------------------
(* Everything but a report leaves the results, the fences and the counts    *)
(* of created objects alone.                                                *)

\* The part of a breaker that the fences and the count speak of.
SameEvidence(o) ==
  /\ delivered'[o] = delivered[o]
  /\ health'[o].failures = health[o].failures
  /\ health'[o].until = health[o].until
  /\ health'[o].latestFailure = health[o].latestFailure
  /\ health'[o].latestNonFailure = health[o].latestNonFailure

\* A step that reports nothing keeps every breaker's evidence, or starts a
\* new breaker without any.
LEMMA QuietStep ==
  ASSUME TypeOK, CreatedInv,
         \/ Tick \/ Remove
         \/ \E i \in Identities : Reload(i)
         \/ \E h \in Handlers : Select(h) \/ BeginAttempt(h) \/ NoEvidence(h)
         \/ UNCHANGED vars
  PROVE  \A o \in Objects :
           \/ SameEvidence(o)
           \/ /\ delivered'[o] = {}
              /\ health'[o].failures = 0 /\ health'[o].until = 0
              /\ health'[o].latestFailure = 0 /\ health'[o].latestNonFailure = 0
<1>1. CASE Tick \/ Remove \/ UNCHANGED vars
  BY <1>1 DEF Tick, Remove, vars, SameEvidence
<1>2. ASSUME NEW i \in Identities, Reload(i), NEW o \in Objects
      PROVE  \/ SameEvidence(o)
             \/ /\ delivered'[o] = {}
                /\ health'[o].failures = 0 /\ health'[o].until = 0
                /\ health'[o].latestFailure = 0 /\ health'[o].latestNonFailure = 0
  <2>1. CASE UNCHANGED health
    BY <1>2, <2>1 DEF Reload, SameEvidence
  <2>2. CASE created' = created + 1 /\ health' = [health EXCEPT ![created'] = Fresh(i)]
    <3>1. delivered' = delivered /\ created \in Nat
      BY <1>2, HealthAssumption DEF Reload, TypeOK, Objects
    <3>2. CASE o = created'
      <4>1. delivered[o] = {}
        BY <2>2, <3>1, <3>2 DEF CreatedInv
      <4>2. health'[o] = Fresh(i)
        BY <2>2, <3>2 DEF TypeOK
      <4>3. QED
        BY <3>1, <4>1, <4>2 DEF Fresh
    <3>3. CASE o # created'
      BY <2>2, <3>1, <3>3 DEF SameEvidence, TypeOK
    <3>4. QED
      BY <3>2, <3>3
  <2>3. QED
    BY <1>2, <2>1, <2>2 DEF Reload
<1>3. ASSUME NEW h \in Handlers, Select(h) \/ NoEvidence(h), NEW o \in Objects
      PROVE  SameEvidence(o)
  BY <1>3 DEF Select, NoEvidence, SameEvidence
<1>4. ASSUME NEW h \in Handlers, BeginAttempt(h), NEW o \in Objects
      PROVE  SameEvidence(o)
  <2>1. health[o] \in Health
    BY DEF TypeOK
  <2>2. \/ health'[o] = health[o]
        \/ health'[o] = [health[o] EXCEPT !.seq = @ + 1]
    BY <1>4 DEF BeginAttempt, TypeOK
  <2>3. delivered' = delivered
    BY <1>4 DEF BeginAttempt
  <2>4. QED
    BY <2>1, <2>2, <2>3 DEF Health, SameEvidence
<1>5. QED
  BY <1>1, <1>2, <1>3, <1>4

-----------------------------------------------------------------------------
\* Unchanged evidence keeps the fences, and so does a breaker without any.
LEMMA QuietFence ==
  ASSUME TypeOK, NEW o \in Objects, Fenced(o),
         \/ SameEvidence(o)
         \/ /\ delivered'[o] = {}
            /\ health'[o].failures = 0 /\ health'[o].until = 0
            /\ health'[o].latestFailure = 0 /\ health'[o].latestNonFailure = 0
  PROVE  Fenced(o)'
<1>1. CASE SameEvidence(o)
  BY <1>1 DEF SameEvidence, Fenced, Successes, Failures
<1>2. CASE delivered'[o] = {} /\ health'[o].latestFailure = 0 /\ health'[o].latestNonFailure = 0
  BY <1>2 DEF Fenced, Successes, Failures
<1>3. QED
  BY <1>1, <1>2

\* Numbers and kinds of the results of an object, for the arithmetic below.
LEMMA EvidenceTyped ==
  ASSUME TypeOK, NEW o \in Objects
  PROVE  /\ health[o].latestFailure \in Nat /\ health[o].latestNonFailure \in Nat
         /\ health[o].until \in Nat /\ health[o].failures \in Nat
         /\ \A e \in delivered[o] : e.seq \in Nat
         /\ \A e \in delivered[o] : e.kind \in FailureKinds <=> e.kind # "success"
BY DEF TypeOK, Health, Evidence, FailureKinds

\* A success keeps the fences of its object: believed, it is newer than every
\* failure; ignored, it is older than one.
LEMMA SuccessFence ==
  ASSUME TypeOK, CreatedInv, NEW h \in Handlers, ReportSuccess(h),
         NEW o \in Objects, o = attempt[h].object, Fenced(o)
  PROVE  Fenced(o)'
<1> DEFINE s == attempt[h].seq
           e == [seq |-> s, kind |-> "success"]
           lf == health[o].latestFailure
           ln == health[o].latestNonFailure
<1>1. /\ attempt[h].stage = "inflight" /\ Deliver(h, "success")
      /\ o \in Objects /\ s \in Nat
      /\ delivered'[o] = delivered[o] \cup {e}
  BY DeliverEffect DEF ReportSuccess
<1>2. /\ Successes(o)' = Successes(o) \cup {e}
      /\ Failures(o)' = Failures(o)
  BY <1>1 DEF Successes, Failures, FailureKinds
<1>3. /\ lf \in Nat /\ ln \in Nat
      /\ \A x \in delivered[o] : x.seq \in Nat
  BY <1>1, EvidenceTyped
<1>4. /\ \A x \in Successes(o) : x.seq \in Nat
      /\ \A x \in Failures(o) : x.seq \in Nat
  BY <1>3 DEF Successes, Failures
<1>5. CASE s <= lf
  <2>1. health'[o] = health[o]
    BY <1>5, SuccessEffect
  <2>2. QED
    BY <1>1, <1>2, <1>3, <1>4, <1>5, <2>1 DEF Fenced
<1>6. CASE s > lf
  <2>1. /\ health'[o].until = 0
        /\ health'[o].latestFailure = lf
        /\ health'[o].latestNonFailure = MaxOf(ln, s)
    BY <1>6, SuccessEffect
  <2>2. \/ ln >= s /\ MaxOf(ln, s) = ln
        \/ ln < s /\ MaxOf(ln, s) = s
    BY <1>1, <1>3 DEF MaxOf
  <2>3. \A f \in Failures(o) : ~ (f.seq > MaxOf(ln, s))
    BY <1>1, <1>3, <1>4, <1>6, <2>2 DEF Fenced
  <2>4. \A x \in Successes(o)' : x.seq > lf => x.seq <= MaxOf(ln, s)
    <3>1. ASSUME NEW x \in Successes(o), x.seq > lf PROVE x.seq <= MaxOf(ln, s)
      <4>1. x.seq <= ln /\ x.seq \in Nat
        BY <1>4, <3>1 DEF Fenced
      <4>2. QED
        BY <1>1, <1>3, <2>2, <4>1
    <3>2. e.seq <= MaxOf(ln, s)
      BY <1>1, <1>3, <2>2
    <3>3. QED
      BY <1>2, <3>1, <3>2
  <2>5. MaxOf(ln, s) = 0 \/ \E x \in Successes(o)' : x.seq = MaxOf(ln, s)
    <3>1. e \in Successes(o)' /\ e.seq = s
      BY <1>2
    <3>2. ln = 0 \/ \E x \in Successes(o)' : x.seq = ln
      BY <1>2 DEF Fenced
    <3> HIDE DEF e
    <3>3. QED
      BY <2>2, <3>1, <3>2
  <2>6. lf = 0 \/ \E f \in Failures(o)' : f.seq = lf
    BY <1>2 DEF Fenced
  <2>7. QED
    BY <1>2, <2>1, <2>3, <2>4, <2>5, <2>6 DEF Fenced
<1>7. QED
  BY <1>1, <1>3, <1>5, <1>6

\* A failure keeps the fences of its object.
LEMMA FailureFence ==
  ASSUME TypeOK, CreatedInv, NEW h \in Handlers,
         NEW kind \in FailureKinds, NEW c \in Nat \ {0}, NEW force \in BOOLEAN,
         RecordFailure(h, kind, c, force), kind = "denied" => force,
         NEW o \in Objects, o = attempt[h].object, Fenced(o)
  PROVE  Fenced(o)'
<1> DEFINE s == attempt[h].seq
           e == [seq |-> s, kind |-> kind]
           lf == health[o].latestFailure
           ln == health[o].latestNonFailure
<1>1. /\ attempt[h].stage = "inflight" /\ Deliver(h, kind)
      /\ o \in Objects /\ s \in Nat
      /\ delivered'[o] = delivered[o] \cup {e}
  BY DeliverEffect DEF RecordFailure
<1>2. /\ Successes(o)' = Successes(o)
      /\ Failures(o)' = Failures(o) \cup {e}
  BY <1>1 DEF Successes, Failures, FailureKinds
<1>3. /\ lf \in Nat /\ ln \in Nat
      /\ \A x \in delivered[o] : x.seq \in Nat
  BY <1>1, EvidenceTyped
<1>4. /\ \A x \in Successes(o) : x.seq \in Nat
      /\ \A x \in Failures(o) : x.seq \in Nat
  BY <1>3 DEF Successes, Failures
<1>5. CASE s <= ln
  <2>1. health'[o] = health[o]
    BY <1>5, FailureEffect
  <2>2. QED
    BY <1>1, <1>2, <1>3, <1>4, <1>5, <2>1 DEF Fenced
<1>6. CASE s > ln
  <2>1. /\ health[o].until > 0 \/ force => health'[o].until > 0
        /\ health'[o].latestFailure = MaxOf(lf, s)
        /\ health'[o].latestNonFailure = ln
    BY <1>6, FailureEffect
  <2>2. \/ lf >= s /\ MaxOf(lf, s) = lf
        \/ lf < s /\ MaxOf(lf, s) = s
    BY <1>1, <1>3 DEF MaxOf
  <2>3. \A f \in Failures(o)' : f.seq > ln =>
          f.seq <= MaxOf(lf, s) /\ (f.kind = "denied" => health'[o].until > 0)
    <3>1. ASSUME NEW f \in Failures(o), f.seq > ln
          PROVE  f.seq <= MaxOf(lf, s) /\ (f.kind = "denied" => health'[o].until > 0)
      <4>1. f.seq <= lf /\ f.seq \in Nat /\ (f.kind = "denied" => health[o].until > 0)
        BY <1>4, <3>1 DEF Fenced
      <4>2. QED
        BY <1>1, <1>3, <2>1, <2>2, <4>1
    <3>2. e.seq <= MaxOf(lf, s) /\ (e.kind = "denied" => health'[o].until > 0)
      BY <1>1, <1>3, <2>1, <2>2
    <3>3. QED
      BY <1>2, <3>1, <3>2
  <2>4. \A x \in Successes(o)' : x.seq > MaxOf(lf, s) => x.seq <= ln
    <3>1. ASSUME NEW x \in Successes(o), x.seq > MaxOf(lf, s) PROVE x.seq <= ln
      <4>1. x.seq \in Nat /\ x.seq > lf
        BY <1>1, <1>3, <1>4, <2>2, <3>1
      <4>2. QED
        BY <4>1 DEF Fenced
    <3>2. QED
      BY <1>2, <3>1
  <2>5. ln = 0 \/ \E x \in Successes(o)' : x.seq = ln
    BY <1>2 DEF Fenced
  <2>6. MaxOf(lf, s) = 0 \/ \E f \in Failures(o)' : f.seq = MaxOf(lf, s)
    <3>1. e \in Failures(o)' /\ e.seq = s
      BY <1>2
    <3>2. lf = 0 \/ \E f \in Failures(o)' : f.seq = lf
      BY <1>2 DEF Fenced
    <3> HIDE DEF e
    <3>3. QED
      BY <2>2, <3>1, <3>2
  <2>7. QED
    BY <1>2, <2>1, <2>3, <2>4, <2>5, <2>6 DEF Fenced
<1>7. QED
  BY <1>1, <1>3, <1>5, <1>6

-----------------------------------------------------------------------------
\* Unchanged evidence keeps the count, and a breaker without any starts it.
LEMMA QuietCount ==
  ASSUME TypeOK, NEW o \in Objects, Counted(o),
         \/ SameEvidence(o)
         \/ /\ delivered'[o] = {}
            /\ health'[o].failures = 0 /\ health'[o].until = 0
            /\ health'[o].latestFailure = 0 /\ health'[o].latestNonFailure = 0
  PROVE  Counted(o)'
<1>1. CASE SameEvidence(o)
  BY <1>1 DEF SameEvidence, Counted, Believed, Failures
<1>2. CASE delivered'[o] = {} /\ health'[o].failures = 0 /\ health'[o].until = 0
  <2>1. Believed(o)' = {}
    BY <1>2 DEF Believed, Failures
  <2>2. QED
    BY <1>2, <2>1, FS_EmptySet DEF Counted
<1>3. QED
  BY <1>1, <1>2

\* A success that is believed clears the count because no counted failure is
\* newer; one that is ignored changes nothing.
LEMMA SuccessCount ==
  ASSUME TypeOK, CreatedInv, NEW h \in Handlers, ReportSuccess(h),
         NEW o \in Objects, o = attempt[h].object, Fenced(o), Counted(o)
  PROVE  Counted(o)'
<1> DEFINE s == attempt[h].seq
           e == [seq |-> s, kind |-> "success"]
           lf == health[o].latestFailure
           ln == health[o].latestNonFailure
<1>1. s \in Nat /\ delivered'[o] = delivered[o] \cup {e}
  BY DeliverEffect DEF ReportSuccess
<1>2. IsFiniteSet(delivered'[o])
  <2>1. IsFiniteSet(delivered[o])
    BY DEF Counted
  <2> HIDE DEF e
  <2>2. IsFiniteSet(delivered[o] \cup {e})
    BY <2>1, FS_AddElement
  <2>3. QED
    BY <1>1, <2>2
<1>3. Failures(o)' = Failures(o)
  BY <1>1 DEF Failures, FailureKinds
<1>4. lf \in Nat /\ ln \in Nat /\ \A x \in Failures(o) : x.seq \in Nat
  BY EvidenceTyped DEF Failures
<1>5. CASE s <= lf
  <2>1. health'[o] = health[o]
    BY <1>5, SuccessEffect
  <2>2. Believed(o)' = Believed(o)
    BY <1>3, <2>1 DEF Believed
  <2>3. QED
    BY <1>2, <2>1, <2>2 DEF Counted
<1>6. CASE s > lf
  <2>1. /\ health'[o].failures = 0 /\ health'[o].until = 0
        /\ health'[o].latestNonFailure = MaxOf(ln, s)
    BY <1>6, SuccessEffect
  <2>2. ASSUME NEW f \in Failures(o) PROVE ~ (f.seq > MaxOf(ln, s))
    <3>1. f.seq > ln => f.seq <= lf
      BY DEF Fenced
    <3>2. QED
      BY <1>1, <1>4, <1>6, <3>1 DEF MaxOf
  <2>3. Believed(o)' = {}
    BY <1>3, <2>1, <2>2 DEF Believed
  <2>4. QED
    BY <1>2, <2>1, <2>3, FS_EmptySet DEF Counted
<1>7. QED
  BY <1>1, <1>4, <1>5, <1>6

\* A failure that is believed is counted once: its number is new.
LEMMA FailureCount ==
  ASSUME TypeOK, CreatedInv, SequenceInv, NEW h \in Handlers,
         NEW kind \in FailureKinds, NEW c \in Nat \ {0}, NEW force \in BOOLEAN,
         RecordFailure(h, kind, c, force),
         NEW o \in Objects, o = attempt[h].object, Counted(o), TypeOK'
  PROVE  Counted(o)'
<1> DEFINE s == attempt[h].seq
           e == [seq |-> s, kind |-> kind]
           ln == health[o].latestNonFailure
<1>1. /\ attempt[h].stage = "inflight"
      /\ s \in Nat /\ delivered'[o] = delivered[o] \cup {e}
  BY DeliverEffect DEF RecordFailure
<1>2. IsFiniteSet(delivered'[o])
  <2>1. IsFiniteSet(delivered[o])
    BY DEF Counted
  <2> HIDE DEF e
  <2>2. IsFiniteSet(delivered[o] \cup {e})
    BY <2>1, FS_AddElement
  <2>3. QED
    BY <1>1, <2>2
<1>3. Failures(o)' = Failures(o) \cup {e}
  BY <1>1 DEF Failures
<1>4. ln \in Nat /\ health[o].failures \in Nat
  BY EvidenceTyped
<1>5. CASE s <= ln
  <2>1. health'[o] = health[o]
    BY <1>5, FailureEffect
  <2>2. ~ (e.seq > ln)
    BY <1>1, <1>4, <1>5
  <2>3. Believed(o)' = Believed(o)
    BY <1>3, <2>1, <2>2 DEF Believed
  <2>4. QED
    BY <1>2, <2>1, <2>3 DEF Counted
<1>6. CASE s > ln
  <2>1. /\ health'[o].failures = health[o].failures + 1
        /\ health'[o].latestNonFailure = ln
    BY <1>6, FailureEffect
  <2>2. Believed(o)' = Believed(o) \cup {e}
    BY <1>3, <1>6, <2>1 DEF Believed
  <2>3. e \notin Believed(o)
    BY <1>1 DEF Believed, Failures, SequenceInv
  <2>4. IsFiniteSet(Believed(o))
    BY FS_Subset DEF Believed, Failures, Counted
  <2>5. Cardinality(Believed(o) \cup {e}) = Cardinality(Believed(o)) + 1
    BY <2>3, <2>4, FS_AddElement
  <2>6. health'[o].failures > 0
    BY <1>4, <2>1
  <2> HIDE DEF e
  <2>7. QED
    BY <1>2, <2>1, <2>2, <2>5, <2>6 DEF Counted
<1>7. QED
  BY <1>1, <1>4, <1>5, <1>6

\* Fences and counts are preserved by every step.
LEMMA EvidenceStep == IInv /\ [Next]_vars => FenceInv' /\ CountInv'
<1> SUFFICES ASSUME IInv, [Next]_vars, NEW o \in Objects PROVE Fenced(o)' /\ Counted(o)'
  BY DEF FenceInv, CountInv
<1> USE DEF IInv
<1>1. Fenced(o) /\ Counted(o)
  BY DEF FenceInv, CountInv
<1>2. CASE \/ Tick \/ Remove
           \/ \E i \in Identities : Reload(i)
           \/ \E h \in Handlers : Select(h) \/ BeginAttempt(h) \/ NoEvidence(h)
           \/ UNCHANGED vars
  <2>1. \/ SameEvidence(o)
        \/ /\ delivered'[o] = {}
           /\ health'[o].failures = 0 /\ health'[o].until = 0
           /\ health'[o].latestFailure = 0 /\ health'[o].latestNonFailure = 0
    BY <1>2, QuietStep
  <2>2. QED
    BY <1>1, <2>1, QuietFence, QuietCount
<1>3. ASSUME NEW h \in Handlers, ReportSuccess(h) PROVE Fenced(o)' /\ Counted(o)'
  <2>1. CASE o = attempt[h].object
    BY <1>1, <1>3, <2>1, SuccessFence, SuccessCount
  <2>2. CASE o # attempt[h].object
    <3>1. health'[o] = health[o]
      BY <1>3, <2>2, SuccessEffect
    <3>2. delivered'[o] = delivered[o]
      BY <1>3, <2>2, DeliverEffect DEF ReportSuccess
    <3>3. QED
      BY <1>1, <3>1, <3>2, QuietFence, QuietCount DEF SameEvidence
  <2>3. QED
    BY <2>1, <2>2
<1>4. ASSUME NEW h \in Handlers, ReportFailed(h) \/ ReportLimited(h) \/ ReportDenied(h)
      PROVE  Fenced(o)' /\ Counted(o)'
  <2>1. PICK kind \in FailureKinds, c \in Nat \ {0}, force \in BOOLEAN :
          RecordFailure(h, kind, c, force) /\ (kind = "denied" => force)
    BY <1>4, FailureShape
  <2>2. TypeOK'
    BY TypedStep
  <2>3. CASE o = attempt[h].object
    BY <1>1, <2>1, <2>2, <2>3, FailureFence, FailureCount
  <2>4. CASE o # attempt[h].object
    <3>1. health'[o] = health[o]
      BY <2>1, <2>4, FailureEffect
    <3>2. delivered'[o] = delivered[o]
      BY <2>1, <2>4, DeliverEffect DEF RecordFailure
    <3>3. QED
      BY <1>1, <3>1, <3>2, QuietFence, QuietCount DEF SameEvidence
  <2>5. QED
    BY <2>3, <2>4
<1>5. QED
  BY <1>2, <1>3, <1>4 DEF Next

-----------------------------------------------------------------------------
\* The invariant holds initially ...
LEMMA InvariantInit == Init => IInv
<1> SUFFICES ASSUME Init PROVE IInv
  OBVIOUS
<1>1. PICK i \in Identities :
        /\ published = [identity |-> i, object |-> 1]
        /\ health = [o \in Objects |-> IF o = 1 THEN Fresh(i) ELSE Fresh(None)]
  BY DEF Init
<1>2. 1 \in Objects
  BY HealthAssumption DEF Objects
<1>3. Fresh(i) \in Health /\ Fresh(None) \in Health
  BY DEF Fresh, Health
<1>4. TypeOK
  BY <1>1, <1>2, <1>3 DEF Init, TypeOK, Idle
<1>5. CreatedInv /\ HealthFollowsIdentity
  BY <1>1, <1>2 DEF Init, CreatedInv, HealthFollowsIdentity, Idle, Fresh
<1>6. SequenceInv
  BY DEF Init, SequenceInv, Idle
<1>7. ASSUME NEW o \in Objects PROVE Fenced(o) /\ Counted(o)
  <2>1. /\ health[o].failures = 0 /\ health[o].until = 0
        /\ health[o].latestFailure = 0 /\ health[o].latestNonFailure = 0
    BY <1>1 DEF Fresh
  <2>2. delivered[o] = {}
    BY DEF Init
  <2>3. Believed(o) = {} /\ Failures(o) = {} /\ Successes(o) = {}
    BY <2>2 DEF Believed, Failures, Successes
  <2>4. QED
    BY <2>1, <2>2, <2>3, FS_EmptySet DEF Fenced, Counted
<1>8. QED
  BY <1>4, <1>5, <1>6, <1>7 DEF IInv, FenceInv, CountInv

\* ... and is preserved by every step.
LEMMA InvariantStep == IInv /\ [Next]_vars => IInv'
  BY TypedStep, SequenceStep, EvidenceStep DEF IInv

\* The invariant of every reachable state.
THEOREM HealthInvariant == Spec => []IInv
  BY InvariantInit, InvariantStep, PTL DEF Spec

\* Every variable keeps its type, sequence numbers and deadlines included.
THEOREM HealthTypeOK == Spec => []TypeOK
  BY HealthInvariant, PTL DEF IInv

\* No attempt and no published account ever uses the breaker of an upstream
\* with another endpoint, credential or adapter.
THEOREM HealthIdentity == Spec => []HealthFollowsIdentity
  BY HealthInvariant, PTL DEF IInv

\* The failure count of a breaker is the number of failures newer than the last
\* success it believed, however results were reordered.
THEOREM HealthFailuresCounted == Spec => []FailuresCounted
<1>1. IInv => FailuresCounted
  BY DEF IInv, CountInv, Counted, Believed, FailuresCounted
<1>2. QED
  BY <1>1, HealthInvariant, PTL

\* runtime.go ReportFailure/ReportSuccess: the whole of what the counts promise.
THEOREM HealthCountsExact == Spec => []CountsExact
  BY HealthTypeOK, HealthFailuresCounted, PTL DEF CountsExact

\* The newest reported result decides the state of the breaker.
THEOREM HealthNewestEvidence == Spec => []NewestEvidenceRules
<1>1. IInv => NewestEvidenceRules
  <2> SUFFICES ASSUME IInv, NEW o \in Objects, NEW e \in delivered[o], Newest(o, e)
               PROVE  IF e.kind = "success"
                        THEN health[o].failures = 0 /\ health[o].until = 0
                        ELSE /\ health[o].failures > 0
                             /\ e.kind = "denied" => health[o].until > 0
    BY DEF NewestEvidenceRules
  <2> DEFINE lf == health[o].latestFailure
             ln == health[o].latestNonFailure
  <2>1. /\ Fenced(o) /\ Counted(o)
        /\ lf \in Nat /\ ln \in Nat
        /\ health[o].until \in Nat /\ health[o].failures \in Nat
        /\ \A x \in delivered[o] : x.seq \in Nat
        /\ e.kind \in FailureKinds <=> e.kind # "success"
    BY EvidenceTyped DEF IInv, FenceInv, CountInv
  <2>2. \A x \in delivered[o] : x.seq = e.seq => x = e
    BY DEF IInv, SequenceInv
  <2>3. e.seq > 0
    BY <2>1 DEF IInv, SequenceInv
  <2>4. \A x \in delivered[o] : x.seq <= e.seq
    BY DEF Newest
  <2>5. CASE e.kind = "success"
    <3>1. lf < e.seq
      <4>1. CASE lf = 0
        BY <2>1, <2>3, <4>1
      <4>2. ASSUME NEW f \in Failures(o), f.seq = lf PROVE lf < e.seq
        <5>1. f \in delivered[o] /\ f # e
          BY <2>5, <4>2 DEF Failures, FailureKinds
        <5>2. f.seq # e.seq /\ f.seq <= e.seq
          BY <2>2, <2>4, <5>1
        <5>3. QED
          BY <2>1, <4>2, <5>1, <5>2
      <4>3. QED
        BY <2>1, <4>1, <4>2 DEF Fenced
    <3>2. e.seq <= ln
      BY <2>1, <2>5, <3>1 DEF Fenced, Successes
    <3>3. Believed(o) = {}
      BY <2>1, <2>4, <3>2 DEF Believed, Failures
    <3>4. health[o].failures = 0
      BY <2>1, <3>3, FS_EmptySet DEF Counted
    <3>5. QED
      BY <2>1, <2>5, <3>4 DEF Counted
  <2>6. CASE e.kind # "success"
    <3>1. ln < e.seq
      <4>1. CASE ln = 0
        BY <2>1, <2>3, <4>1
      <4>2. ASSUME NEW f \in Successes(o), f.seq = ln PROVE ln < e.seq
        <5>1. f \in delivered[o] /\ f # e
          BY <2>6, <4>2 DEF Successes
        <5>2. f.seq # e.seq /\ f.seq <= e.seq
          BY <2>2, <2>4, <5>1
        <5>3. QED
          BY <2>1, <4>2, <5>1, <5>2
      <4>3. QED
        BY <2>1, <4>1, <4>2 DEF Fenced
    <3>2. e \in Believed(o)
      BY <2>1, <2>6, <3>1 DEF Believed, Failures
    <3>3. health[o].failures # 0
      <4>1. IsFiniteSet(Believed(o))
        BY <2>1, FS_Subset DEF Believed, Failures, Counted
      <4>2. QED
        BY <2>1, <3>2, <4>1, FS_EmptySet DEF Counted
    <3>4. e.kind = "denied" => health[o].until > 0
      BY <2>1, <3>2 DEF Fenced, Believed
    <3>5. QED
      BY <2>1, <2>6, <3>3, <3>4
  <2>7. QED
    BY <2>5, <2>6
<1>2. QED
  BY <1>1, HealthInvariant, PTL

\* A circuit is cleared only by a success newer than every reported failure.
THEOREM HealthClosedByNewerSuccess == Spec => ClosedByNewerSuccess
<1>1. IInv /\ [Next]_vars => [ClosingIsEarned]_vars
  <2> SUFFICES ASSUME IInv, [Next]_vars, NEW o \in Objects,
                      health[o].until > 0, health'[o].until = 0
               PROVE  \E e \in delivered'[o] \ delivered[o] :
                        e.kind = "success" /\ \A f \in Failures(o) : f.seq < e.seq
    BY DEF ClosingIsEarned
  <2> USE DEF IInv
  <2>1. Fenced(o) /\ Counted(o)
    BY DEF FenceInv, CountInv
  <2>2. /\ health[o].failures > 0 /\ health[o].failures = Cardinality(Believed(o))
        /\ health[o].latestFailure \in Nat /\ health[o].latestNonFailure \in Nat
        /\ \A x \in delivered[o] : x.seq \in Nat
    BY <2>1, EvidenceTyped DEF Counted
  <2>3. Believed(o) # {}
    BY <2>2, FS_EmptySet
  <2>4. CASE \/ Tick \/ Remove
             \/ \E i \in Identities : Reload(i)
             \/ \E h \in Handlers : Select(h) \/ BeginAttempt(h) \/ NoEvidence(h)
             \/ UNCHANGED vars
    <3>1. CASE SameEvidence(o)
      BY <3>1 DEF SameEvidence
    <3>2. CASE delivered'[o] = {}
      <4>1. delivered[o] # {}
        BY <2>3 DEF Believed, Failures
      <4>2. delivered' = delivered
        BY <2>4 DEF Tick, Remove, Reload, Select, BeginAttempt, NoEvidence, vars
      <4>3. QED
        BY <3>2, <4>1, <4>2
    <3>3. QED
      BY <2>4, <3>1, <3>2, QuietStep
  <2>5. ASSUME NEW h \in Handlers, ReportSuccess(h)
        PROVE  \E e \in delivered'[o] \ delivered[o] :
                 e.kind = "success" /\ \A f \in Failures(o) : f.seq < e.seq
    <3> DEFINE s == attempt[h].seq
               e == [seq |-> s, kind |-> "success"]
    <3>0. o = attempt[h].object /\ s \in Nat
      <4>1. o # attempt[h].object => health'[o] = health[o]
        BY <2>5, SuccessEffect
      <4>2. s \in Nat
        BY <2>5, DeliverEffect DEF ReportSuccess
      <4>3. QED
        BY <4>1, <4>2
    <3>1. o = attempt[h].object /\ s > health[o].latestFailure
      <4>1. ~ (s <= health[o].latestFailure)
        BY <2>5, <3>0, SuccessEffect
      <4>2. QED
        BY <2>2, <3>0, <4>1
    <3>2. /\ attempt[h].stage = "inflight"
          /\ s \in Nat /\ delivered'[o] = delivered[o] \cup {e}
      BY <2>5, <3>1, DeliverEffect DEF ReportSuccess
    <3>3. e \notin delivered[o]
      BY <3>1, <3>2 DEF SequenceInv
    <3>4. health[o].latestNonFailure < s
      <4>1. PICK b \in Believed(o) : TRUE
        BY <2>3
      <4>2. b.seq \in Nat /\ b.seq > health[o].latestNonFailure /\ b.seq <= health[o].latestFailure
        BY <2>1, <2>2 DEF Believed, Failures, Fenced
      <4>3. QED
        BY <2>2, <3>1, <3>2, <4>2
    <3>5. ASSUME NEW f \in Failures(o) PROVE f.seq < s
      <4>1. f.seq \in Nat /\ (f.seq > health[o].latestNonFailure => f.seq <= health[o].latestFailure)
        BY <2>1, <2>2 DEF Failures, Fenced
      <4>2. QED
        BY <2>2, <3>1, <3>2, <3>4, <4>1
    <3>6. QED
      BY <3>2, <3>3, <3>5
  <2>6. ASSUME NEW h \in Handlers, ReportFailed(h) \/ ReportLimited(h) \/ ReportDenied(h)
        PROVE  FALSE
    <3>1. PICK kind \in FailureKinds, c \in Nat \ {0}, force \in BOOLEAN :
            RecordFailure(h, kind, c, force)
      BY <2>6, FailureShape
    <3>2. /\ attempt[h].object \in Objects /\ attempt[h].seq \in Nat
          /\ health[attempt[h].object].latestNonFailure \in Nat
      BY <3>1, DeliverEffect, EvidenceTyped DEF RecordFailure
    <3>3. CASE o # attempt[h].object \/ attempt[h].seq <= health[o].latestNonFailure
      <4>1. health'[o] = health[o]
        BY <3>1, <3>3, FailureEffect
      <4>2. QED
        BY <4>1
    <3>4. CASE o = attempt[h].object /\ attempt[h].seq > health[o].latestNonFailure
      <4>1. health'[o].until > 0
        BY <3>1, <3>4, FailureEffect
      <4>2. QED
        BY <4>1
    <3>5. QED
      BY <3>2, <3>3, <3>4
  <2>7. QED
    BY <2>4, <2>5, <2>6 DEF Next
<1>2. QED
  BY <1>1, HealthInvariant, PTL DEF Spec, ClosedByNewerSuccess
=============================================================================
