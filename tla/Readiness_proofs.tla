-------------------------- MODULE Readiness_proofs --------------------------
(***************************************************************************)
(* What holds of the evidence of routes and of the readiness probe for any *)
(* requests, routes, scopes and configurations: evidence is of the routes  *)
(* being published and the newest there is, in whatever order requests     *)
(* report, and an answer "ready" has been proven for every route.          *)
(* After them, what holds of the request log for any records, files and    *)
(* configurations: its record counts and its files agree, a crash loses at *)
(* most one backup, and a start finds the newest record.                   *)
(***************************************************************************)
EXTENDS Readiness, RequestLog, FunctionTheorems, FiniteSetTheorems, SequenceTheorems,
        WellFoundedInduction, TLAPS

\* A request under way has a record to report.
RequestInv == \A h \in Handlers : request[h].stage # "idle" => request[h].record \in Records

\* A record is kept under its scope, has been reported and is of an announced
\* route; there are never more than there is room for.
RecordsInv ==
  /\ Cardinality(Kept(latest)) <= Capacity
  /\ \A s \in Kept(latest) :
       latest[s].scope = s /\ latest[s] \in heard /\ Current(announced, latest[s])

\* What is announced is published, or is about to be.
CommitInv == announced = IF commit = None THEN published ELSE commit

\* The probe has seen records that were reported.
ProbeInv ==
  \A s \in Scopes : probe.seen[s] # None => probe.seen[s].scope = s /\ probe.seen[s] \in heard

IInv == TypeOK /\ RequestInv /\ RecordsInv /\ NewestKept /\ CommitInv /\ ProbeInv

-----------------------------------------------------------------------------
(* Keeping the newest records.                                             *)

\* The time of a record of the scope is covered: the scope keeps a record that
\* is as new, or there is only room for other scopes' that are.
Covers(records, scope, time) ==
  IF scope \in Kept(records) THEN records[scope].time >= time
  ELSE /\ Cardinality(Kept(records)) = Capacity
       /\ \A s \in Kept(records) : records[s].time >= time

\* The scopes that keep a record are finitely many.
LEMMA KeptFinite ==
  ASSUME NEW records
  PROVE  /\ Kept(records) \in SUBSET Scopes /\ IsFiniteSet(Kept(records))
         /\ Cardinality(Kept(records)) \in Nat
<1>1. Kept(records) \in SUBSET Scopes
  BY DEF Kept
<1>2. IsFiniteSet(Kept(records))
  BY <1>1, FS_Subset, ReadinessAssumption
<1>3. QED
  BY <1>1, <1>2, FS_CardinalityType

\* Records are what they are made of, and nothing is not a record.
LEMMA RecordTypes ==
  ASSUME NEW e \in Records
  PROVE  /\ e # None /\ e.scope \in Scopes /\ e.time \in Nat /\ e.time \in 0..MaxTime
         /\ e.ok \in BOOLEAN /\ RouteOf[e.scope] \in Routes
BY NoneAssumption, ReadinessAssumption DEF Records

\* Among the records kept there is an oldest one.
LEMMA OldestExists ==
  ASSUME NEW records \in [Scopes -> Records \cup {None}], Kept(records) # {}
  PROVE  \E s \in Kept(records) :
           \A o \in Kept(records) : records[s].time <= records[o].time
<1> DEFINE K == Kept(records)
           Older(s) == {o \in K : records[o].time <= records[s].time}
           T == {Older(s) : s \in K}
<1>1. \A s \in K : records[s] \in Records /\ records[s].time \in Nat
  BY RecordTypes DEF Kept
<1>2. T \subseteq SUBSET K /\ T # {}
  <2>1. PICK s \in K : TRUE
    OBVIOUS
  <2>2. Older(s) \in T
    OBVIOUS
  <2>3. \A t \in K : Older(t) \in SUBSET K
    OBVIOUS
  <2>4. QED
    BY <2>2, <2>3
<1>3. IsWellFoundedOn(StrictSubsetOrdering(K), SUBSET K)
  BY FS_StrictSubsetOrderingWellFounded, FS_FiniteSubsetsOfFinite, KeptFinite
<1>4. PICK O \in T : \A P \in T : <<P, O>> \notin StrictSubsetOrdering(K)
  <2> HIDE DEF T, K
  <2>1. QED
    BY <1>2, <1>3, WFMin
<1>5. PICK s \in K : O = Older(s)
  OBVIOUS
<1>6. ASSUME NEW o \in K, records[o].time < records[s].time PROVE FALSE
  <2>1. Older(o) \subseteq Older(s) /\ s \notin Older(o) /\ s \in Older(s)
    BY <1>1, <1>6
  <2>2. <<Older(o), Older(s)>> \in StrictSubsetOrdering(K)
    BY <2>1 DEF StrictSubsetOrdering
  <2>3. QED
    BY <1>4, <1>5, <2>2
<1>7. QED
  BY <1>1, <1>6

\* A record that may be retained is covered afterwards, and what was covered
\* before still is; every other record kept was kept before.
LEMMA RetainCovers ==
  ASSUME NEW records \in [Scopes -> Records \cup {None}], NEW e \in Records,
         Cardinality(Kept(records)) <= Capacity,
         records[e.scope] = None \/ records[e.scope].time <= e.time,
         NEW next \in Retain(records, e)
  PROVE  /\ next \in [Scopes -> Records \cup {None}]
         /\ Cardinality(Kept(next)) <= Capacity
         /\ \A s \in Kept(next) : (s = e.scope /\ next[s] = e)
                                 \/ (s \in Kept(records) /\ next[s] = records[s])
         /\ Covers(next, e.scope, e.time)
         /\ \A scope \in Scopes : \A time \in Nat :
              Covers(records, scope, time) => Covers(next, scope, time)
<1> DEFINE K == Kept(records)
<1>0. /\ e # None /\ e.scope \in Scopes /\ e.time \in Nat
      /\ \A s \in K : records[s] \in Records /\ records[s].time \in Nat
      /\ Capacity \in Nat \ {0} /\ Cardinality(K) \in Nat /\ IsFiniteSet(K)
  BY RecordTypes, KeptFinite, ReadinessAssumption DEF Kept
<1>1. CASE records[e.scope] # None \/ Cardinality(K) < Capacity
  <2>1. next = [records EXCEPT ![e.scope] = e]
    BY <1>1 DEF Retain
  <2>2. /\ next \in [Scopes -> Records \cup {None}] /\ next[e.scope] = e
        /\ \A s \in Scopes : s # e.scope => next[s] = records[s]
    BY <1>0, <2>1
  <2>3. Kept(next) = K \cup {e.scope}
    BY <1>0, <2>2 DEF Kept
  <2>4. /\ Cardinality(Kept(next)) =
             IF e.scope \in K THEN Cardinality(K) ELSE Cardinality(K) + 1
    BY <1>0, <2>3, FS_AddElement
  <2>5. Cardinality(Kept(next)) <= Capacity
    BY <1>0, <1>1, <2>4 DEF Kept
  <2>6. ASSUME NEW scope \in Scopes, NEW time \in Nat, Covers(records, scope, time)
        PROVE  Covers(next, scope, time)
    <3>1. CASE scope = e.scope /\ scope \in K
      <4>1. records[scope].time >= time /\ records[scope].time <= e.time
            /\ records[scope].time \in Nat
        BY <1>0, <2>6, <3>1 DEF Covers, Kept
      <4>2. QED
        BY <1>0, <2>2, <2>3, <3>1, <4>1 DEF Covers
    <3>2. CASE scope # e.scope /\ scope \in K
      BY <2>2, <2>3, <2>6, <3>2 DEF Covers
    <3>3. CASE scope \notin K
      <4>1. Cardinality(K) = Capacity /\ \A s \in K : records[s].time >= time
        BY <2>6, <3>3 DEF Covers
      <4>2. e.scope \in K
        BY <1>0, <1>1, <4>1 DEF Kept
      <4>3. e.time >= time
        <5>1. records[e.scope].time >= time /\ records[e.scope].time <= e.time
              /\ records[e.scope].time \in Nat
          BY <1>0, <4>1, <4>2 DEF Kept
        <5>2. QED
          BY <1>0, <5>1
      <4>4. Kept(next) = K
        BY <2>3, <4>2
      <4>5. \A s \in K : next[s].time >= time
        <5>1. K \subseteq Scopes
          BY KeptFinite
        <5>2. QED
          BY <2>2, <4>1, <4>3, <5>1
      <4>6. QED
        BY <3>3, <4>1, <4>4, <4>5 DEF Covers
    <3>4. QED
      BY <3>1, <3>2, <3>3
  <2>7. Covers(next, e.scope, e.time)
    BY <1>0, <2>2, <2>3 DEF Covers
  <2>8. \A s \in Kept(next) : (s = e.scope /\ next[s] = e)
                            \/ (s \in K /\ next[s] = records[s])
    BY <2>2, <2>3, KeptFinite
  <2>9. next \in [Scopes -> Records \cup {None}]
    BY <2>2
  <2>10. QED
    BY <2>5, <2>6, <2>7, <2>8, <2>9
<1>2. CASE records[e.scope] = None /\ ~(Cardinality(K) < Capacity) /\ Victims(records, e) = {}
  <2>1. next = records /\ Cardinality(K) = Capacity /\ e.scope \notin K
    BY <1>0, <1>2 DEF Retain, Kept
  <2>2. K # {}
    BY <1>0, <2>1, FS_EmptySet
  <2>3. PICK s \in K : \A o \in K : records[s].time <= records[o].time
    BY <2>2, OldestExists
  <2>4. ~(records[s].time < e.time)
    BY <1>2, <2>3 DEF Victims
  <2>5. \A o \in K : records[o].time >= e.time
    BY <1>0, <2>3, <2>4
  <2>6. Covers(next, e.scope, e.time)
    BY <2>1, <2>5 DEF Covers
  <2>7. QED
    BY <2>1, <2>6
<1>3. CASE records[e.scope] = None /\ ~(Cardinality(K) < Capacity) /\ Victims(records, e) # {}
  <2>1. PICK v \in Victims(records, e) : next = [records EXCEPT ![v] = None, ![e.scope] = e]
    BY <1>3 DEF Retain
  <2>2. /\ v \in K /\ v \in Scopes /\ e.scope \notin K /\ v # e.scope
        /\ records[v].time < e.time /\ \A o \in K : records[v].time <= records[o].time
    BY <1>3, <2>1 DEF Victims, Kept
  <2>3. /\ next \in [Scopes -> Records \cup {None}] /\ next[e.scope] = e /\ next[v] = None
        /\ \A s \in Scopes \ {v, e.scope} : next[s] = records[s]
    BY <1>0, <2>1, <2>2
  <2>4. Kept(next) = (K \ {v}) \cup {e.scope}
    BY <1>0, <2>2, <2>3 DEF Kept
  <2>5. Cardinality(Kept(next)) = Capacity
    <3>1. IsFiniteSet(K \ {v}) /\ Cardinality(K \ {v}) = Cardinality(K) - 1
      BY <1>0, <2>2, FS_RemoveElement
    <3>2. Cardinality(Kept(next)) = Cardinality(K \ {v}) + 1
      BY <2>2, <2>4, <3>1, FS_AddElement
    <3>3. QED
      BY <1>0, <1>3, <3>1, <3>2
  <2>6. ASSUME NEW scope \in Scopes, NEW time \in Nat, Covers(records, scope, time)
        PROVE  Covers(next, scope, time)
    <3>1. CASE scope \in K \ {v}
      BY <2>2, <2>3, <2>4, <2>6, <3>1 DEF Covers
    <3>2. CASE scope \notin K \ {v}
      <4>1. records[v].time >= time
        BY <2>2, <2>6, <3>2 DEF Covers
      <4>2. e.time >= time /\ \A s \in K : records[s].time >= time
        BY <1>0, <2>2, <4>1
      <4>3. \A s \in Kept(next) : next[s].time >= time
        BY <2>2, <2>3, <2>4, <4>2 DEF Kept
      <4>4. QED
        BY <2>5, <4>3 DEF Covers
    <3>3. QED
      BY <3>1, <3>2
  <2>7. Covers(next, e.scope, e.time)
    BY <1>0, <2>3, <2>4 DEF Covers
  <2>8. \A s \in Kept(next) : (s = e.scope /\ next[s] = e)
                            \/ (s \in K /\ next[s] = records[s])
    BY <2>2, <2>3, <2>4 DEF Kept
  <2>9. Cardinality(Kept(next)) <= Capacity
    BY <1>0, <2>5
  <2>10. QED
    BY <2>3, <2>6, <2>7, <2>8, <2>9
<1>4. QED
  BY <1>1, <1>2, <1>3

-----------------------------------------------------------------------------
(* The steps.                                                              *)

\* The newest records being covered is what the model calls NewestKept.
LEMMA NewestCovered ==
  NewestKept <=> \A e \in accepted : Covers(latest, e.scope, e.time)
BY DEF NewestKept, Covers

\* The initial states satisfy the invariant.
LEMMA InitInv == Init => IInv
<1> SUFFICES ASSUME Init PROVE IInv
  OBVIOUS
<1>1. Kept(latest) = {} /\ \A s \in Scopes : probe.seen[s] = None
  BY DEF Init, Kept, Nothing, Unasked
<1>2. TypeOK
  <2>1. 0 \in 0..MaxTime /\ Nothing \in [Scopes -> Records \cup {None}]
    BY ReadinessAssumption DEF Nothing
  <2>2. QED
    BY <2>1 DEF Init, TypeOK, Free, Unasked
<1>3. RecordsInv
  BY <1>1, FS_EmptySet, ReadinessAssumption DEF RecordsInv
<1>4. NewestKept /\ RequestInv /\ CommitInv /\ ProbeInv
  BY <1>1 DEF Init, NewestKept, RequestInv, CommitInv, ProbeInv, Free
<1>5. QED
  BY <1>2, <1>3, <1>4 DEF IInv

\* Only time passes.
LEMMA TickInv == ASSUME IInv, Tick PROVE IInv'
<1>1. now' \in 0..MaxTime
  BY ReadinessAssumption DEF IInv, TypeOK, Tick
<1>2. UNCHANGED <<published, announced, commit, commits, latest, accepted, heard, request,
                  probe, ready, status>>
  BY DEF Tick, routes, evidence, probing
<1>3. TypeOK' /\ RequestInv' /\ CommitInv' /\ NewestKept'
  BY <1>1, <1>2 DEF IInv, TypeOK, RequestInv, CommitInv, NewestKept
<1>4. RecordsInv' /\ ProbeInv'
  BY <1>2 DEF IInv, RecordsInv, ProbeInv
<1>5. QED
  BY <1>3, <1>4 DEF IInv

\* A request that begins, ends or is given up changes its own record only.
LEMMA RequestStep ==
  ASSUME IInv, NEW h \in Handlers,
         EndSilently(h) \/ End(h) \/ \E s \in Scopes : Send(h, s)
  PROVE  IInv'
<1> DEFINE Request == [stage : {"idle", "flight", "ended"}, record : Records \cup {None}]
<1>1. UNCHANGED <<now, published, announced, commit, commits, latest, accepted, heard,
                  probe, ready, status>>
  BY DEF EndSilently, End, Send, routes, evidence, probing
<1>2. request \in [Handlers -> Request] /\ now \in 0..MaxTime /\ published \in Configs
  BY DEF IInv, TypeOK
<1>3. \E r \in Request : /\ request' = [request EXCEPT ![h] = r]
                         /\ r.stage # "idle" => r.record \in Records
  <2>1. CASE EndSilently(h)
    <3>1. Free \in Request /\ Free.stage = "idle"
      BY DEF Free
    <3>2. QED
      BY <2>1, <3>1 DEF EndSilently
  <2>2. CASE End(h)
    <3>1. PICK ok \in Outcomes :
            request' = [request EXCEPT ![h].stage = "ended", ![h].record.ok = ok,
                                       ![h].record.time = now]
      BY <2>2 DEF End
    <3>2. request[h] \in Request /\ request[h].record \in Records /\ ok \in BOOLEAN
      BY <1>2, <2>2, ReadinessAssumption DEF IInv, RequestInv, End
    <3> DEFINE q == [request[h] EXCEPT !.stage = "ended", !.record.ok = ok, !.record.time = now]
    <3>3. request' = [request EXCEPT ![h] = q]
      BY <1>2, <3>1
    <3>4. q.record = [request[h].record EXCEPT !.ok = ok, !.time = now] /\ q.stage = "ended"
      BY <3>2
    <3>5. q.record \in Records
      BY <1>2, <3>2, <3>4 DEF Records
    <3>6. q \in Request
      BY <3>2, <3>4, <3>5
    <3>7. QED
      BY <3>3, <3>5, <3>6
  <2>3. CASE \E s \in Scopes : Send(h, s)
    <3>1. PICK s \in Scopes : Send(h, s)
      BY <2>3
    <3> DEFINE e == [scope |-> s, fingerprint |-> published[RouteOf[s]], ok |-> TRUE, time |-> 0]
               r == [stage |-> "flight", record |-> e]
    <3>2. published[RouteOf[s]] # None /\ request' = [request EXCEPT ![h] = r]
      BY <3>1 DEF Send
    <3>3. RouteOf[s] \in Routes
      BY ReadinessAssumption
    <3>4. published[RouteOf[s]] \in Fingerprints
      <4>1. published[RouteOf[s]] \in {published[x] : x \in Routes}
        BY <3>3
      <4>2. {published[x] : x \in Routes} \in {{c[x] : x \in Routes} : c \in Configs}
        BY <1>2
      <4>3. QED
        BY <3>2, <4>1, <4>2 DEF Fingerprints
    <3>5. 0 \in 0..MaxTime
      BY ReadinessAssumption
    <3>6. e \in Records
      BY <3>4, <3>5 DEF Records
    <3>7. r \in Request /\ r.record \in Records
      <4> HIDE DEF e
      <4>1. QED
        BY <3>6
    <3>8. QED
      BY <3>2, <3>7
  <2>4. QED
    BY <2>1, <2>2, <2>3
<1>4. request' \in [Handlers -> Request] /\ RequestInv'
  BY <1>2, <1>3 DEF IInv, RequestInv
<1>5. TypeOK' /\ CommitInv' /\ NewestKept'
  BY <1>1, <1>4 DEF IInv, TypeOK, CommitInv, NewestKept
<1>6. RecordsInv' /\ ProbeInv'
  BY <1>1 DEF IInv, RecordsInv, ProbeInv
<1>7. QED
  BY <1>4, <1>5, <1>6 DEF IInv

\* A report is refused, or accepted and covered from then on.
LEMMA ReportInv ==
  ASSUME IInv, NEW h \in Handlers, Report(h)
  PROVE  IInv'
<1>1. UNCHANGED <<now, published, announced, commit, commits, probe, ready, status>>
  BY DEF Report, routes, probing
<1>2. /\ TypeOK /\ RequestInv /\ RecordsInv /\ NewestKept /\ CommitInv /\ ProbeInv
      /\ latest \in [Scopes -> Records \cup {None}]
      /\ accepted \in SUBSET Records /\ heard \in SUBSET Records
  BY DEF IInv, TypeOK
<1>3. PICK e \in Records : e = request[h].record
  BY <1>2 DEF Report, RequestInv
<1>4. /\ e # None /\ e.scope \in Scopes /\ e.time \in Nat
      /\ heard' = heard \cup {e} /\ request' = [request EXCEPT ![h] = Free]
  BY <1>3, RecordTypes DEF Report
<1>5. /\ latest' \in [Scopes -> Records \cup {None}] /\ accepted' \in SUBSET Records
      /\ RecordsInv' /\ NewestKept'
  <2>1. CASE UNCHANGED <<latest, accepted>>
    BY <1>1, <1>2, <1>4, <2>1 DEF RecordsInv, NewestKept
  <2>2. CASE /\ announced[RouteOf[e.scope]] = e.fingerprint
             /\ accepted' = accepted \cup {e}
             /\ latest[e.scope] = None \/ latest[e.scope].time <= e.time
             /\ latest' \in Retain(latest, e)
    <3>1. PICK next \in Retain(latest, e) : next = latest'
      BY <2>2
    <3>2. /\ next \in [Scopes -> Records \cup {None}]
          /\ Cardinality(Kept(next)) <= Capacity
          /\ \A s \in Kept(next) : (s = e.scope /\ next[s] = e)
                                  \/ (s \in Kept(latest) /\ next[s] = latest[s])
          /\ Covers(next, e.scope, e.time)
          /\ \A scope \in Scopes : \A time \in Nat :
               Covers(latest, scope, time) => Covers(next, scope, time)
      BY <1>2, <2>2, RetainCovers DEF RecordsInv
    <3>3. \A s \in Kept(next) :
            next[s].scope = s /\ next[s] \in heard' /\ Current(announced, next[s])
      BY <1>2, <1>4, <2>2, <3>2 DEF RecordsInv, Current
    <3>4. \A o \in accepted' : Covers(next, o.scope, o.time)
      <4>1. ASSUME NEW o \in accepted PROVE Covers(next, o.scope, o.time)
        <5>1. o \in Records /\ Covers(latest, o.scope, o.time)
          BY <1>2, NewestCovered
        <5>2. QED
          BY <3>2, <5>1, RecordTypes
      <4>2. QED
        BY <2>2, <3>2, <4>1
    <3>5. RecordsInv'
      BY <1>1, <3>1, <3>2, <3>3 DEF RecordsInv
    <3>6. NewestKept'
      BY <3>1, <3>4 DEF NewestKept, Covers
    <3>7. QED
      BY <1>2, <2>2, <3>1, <3>2, <3>5, <3>6
  <2>3. CASE /\ announced[RouteOf[e.scope]] = e.fingerprint
             /\ accepted' = accepted \cup {e} /\ latest' = latest
             /\ latest[e.scope] # None /\ ~(latest[e.scope].time <= e.time)
    <3>1. Covers(latest, e.scope, e.time)
      <4>1. e.scope \in Kept(latest) /\ latest[e.scope] \in Records
        BY <1>2, <1>4, <2>3 DEF Kept
      <4>2. latest[e.scope].time \in Nat
        BY <4>1, RecordTypes
      <4>3. QED
        BY <1>4, <2>3, <4>1, <4>2 DEF Covers
    <3>2. \A o \in accepted' : Covers(latest, o.scope, o.time)
      BY <1>2, <2>3, <3>1, NewestCovered
    <3>3. NewestKept'
      BY <2>3, <3>2 DEF NewestKept, Covers
    <3>4. RecordsInv'
      BY <1>1, <1>2, <1>4, <2>3 DEF RecordsInv
    <3>5. QED
      BY <1>2, <2>3, <3>3, <3>4
  <2>4. QED
    BY <1>3, <2>1, <2>2, <2>3 DEF Report
<1>6. /\ request' \in [Handlers -> [stage : {"idle", "flight", "ended"},
                                    record : Records \cup {None}]]
      /\ RequestInv'
  BY <1>2, <1>4 DEF TypeOK, RequestInv, Free
<1>7. TypeOK'
  BY <1>1, <1>2, <1>4, <1>5, <1>6 DEF TypeOK
<1>8. CommitInv' /\ ProbeInv'
  BY <1>1, <1>2, <1>4 DEF CommitInv, ProbeInv
<1>9. QED
  BY <1>5, <1>6, <1>7, <1>8 DEF IInv

\* Evidence that is accepted as it is kept is the newest.
LEMMA EvidenceRestarts ==
  ASSUME NEW records \in [Scopes -> Records \cup {None}],
         \A s \in Kept(records) : records[s].scope = s,
         latest' = records, accepted' = {latest'[s] : s \in Kept(latest')}
  PROVE  NewestKept' /\ accepted' \in SUBSET Records
<1>1. \A s \in Kept(records) : records[s] \in Records /\ records[s].time \in Nat
  BY RecordTypes DEF Kept
<1>2. accepted' = {records[s] : s \in Kept(records)}
  OBVIOUS
<1>3. \A e \in accepted' : e.scope \in Kept(records) /\ records[e.scope].time >= e.time
  BY <1>1, <1>2
<1>4. QED
  BY <1>1, <1>2, <1>3 DEF NewestKept

\* An announcement drops the evidence of other routes, a publication none.
LEMMA CommitStep ==
  ASSUME IInv, Publish \/ \E c \in Configs : Announce(c)
  PROVE  IInv'
<1>1. UNCHANGED <<now, heard, request, probe, ready, status>>
  BY DEF Publish, Announce, evidence, probing
<1>2. /\ TypeOK /\ RequestInv /\ RecordsInv /\ NewestKept /\ CommitInv /\ ProbeInv
      /\ latest \in [Scopes -> Records \cup {None}]
  BY DEF IInv, TypeOK
<1>3. RequestInv' /\ ProbeInv'
  BY <1>1, <1>2 DEF RequestInv, ProbeInv
<1>4. CASE Publish
  <2>1. UNCHANGED <<announced, commits, latest, accepted>>
        /\ published' \in Configs /\ commit' = None /\ announced' = published'
    BY <1>2, <1>4 DEF Publish, evidence, CommitInv, TypeOK
  <2>2. TypeOK'
    BY <1>1, <1>2, <2>1 DEF TypeOK
  <2>3. RecordsInv' /\ NewestKept' /\ CommitInv'
    BY <1>1, <1>2, <2>1 DEF RecordsInv, NewestKept, CommitInv
  <2>4. QED
    BY <1>3, <2>2, <2>3 DEF IInv
<1>5. ASSUME NEW c \in Configs, Announce(c) PROVE IInv'
  <2>1. /\ published' = published /\ announced' = c /\ commit' = c /\ commits' = commits + 1
        /\ accepted' = {latest'[s] : s \in Kept(latest')}
    BY <1>5 DEF Announce
  <2> DEFINE records == [s \in Scopes |->
               IF latest[s] # None /\ Current(c, latest[s]) THEN latest[s] ELSE None]
  <2>2. latest' = records
    BY <1>5 DEF Announce
  <2>3. records \in [Scopes -> Records \cup {None}]
    BY <1>2
  <2>4. \A s \in Kept(records) :
          s \in Kept(latest) /\ records[s] = latest[s] /\ Current(c, records[s])
    BY DEF Kept
  <2> HIDE DEF records
  <2>5. Cardinality(Kept(records)) <= Capacity
    <3>1. Kept(records) \in SUBSET Kept(latest) /\ IsFiniteSet(Kept(latest))
      BY <2>4, KeptFinite
    <3>2. Cardinality(Kept(records)) <= Cardinality(Kept(latest))
      BY <3>1, FS_Subset
    <3>3. Cardinality(Kept(latest)) <= Capacity /\ Capacity \in Nat
      BY <1>2, ReadinessAssumption DEF RecordsInv
    <3>4. Cardinality(Kept(records)) \in Nat /\ Cardinality(Kept(latest)) \in Nat
      BY KeptFinite
    <3>5. QED
      BY <3>2, <3>3, <3>4
  <2>6. \A s \in Kept(records) : records[s].scope = s /\ records[s] \in heard
    BY <1>2, <2>4 DEF RecordsInv
  <2>7. RecordsInv'
    BY <1>1, <2>1, <2>2, <2>4, <2>5, <2>6 DEF RecordsInv
  <2>8. NewestKept' /\ accepted' \in SUBSET Records
    BY <2>1, <2>2, <2>3, <2>6, EvidenceRestarts
  <2>9. commits' \in Nat
    BY <1>2, <2>1 DEF TypeOK
  <2>10. TypeOK'
    BY <1>1, <1>2, <2>1, <2>2, <2>3, <2>8, <2>9 DEF TypeOK
  <2>11. CommitInv'
    BY <2>1, ReadinessAssumption DEF CommitInv
  <2>12. QED
    BY <1>3, <2>7, <2>8, <2>10, <2>11 DEF IInv
<1>6. QED
  BY <1>4, <1>5

\* A restart recovers evidence of the routes it publishes.
LEMMA RestartInv ==
  ASSUME IInv, NEW c \in Configs, Restart(c)
  PROVE  IInv'
<1>1. /\ published' = c /\ announced' = c /\ commit' = None /\ commits' = commits + 1
      /\ accepted' = {latest'[s] : s \in Kept(latest')}
      /\ request' = [h \in Handlers |-> Free]
      /\ probe' = Unasked /\ ready' = FALSE /\ status' = None
      /\ now' = now /\ heard' = heard
  BY DEF Restart
<1>2. TypeOK /\ heard \in SUBSET Records
  BY DEF IInv, TypeOK
<1>3. PICK log \in SUBSET heard : \E records \in Recovered(log, c) : latest' = records
  BY DEF Restart
<1>4. PICK records \in Recovered(log, c) : latest' = records
  BY <1>3
<1>5. /\ records \in [Scopes -> log \cup {None}]
      /\ \A s \in Kept(records) : records[s] \in Newest(log, c, s)
      /\ \E found \in SUBSET Scopes :
           Cardinality(Kept(records)) =
             IF Cardinality(found) < Capacity THEN Cardinality(found) ELSE Capacity
  BY <1>4 DEF Recovered
<1>6. records \in [Scopes -> Records \cup {None}]
  BY <1>2, <1>5
<1>7. \A s \in Kept(records) :
        records[s].scope = s /\ records[s] \in heard /\ Current(c, records[s])
  BY <1>5 DEF Newest
<1>8. Cardinality(Kept(records)) <= Capacity
  <2>1. PICK found \in SUBSET Scopes :
          Cardinality(Kept(records)) =
            IF Cardinality(found) < Capacity THEN Cardinality(found) ELSE Capacity
    BY <1>5
  <2>2. Cardinality(found) \in Nat /\ Capacity \in Nat
    BY FS_Subset, FS_CardinalityType, ReadinessAssumption
  <2>3. QED
    BY <2>1, <2>2
<1>9. RecordsInv'
  BY <1>1, <1>4, <1>7, <1>8 DEF RecordsInv
<1>10. NewestKept' /\ accepted' \in SUBSET Records
  BY <1>1, <1>4, <1>6, <1>7, EvidenceRestarts
<1>11. TypeOK'
  <2>1. 0 \in 0..MaxTime /\ Nothing \in [Scopes -> Records \cup {None}] /\ commits' \in Nat
    BY <1>1, <1>2, ReadinessAssumption DEF Nothing, TypeOK
  <2>2. QED
    BY <1>1, <1>2, <1>4, <1>6, <1>10, <2>1 DEF TypeOK, Free, Unasked
<1>12. RequestInv' /\ CommitInv' /\ ProbeInv'
  BY <1>1 DEF RequestInv, CommitInv, ProbeInv, Free, Unasked, Nothing
<1>13. QED
  BY <1>9, <1>10, <1>11, <1>12 DEF IInv

\* The status is one of four.
LEMMA StatusType ==
  ASSUME NEW before, NEW after
  PROVE  Status(before, after) \in {"unavailable", "degraded", "unknown", "ready"}
<1>1. Overall(before) \in {"unavailable", "degraded", "unknown", "ready"}
  BY DEF Overall
<1>2. QED
  BY <1>1 DEF Status

\* The probe looks at evidence that was reported.
LEMMA ProbeStep ==
  ASSUME IInv, Probe
  PROVE  IInv'
<1>1. UNCHANGED <<now, published, announced, commit, commits, latest, accepted, heard, request>>
  BY DEF Probe, ProbeBegins, ProbeReadsStats, ProbeAnswers, routes, evidence
<1>2. TypeOK /\ RecordsInv /\ ProbeInv
  BY DEF IInv
<1> DEFINE P == [stage : {"idle", "stats", "judge"}, at : 0..MaxTime,
                 config : Configs \cup {None}, seen : [Scopes -> Records \cup {None}]]
<1>3. Unasked \in P /\ \A s \in Scopes : Unasked.seen[s] = None
  BY ReadinessAssumption DEF Unasked, Nothing
<1>4. /\ probe' \in P /\ ready' \in BOOLEAN /\ ProbeInv'
      /\ status' \in {None, "unavailable", "degraded", "unknown", "ready"}
  <2>1. CASE ProbeBegins
    <3>1. /\ probe' = [Unasked EXCEPT !.stage = "stats", !.at = now, !.config = published]
          /\ ready' = ready /\ status' = status
      BY <2>1 DEF ProbeBegins
    <3>2. probe' \in P
      BY <1>2, <1>3, <3>1 DEF TypeOK
    <3>3. probe'.seen = Unasked.seen
      BY <3>1 DEF Unasked
    <3>4. QED
      BY <1>2, <1>3, <3>1, <3>2, <3>3 DEF TypeOK, ProbeInv
  <2>2. CASE ProbeReadsStats
    <3>1. /\ probe' = [probe EXCEPT !.stage = "judge", !.seen = latest]
          /\ ready' = ready /\ status' = status
      BY <2>2 DEF ProbeReadsStats
    <3>2. probe' \in P /\ probe'.seen = latest
      BY <1>2, <3>1 DEF TypeOK
    <3>3. ProbeInv'
      BY <1>1, <1>2, <3>2 DEF ProbeInv, RecordsInv, Kept
    <3>4. QED
      BY <1>2, <3>1, <3>2, <3>3 DEF TypeOK
  <2>3. CASE ProbeAnswers
    <3>1. probe' = Unasked
      BY <2>3 DEF ProbeAnswers
    <3>2. PICK before, after \in Circuits :
            /\ status' = Status(before, after)
            /\ ready' = (Unavailable(after) \cup Stale \cup Failed = {})
      BY <2>3 DEF ProbeAnswers
    <3>3. ready' \in BOOLEAN /\ status' \in {"unavailable", "degraded", "unknown", "ready"}
      BY <3>2, StatusType
    <3>4. QED
      BY <1>3, <3>1, <3>3 DEF ProbeInv
  <2>4. QED
    BY <2>1, <2>2, <2>3 DEF Probe
<1>5. TypeOK'
  BY <1>1, <1>2, <1>4 DEF TypeOK
<1>6. RequestInv' /\ RecordsInv' /\ NewestKept' /\ CommitInv'
  BY <1>1 DEF IInv, RequestInv, RecordsInv, NewestKept, CommitInv
<1>7. QED
  BY <1>4, <1>5, <1>6 DEF IInv

-----------------------------------------------------------------------------
(* What holds of every behaviour.                                          *)

\* The invariant holds in every state.
THEOREM SpecInv == Spec => []IInv
<1>1. IInv /\ [Next]_vars => IInv'
  <2> SUFFICES ASSUME IInv, [Next]_vars PROVE IInv'
    OBVIOUS
  <2>1. CASE Tick
    BY <2>1, TickInv
  <2>2. CASE Publish
    BY <2>2, CommitStep
  <2>3. CASE Probe
    BY <2>3, ProbeStep
  <2>4. ASSUME NEW c \in Configs, Announce(c) PROVE IInv'
    BY <2>4, CommitStep
  <2>5. ASSUME NEW c \in Configs, Restart(c) PROVE IInv'
    BY <2>5, RestartInv
  <2>6. ASSUME NEW h \in Handlers,
               EndSilently(h) \/ End(h) \/ \E s \in Scopes : Send(h, s)
        PROVE  IInv'
    BY <2>6, RequestStep
  <2>7. ASSUME NEW h \in Handlers, Report(h) PROVE IInv'
    BY <2>7, ReportInv
  <2>8. CASE UNCHANGED vars
    <3>1. TypeOK' /\ RequestInv' /\ CommitInv' /\ NewestKept'
      BY <2>8 DEF vars, IInv, TypeOK, RequestInv, CommitInv, NewestKept
    <3>2. RecordsInv' /\ ProbeInv'
      BY <2>8 DEF vars, IInv, RecordsInv, ProbeInv
    <3>3. QED
      BY <3>1, <3>2 DEF IInv
  <2>9. QED
    BY <2>1, <2>2, <2>3, <2>4, <2>5, <2>6, <2>7, <2>8 DEF Next
<1>2. QED
  BY <1>1, InitInv, PTL DEF Spec

\* However late a request reports, what is kept is the newest evidence of the
\* routes being published, and never that of a route that was replaced.
THEOREM SpecEvidenceIsCurrent == Spec => []EvidenceIsCurrent
<1>1. IInv => EvidenceIsCurrent
  BY DEF IInv, RecordsInv, CommitInv, EvidenceIsCurrent
<1>2. QED
  BY <1>1, SpecInv, PTL

\* "ready" goes with 200, and each route of the state that the probe loaded has
\* had a fresh success, with exactly that route.
THEOREM SpecReadyIsProven == Spec => ReadyIsProven
<1> DEFINE Proven ==
      probe.stage = "judge" /\ status' = "ready" /\ probe' = Unasked =>
        /\ ready'
        /\ \A r \in Routed : \E e \in heard :
             RouteOf[e.scope] = r /\ e.fingerprint = probe.config[r] /\ e.ok /\ Fresh(e)
<1>1. IInv /\ [Next]_vars => [Proven]_vars
  <2> SUFFICES ASSUME IInv, Next, probe.stage = "judge", status' = "ready", probe' = Unasked
               PROVE  /\ ready'
                      /\ \A r \in Routed : \E e \in heard :
                           /\ RouteOf[e.scope] = r /\ e.fingerprint = probe.config[r]
                           /\ e.ok /\ Fresh(e)
    OBVIOUS
  <2>1. ProbeAnswers
    <3>1. probe' # probe
      BY DEF Unasked
    <3>2. status' # None
      BY NoneAssumption
    <3>3. QED
      BY <3>1, <3>2 DEF Next, Tick, Publish, Probe, ProbeBegins, ProbeReadsStats, Announce,
                        Restart, Send, End, EndSilently, Report, probing
  <2>2. PICK before, after \in Circuits :
          /\ status' = Status(before, after)
          /\ ready' = (Unavailable(after) \cup Stale \cup Failed = {})
    BY <2>1 DEF ProbeAnswers
  <2>3. Unavailable(after) = {} /\ Stale \cup Failed = {} /\ Unobserved = {}
    BY <2>2 DEF Status
  <2>4. ready'
    BY <2>2, <2>3
  <2>5. ASSUME NEW r \in Routed
        PROVE  \E e \in heard : /\ RouteOf[e.scope] = r /\ e.fingerprint = probe.config[r]
                                /\ e.ok /\ Fresh(e)
    <3>1. Observed(r) # {} /\ r \in Routes
      BY <2>3 DEF Unobserved, Routed
    <3>2. PICK s \in Observed(r) : Fresh(probe.seen[s])
      BY <2>3, <3>1 DEF Stale
    <3>3. probe.seen[s].ok
      BY <2>3, <3>2 DEF Failed
    <3>4. /\ s \in Scopes /\ RouteOf[s] = r /\ probe.seen[s] # None
          /\ probe.seen[s].fingerprint = probe.config[r]
      BY DEF Observed, Seen, ScopesOf
    <3>5. probe.seen[s].scope = s /\ probe.seen[s] \in heard
      BY <3>4 DEF IInv, ProbeInv
    <3>6. QED
      BY <3>2, <3>3, <3>4, <3>5
  <2>6. QED
    BY <2>4, <2>5
<1>2. QED
  BY <1>1, SpecInv, PTL DEF Spec, ReadyIsProven

-----------------------------------------------------------------------------
(* The request log.                                                        *)

LogTypeInv ==
  /\ config \in LogConfigs /\ only \in LogConfigs \cup {Absent}
  /\ queue \in Seq(Nat) /\ Len(queue) <= QueueSize
  /\ closed \in BOOLEAN /\ file \in {Absent} \cup Paths
  /\ current \in Nat
  /\ command \in LogConfigs \cup {Absent}
  /\ actor \in Actor
  /\ disk \in [Paths -> [0..Depth -> {Absent} \cup Seq(Nat)]]
  /\ recovered \in Nat \cup {Absent}
  /\ offered \in Nat /\ written \in Seq(Nat) /\ lost \in SUBSET Nat
  /\ faults \in Nat /\ restarts \in Nat

\* What the goroutine has in hand, and why it opens or rotates a file.
ActorInv ==
  /\ actor.stage \in {"idle", "done", "write"} => actor.on = "write"
  /\ actor.stage = "open" => actor.on # "write"
  /\ actor.record # Absent <=> actor.on = "write" /\ actor.stage \in {"rotate", "write"}
  /\ actor.stage = "rotate" => file = Absent /\ actor.index <= config.backups
  /\ actor.stage = "done" => queue = <<>> /\ closed

\* Records go from the queue to the file in the order of their numbers.
FlowInv ==
  /\ \A k, l \in DOMAIN queue : k < l => queue[k] < queue[l]
  /\ \A k \in DOMAIN queue : queue[k] <= offered
  /\ actor.record # Absent =>
       /\ actor.record <= offered
       /\ \A k \in DOMAIN queue : actor.record < queue[k]
  /\ \A k \in DOMAIN written :
       /\ written[k] <= offered
       /\ actor.record # Absent => written[k] < actor.record
       /\ \A l \in DOMAIN queue : written[k] < queue[l]

\* What the files hold has been written.
FilesInv ==
  \A p \in Paths : \A i \in 0..Depth : \A k \in DOMAIN RecordsIn(disk[p][i]) :
    \E l \in DOMAIN written : written[l] = RecordsIn(disk[p][i])[k]

\* The open file exists; one that a reconfiguration created and that is not
\* given up yet is empty.
OpenInv ==
  /\ file # Absent => disk[file][0] # Absent
  /\ actor.stage = "open" /\ file # Absent =>
       /\ current = 0 /\ disk[file][0] = <<>>
       /\ file # config.path => actor.on = "restore"
  /\ actor.on = "restore" => faults > 0

LogInv ==
  /\ LogTypeInv /\ ActorInv /\ FlowInv /\ FilesInv /\ RecordsInOrder /\ OpenInv
  /\ SizeKnown /\ NothingVanishes

\* Depth is the largest number of backups.
LEMMA DepthIsLargest ==
  /\ Depth \in Nat
  /\ \A c \in LogConfigs : c.backups \in 0..Depth
<1> DEFINE S == {c.backups : c \in LogConfigs}
<1>1. S \subseteq Nat
  BY LogAssumption
<1>2. PICK m \in S : \A n \in S : m >= n
  BY LogAssumption, <1>1
<1>3. Depth \in S /\ \A n \in S : Depth >= n
  BY <1>2 DEF Depth, Max
<1> QED
  BY <1>1, <1>3, LogAssumption

\* Paths and sizes of configurations.
LEMMA ConfigTypes ==
  \A c \in LogConfigs : c.path \in Paths /\ c.size \in Nat /\ c.size > 0
  BY LogAssumption DEF Paths

\* The log is in order before the gateway opens its file.
LEMMA LogInitInv == LogInit => LogInv
<1> SUFFICES ASSUME LogInit PROVE LogInv
  OBVIOUS
<1> USE LogAssumption, DepthIsLargest, ConfigTypes
<1>1. actor = [stage |-> "open", on |-> "start", index |-> 0, record |-> Absent,
               previous |-> config]
  BY DEF LogInit, Rest
<1>2. actor \in Actor
  BY <1>1 DEF LogInit, Actor
<1>3. /\ config \in LogConfigs /\ only \in LogConfigs \cup {Absent}
      /\ queue = <<>> /\ closed = FALSE /\ file = Absent /\ current = 0
      /\ command = Absent /\ recovered = Absent /\ offered = 0 /\ written = <<>>
      /\ lost = {} /\ faults = 0 /\ restarts = 0
      /\ disk = [p \in Paths |-> [i \in 0..Depth |-> Absent]]
  BY DEF LogInit
<1>4. disk \in [Paths -> [0..Depth -> {Absent} \cup Seq(Nat)]]
  BY <1>3
<1>5a. queue \in Seq(Nat) /\ Len(queue) <= QueueSize /\ written \in Seq(Nat)
  BY <1>3
<1>5. LogTypeInv
  BY <1>2, <1>3, <1>4, <1>5a DEF LogTypeInv
<1>6. \A p \in Paths : \A i \in 0..Depth : RecordsIn(disk[p][i]) = <<>>
  BY <1>3 DEF RecordsIn
<1>7. ActorInv
  BY <1>1, <1>3 DEF ActorInv
<1>8. OpenInv /\ SizeKnown
  BY <1>1, <1>3 DEF OpenInv, SizeKnown
<1>9a. DOMAIN queue = {} /\ DOMAIN written = {} /\ DOMAIN <<>> = {}
  BY <1>3
<1>9b. \A p \in Paths : \A i \in 0..Depth : DOMAIN RecordsIn(disk[p][i]) = {}
  BY <1>6, <1>9a
<1>9c. actor.record = Absent
  BY <1>1
<1>9. FlowInv
  BY <1>9a, <1>9b, <1>9c, Zenon DEF FlowInv
<1>10. FilesInv /\ RecordsInOrder
  BY <1>9a, <1>9b, Zenon DEF FilesInv, RecordsInOrder
<1>11. NothingVanishes
  BY <1>3 DEF NothingVanishes
<1> QED
  BY <1>5, <1>7, <1>8, <1>9, <1>10, <1>11 DEF LogInv

-----------------------------------------------------------------------------
(* Each step of the log.                                                   *)

\* Taking the first record of a sequence, and adding one to its end.
LEMMA HeadOfRecords ==
  ASSUME NEW q \in Seq(Nat), q # <<>>
  PROVE  /\ Head(q) = q[1] /\ Len(q) > 0 /\ Head(q) \in Nat /\ Tail(q) \in Seq(Nat)
         /\ Len(Tail(q)) = Len(q) - 1
         /\ \A k \in DOMAIN Tail(q) : k + 1 \in DOMAIN q /\ Tail(q)[k] = q[k + 1]
         /\ \A r \in ToSet(q) : r = Head(q) \/ r \in ToSet(Tail(q))
<1>1. /\ Head(q) = q[1] /\ Len(q) > 0 /\ Head(q) \in Nat /\ Tail(q) \in Seq(Nat)
      /\ Len(Tail(q)) = Len(q) - 1
  OBVIOUS
<1>2. \A k \in DOMAIN Tail(q) : k + 1 \in DOMAIN q /\ Tail(q)[k] = q[k + 1]
  BY <1>1
<1>3. ASSUME NEW r \in ToSet(q), r # Head(q) PROVE r \in ToSet(Tail(q))
  <2>1. PICK k \in 1..Len(q) : q[k] = r
    BY <1>3 DEF ToSet
  <2>2. /\ k - 1 \in 1..Len(Tail(q)) /\ DOMAIN Tail(q) = 1..Len(Tail(q))
        /\ Tail(q)[k - 1] = q[k]
    BY <1>1, <1>3, <2>1
  <2> QED
    BY <1>1, <2>1, <2>2 DEF ToSet
<1> QED
  BY <1>1, <1>2, <1>3

\* A record accepted after those the channel holds keeps the channel in order.
LEMMA AppendedRecord ==
  ASSUME NEW q \in Seq(Nat), NEW r \in Nat
  PROVE  /\ Append(q, r) \in Seq(Nat) /\ Len(Append(q, r)) = Len(q) + 1
         /\ Append(q, r)[Len(q) + 1] = r
         /\ \A k \in DOMAIN q : k \in DOMAIN Append(q, r) /\ Append(q, r)[k] = q[k]
         /\ \A k \in DOMAIN Append(q, r) : k \in DOMAIN q \/ k = Len(q) + 1
         /\ ToSet(Append(q, r)) = ToSet(q) \cup {r}
<1>1. /\ Append(q, r) \in Seq(Nat) /\ Len(Append(q, r)) = Len(q) + 1
      /\ Append(q, r)[Len(q) + 1] = r
      /\ \A k \in DOMAIN q : k \in DOMAIN Append(q, r) /\ Append(q, r)[k] = q[k]
      /\ \A k \in DOMAIN Append(q, r) : k \in DOMAIN q \/ k = Len(q) + 1
      /\ Len(q) + 1 \in DOMAIN Append(q, r)
  OBVIOUS
<1>2. ToSet(Append(q, r)) \subseteq ToSet(q) \cup {r}
  BY <1>1, Zenon DEF ToSet
<1>3. ToSet(q) \cup {r} \subseteq ToSet(Append(q, r))
  BY <1>1, Zenon DEF ToSet
<1> QED
  BY <1>1, <1>2, <1>3

\* The files stay as they are, or some of them are emptied.
LEMMA FilesKept ==
  ASSUME FilesInv, RecordsInOrder, written' = written,
         \A p \in Paths : \A i \in 0..Depth :
           \/ RecordsIn(disk[p][i])' = RecordsIn(disk[p][i])
           \/ RecordsIn(disk[p][i])' = <<>>
  PROVE  FilesInv' /\ RecordsInOrder'
<1>1. DOMAIN <<>> = {}
  OBVIOUS
<1>2. \A p \in Paths : \A i \in 0..Depth : \A k \in DOMAIN RecordsIn(disk[p][i])' :
        /\ k \in DOMAIN RecordsIn(disk[p][i])
        /\ RecordsIn(disk[p][i])'[k] = RecordsIn(disk[p][i])[k]
  BY <1>1, Zenon
<1>3. FilesInv'
  BY <1>2, ZenonT(40) DEF FilesInv
<1>4. ASSUME NEW p \in Paths, NEW i \in 0..Depth, NEW j \in 0..Depth,
             NEW k \in DOMAIN RecordsIn(disk[p][i])', NEW l \in DOMAIN RecordsIn(disk[p][j])',
             i > j \/ (i = j /\ k < l)
      PROVE  RecordsIn(disk[p][i])'[k] < RecordsIn(disk[p][j])'[l]
  <2>1. /\ k \in DOMAIN RecordsIn(disk[p][i]) /\ l \in DOMAIN RecordsIn(disk[p][j])
        /\ RecordsIn(disk[p][i])'[k] = RecordsIn(disk[p][i])[k]
        /\ RecordsIn(disk[p][j])'[l] = RecordsIn(disk[p][j])[l]
    BY <1>2, Zenon
  <2>2. RecordsIn(disk[p][i])[k] < RecordsIn(disk[p][j])[l]
    BY <1>4, <2>1, Zenon DEF RecordsInOrder
  <2> QED
    BY <2>1, <2>2, Zenon
<1>5. RecordsInOrder'
  <2>1. \A k, l \in DOMAIN written' : k < l => written'[k] < written'[l]
    BY Zenon DEF RecordsInOrder
  <2> QED
    BY <1>4, <2>1, Zenon DEF RecordsInOrder
<1> QED
  BY <1>3, <1>5

\* Files are moved about.
LEMMA FilesMoved ==
  ASSUME FilesInv, written' = written,
         \A p \in Paths : \A i \in 0..Depth :
           \/ RecordsIn(disk[p][i])' = <<>>
           \/ \E a \in 0..Depth : RecordsIn(disk[p][i])' = RecordsIn(disk[p][a])
  PROVE  FilesInv'
<1>1. DOMAIN <<>> = {}
  OBVIOUS
<1>2. ASSUME NEW p \in Paths, NEW i \in 0..Depth, NEW k \in DOMAIN RecordsIn(disk[p][i])'
      PROVE  \E l \in DOMAIN written' : written'[l] = RecordsIn(disk[p][i])'[k]
  <2>1. PICK a \in 0..Depth : RecordsIn(disk[p][i])' = RecordsIn(disk[p][a])
    BY <1>1, <1>2, Zenon
  <2>2. k \in DOMAIN RecordsIn(disk[p][a])
    BY <1>2, <2>1, Zenon
  <2>3. \E l \in DOMAIN written : written[l] = RecordsIn(disk[p][a])[k]
    BY <2>2, Zenon DEF FilesInv
  <2> QED
    BY <2>1, <2>3, Zenon
<1> QED
  BY <1>2, Zenon DEF FilesInv

\* Steps that leave the files alone.
LEMMA FilesUnchanged ==
  ASSUME FilesInv, RecordsInOrder, UNCHANGED <<disk, written>>
  PROVE  FilesInv' /\ RecordsInOrder'
BY Zenon, FilesKept DEF RecordsIn

\* What the actor does leaves it an actor.
LEMMA RestIsActor ==
  ASSUME config' \in LogConfigs
  PROVE  /\ Rest' \in Actor
         /\ Rest'.stage = "idle" /\ Rest'.on = "write" /\ Rest'.record = Absent
         /\ Rest'.index = 0 /\ Rest'.previous = config'
BY DepthIsLargest DEF Rest, Actor

\* Accepting or dropping a record keeps the log in order.
LEMMA EnqueueInv == LogInv /\ Enqueue => LogInv'
<1> SUFFICES ASSUME LogInv, Enqueue PROVE LogInv'
  OBVIOUS
<1> USE LogAssumption
<1>0. /\ offered \in Nat /\ offered' \in Nat /\ offered' = offered + 1
      /\ ~closed /\ queue \in Seq(Nat)
      /\ UNCHANGED <<config, closed, file, current, command, actor, disk, recovered, written,
                     only, faults, restarts, reloads>>
  BY DEF LogInv, LogTypeInv, Enqueue, bounds
<1>1. CASE Len(queue) < QueueSize /\ queue' = Append(queue, offered') /\ lost' = lost
  <2>1. LogTypeInv'
    BY <1>0, <1>1, AppendedRecord DEF LogInv, LogTypeInv
  <2>2. ActorInv'
    BY <1>0 DEF LogInv, ActorInv
  <2>3. FlowInv'
    <3>0. /\ \A k \in DOMAIN queue' : k \in DOMAIN queue \/ k = Len(queue) + 1
          /\ \A k \in DOMAIN queue : queue'[k] = queue[k]
          /\ queue'[Len(queue) + 1] = offered'
      BY <1>0, <1>1, AppendedRecord, Zenon
    <3>1. \A k \in DOMAIN queue' :
            \/ k \in DOMAIN queue /\ queue'[k] = queue[k]
            \/ k = Len(queue) + 1 /\ queue'[k] = offered'
      BY <3>0
    <3>2. \A k \in DOMAIN queue : k \in Nat /\ k < Len(queue) + 1 /\ queue[k] \in Nat
      BY <1>0
    <3>3. /\ \A k \in DOMAIN queue : queue[k] < offered'
          /\ actor.record # Absent => actor.record \in Nat /\ actor.record < offered'
          /\ \A k \in DOMAIN written : written[k] \in Nat /\ written[k] < offered'
      BY <1>0, <3>2 DEF LogInv, FlowInv, LogTypeInv, Actor
    <3>4. \A k, l \in DOMAIN queue' : k < l => queue'[k] < queue'[l]
      BY <1>0, <3>1, <3>2, <3>3 DEF LogInv, FlowInv
    <3>5. \A k \in DOMAIN queue' : queue'[k] <= offered'
      BY <1>0, <3>1, <3>2, <3>3
    <3>6. actor.record # Absent =>
            actor.record <= offered' /\ \A k \in DOMAIN queue' : actor.record < queue'[k]
      BY <1>0, <3>1, <3>3 DEF LogInv, FlowInv
    <3>7. \A k \in DOMAIN written :
            /\ written[k] <= offered'
            /\ actor.record # Absent => written[k] < actor.record
            /\ \A l \in DOMAIN queue' : written[k] < queue'[l]
      BY <1>0, <3>1, <3>3 DEF LogInv, FlowInv
    <3> QED
      BY <1>0, <3>4, <3>5, <3>6, <3>7, Zenon DEF FlowInv
  <2>4. FilesInv' /\ RecordsInOrder'
    BY <1>0, FilesUnchanged DEF LogInv
  <2>5. OpenInv' /\ SizeKnown'
    BY <1>0 DEF LogInv, OpenInv, SizeKnown, Size, RecordsIn
  <2>6. NothingVanishes'
    BY <1>0, <1>1, AppendedRecord DEF LogInv, NothingVanishes, ActorInv
  <2> QED
    BY <2>1, <2>2, <2>3, <2>4, <2>5, <2>6 DEF LogInv
<1>2. CASE lost' = lost \cup {offered'} /\ queue' = queue
  <2>1. LogTypeInv'
    BY <1>0, <1>2 DEF LogInv, LogTypeInv
  <2>2. ActorInv'
    BY <1>0, <1>2 DEF LogInv, ActorInv
  <2>3. FlowInv'
    <3>1. /\ \A k \in DOMAIN queue : queue[k] <= offered'
          /\ \A k \in DOMAIN written : written[k] <= offered'
          /\ actor.record # Absent => actor.record <= offered'
      BY <1>0 DEF LogInv, FlowInv, LogTypeInv, Actor
    <3> QED
      BY <1>0, <1>2, <3>1, Zenon DEF LogInv, FlowInv
  <2>4. FilesInv' /\ RecordsInOrder'
    BY <1>0, FilesUnchanged DEF LogInv
  <2>5. OpenInv' /\ SizeKnown'
    BY <1>0 DEF LogInv, OpenInv, SizeKnown, Size, RecordsIn
  <2>6. NothingVanishes'
    BY <1>0, <1>2 DEF LogInv, NothingVanishes
  <2> QED
    BY <2>1, <2>2, <2>3, <2>4, <2>5, <2>6 DEF LogInv
<1> QED
  BY <1>1, <1>2 DEF Enqueue

\* Asking for another configuration keeps the log in order.
LEMMA ReconfigureInv == \A c \in LogConfigs : LogInv /\ Reconfigure(c) => LogInv'
<1> SUFFICES ASSUME NEW c \in LogConfigs, LogInv, Reconfigure(c) PROVE LogInv'
  OBVIOUS
<1>0. /\ command' = c /\ only' = Absent
      /\ UNCHANGED <<config, queue, closed, file, current, actor, disk, recovered, offered,
                     written, lost, faults, restarts>>
  BY DEF Reconfigure
<1>1. LogTypeInv'
  BY <1>0 DEF LogInv, LogTypeInv
<1>2. ActorInv' /\ FlowInv'
  BY <1>0 DEF LogInv, ActorInv, FlowInv
<1>3. FilesInv' /\ RecordsInOrder'
  BY <1>0, FilesUnchanged DEF LogInv
<1>4. OpenInv' /\ SizeKnown' /\ NothingVanishes'
  BY <1>0 DEF LogInv, OpenInv, SizeKnown, NothingVanishes, Size, RecordsIn
<1> QED
  BY <1>1, <1>2, <1>3, <1>4 DEF LogInv

\* Asking the log to close keeps it in order.
LEMMA CloseInv == LogInv /\ Close => LogInv'
<1> SUFFICES ASSUME LogInv, Close PROVE LogInv'
  OBVIOUS
<1>0. /\ closed' = TRUE
      /\ UNCHANGED <<config, queue, file, current, command, actor, disk, recovered, offered,
                     written, only, lost, faults, restarts>>
  BY DEF Close, bounds
<1>1. LogTypeInv'
  BY <1>0 DEF LogInv, LogTypeInv
<1>2. ActorInv' /\ FlowInv'
  BY <1>0 DEF LogInv, ActorInv, FlowInv
<1>3. FilesInv' /\ RecordsInOrder'
  BY <1>0, FilesUnchanged DEF LogInv
<1>4. OpenInv' /\ SizeKnown' /\ NothingVanishes'
  BY <1>0 DEF LogInv, OpenInv, SizeKnown, NothingVanishes, Size, RecordsIn
<1> QED
  BY <1>1, <1>2, <1>3, <1>4 DEF LogInv

\* The newest of some records is one of them.
LEMMA NewestType ==
  ASSUME NEW n \in Nat, NEW S \in SUBSET (0..n)
  PROVE  /\ NewestRecord(S) \in Nat \cup {Absent}
         /\ S # {} => NewestRecord(S) \in S /\ \A r \in S : r <= NewestRecord(S)
<1>1. CASE S = {}
  BY <1>1 DEF NewestRecord
<1>2. CASE S # {}
  <2> DEFINE T == {U \in SUBSET (0..n) : S \subseteq U /\ \E k \in 0..n : U = 0..k}
  <2>1. IsWellFoundedOn(StrictSubsetOrdering(0..n), SUBSET (0..n))
    <3>1. IsFiniteSet(0..n)
      BY FS_Interval
    <3> QED
      BY <3>1, FS_StrictSubsetOrderingWellFounded, FS_FiniteSubsetsOfFinite
  <2>2. T \subseteq SUBSET (0..n) /\ 0..n \in T
    OBVIOUS
  <2>3. PICK U \in T : \A V \in T : <<V, U>> \notin StrictSubsetOrdering(0..n)
    <3> HIDE DEF T
    <3> QED
      BY <2>1, <2>2, WFMin
  <2>4. \A V \in T : V \subseteq U => V = U
    BY <2>3 DEF StrictSubsetOrdering
  <2>5. PICK k \in 0..n : U = 0..k
    OBVIOUS
  <2>6. S \subseteq 0..k
    BY <2>5
  <2>7. k \in S
    <3> SUFFICES ASSUME k \notin S PROVE FALSE
      OBVIOUS
    <3>1. PICK r \in S : r # k /\ r \in 0..k
      BY <1>2, <2>6
    <3>2. k - 1 \in 0..n /\ S \subseteq 0..(k - 1) /\ 0..(k - 1) \subseteq 0..n
      BY <2>6, <3>1
    <3>3. 0..(k - 1) \in T
      BY <3>2
    <3>4. 0..(k - 1) \subseteq U /\ k \in U /\ k \notin 0..(k - 1)
      BY <2>5
    <3> QED
      BY <2>4, <3>3, <3>4
  <2>8. \A r \in S : k >= r
    BY <2>6
  <2>9. Max(S) \in S /\ \A r \in S : Max(S) >= r
    BY <2>7, <2>8 DEF Max
  <2>10. NewestRecord(S) = Max(S)
    BY <1>2, Zenon DEF NewestRecord
  <2>11. NewestRecord(S) \in S /\ \A r \in S : NewestRecord(S) >= r
    BY <2>9, <2>10, Zenon
  <2>0. S \subseteq Nat
    OBVIOUS
  <2>12. \A r \in S : NewestRecord(S) \in Nat /\ r \in Nat
    BY <2>0, <2>11, Zenon
  <2> HIDE DEF T
  <2> QED
    BY <2>11, <2>12
<1> QED
  BY <1>1, <1>2

\* The actor taking a message keeps the log in order.
LEMMA TakeInv == LogInv /\ Take => LogInv'
<1> SUFFICES ASSUME LogInv, Take PROVE LogInv'
  OBVIOUS
<1> USE LogAssumption
<1>0. /\ actor.stage = "idle" /\ queue # <<>> /\ queue' = Tail(queue)
      /\ UNCHANGED <<config, closed, current, command, disk, recovered, offered, written, only,
                     lost, faults, restarts>>
      /\ actor \in Actor /\ queue \in Seq(Nat) /\ config \in LogConfigs /\ current \in Nat
      /\ config.backups \in 0..Depth /\ config.size \in Nat /\ config.size > 0
  BY DepthIsLargest, ConfigTypes DEF LogInv, LogTypeInv, Take, bounds
<1>1. /\ \/ actor'.stage = "rotate" /\ actor'.index = config.backups /\ file' = Absent
         \/ /\ actor'.stage = "write" /\ file' = file /\ ~(current > 0 /\ current + 1 > config.size)
      /\ actor' \in Actor /\ actor'.on = "write" /\ actor'.record = Head(queue)
  <2> DEFINE A == [actor EXCEPT !.stage = "write", !.on = "write", !.record = Head(queue)]
  <2>1. /\ A \in Actor /\ A.stage = "write" /\ A.on = "write" /\ A.record = Head(queue)
    BY <1>0, HeadOfRecords DEF Actor
  <2>2. RotateIf(current > 0 /\ current + 1 > config.size, A)
    BY DEF Take
  <2> HIDE DEF A
  <2>3. CASE current > 0 /\ current + 1 > config.size
    <3>1. actor' = [A EXCEPT !.stage = "rotate", !.index = config.backups] /\ file' = Absent
      BY <2>2, <2>3 DEF RotateIf
    <3> QED
      BY <1>0, <2>1, <3>1 DEF Actor
  <2>4. CASE ~(current > 0 /\ current + 1 > config.size)
    BY <2>1, <2>2, <2>4 DEF RotateIf
  <2> QED
    BY <2>3, <2>4
<1>2. /\ Head(queue) \in Nat /\ queue' \in Seq(Nat) /\ Len(queue') = Len(queue) - 1
      /\ Head(queue) = queue[1] /\ 1 \in DOMAIN queue
      /\ \A k \in DOMAIN queue' : k + 1 \in DOMAIN queue /\ queue'[k] = queue[k + 1]
      /\ \A k \in DOMAIN queue' : k \in Nat /\ k > 0
      /\ \A r \in ToSet(queue) : r = Head(queue) \/ r \in ToSet(queue')
  BY <1>0, HeadOfRecords
<1>3. LogTypeInv'
  BY <1>0, <1>1, <1>2 DEF LogInv, LogTypeInv
<1>4. ActorInv'
  BY <1>0, <1>1, <1>2 DEF LogInv, ActorInv
<1>5. FlowInv'
  <2>1. \A k, l \in DOMAIN queue' : k < l => queue'[k] < queue'[l]
    BY <1>2 DEF LogInv, FlowInv
  <2>2. \A k \in DOMAIN queue' : queue'[k] <= offered /\ Head(queue) < queue'[k]
    BY <1>2, SMTT(30) DEF LogInv, FlowInv
  <2>3. Head(queue) <= offered
    BY <1>2 DEF LogInv, FlowInv
  <2>4. \A k \in DOMAIN written :
          /\ written[k] <= offered /\ written[k] < Head(queue)
          /\ \A l \in DOMAIN queue' : written[k] < queue'[l]
    BY <1>2 DEF LogInv, FlowInv
  <2> QED
    BY <1>0, <1>1, <2>1, <2>2, <2>3, <2>4, Zenon DEF FlowInv
<1>6. FilesInv' /\ RecordsInOrder'
  BY <1>0, FilesUnchanged DEF LogInv
<1>7. OpenInv' /\ SizeKnown'
  BY <1>0, <1>1 DEF LogInv, OpenInv, SizeKnown, Size, RecordsIn
<1>8. NothingVanishes'
  BY <1>0, <1>1, <1>2 DEF LogInv, NothingVanishes, ActorInv
<1> QED
  BY <1>3, <1>4, <1>5, <1>6, <1>7, <1>8 DEF LogInv

\* Following a configuration keeps the log in order.
LEMMA ApplyInv == LogInv /\ Apply => LogInv'
<1> SUFFICES ASSUME LogInv, Apply PROVE LogInv'
  OBVIOUS
<1> USE LogAssumption
<1>0. /\ actor.stage = "idle" /\ command # Absent /\ config' = command /\ file' = Absent
      /\ actor \in Actor /\ config \in LogConfigs
      /\ actor' = [actor EXCEPT !.stage = "open", !.on = "apply", !.previous = config]
      /\ UNCHANGED <<queue, closed, current, command, disk, recovered, offered, written, only,
                     lost, faults, restarts>>
  BY DEF LogInv, LogTypeInv, Apply, bounds
<1>1. /\ actor' \in Actor /\ actor'.stage = "open" /\ actor'.on = "apply"
      /\ actor'.record = actor.record /\ actor.record = Absent
  BY <1>0 DEF Actor, LogInv, ActorInv
<1>2. LogTypeInv'
  BY <1>0, <1>1 DEF LogInv, LogTypeInv
<1>3. ActorInv'
  BY <1>0, <1>1 DEF LogInv, ActorInv
<1>4. FlowInv'
  BY <1>0, <1>1, Zenon DEF LogInv, FlowInv
<1>5. FilesInv' /\ RecordsInOrder'
  BY <1>0, FilesUnchanged DEF LogInv
<1>6. OpenInv' /\ SizeKnown'
  BY <1>0, <1>1 DEF OpenInv, SizeKnown
<1>7. NothingVanishes'
  BY <1>0, <1>1, Zenon DEF LogInv, NothingVanishes
<1> QED
  BY <1>2, <1>3, <1>4, <1>5, <1>6, <1>7 DEF LogInv

\* Opening a file that has to be rotated first keeps the log in order.
LEMMA OpenFullInv == LogInv /\ OpenFull => LogInv'
<1> SUFFICES ASSUME LogInv, OpenFull PROVE LogInv'
  OBVIOUS
<1> USE LogAssumption
<1>0. /\ actor.stage = "open" /\ file' = Absent
      /\ actor \in Actor /\ config \in LogConfigs /\ config.backups \in 0..Depth
      /\ actor' = [actor EXCEPT !.stage = "rotate", !.index = config.backups]
      /\ UNCHANGED <<config, queue, closed, current, command, disk, recovered, offered,
                     written, only, lost, faults, restarts>>
  BY DepthIsLargest DEF LogInv, LogTypeInv, OpenFull, RotateIf, bounds
<1>1. /\ actor' \in Actor /\ actor'.stage = "rotate" /\ actor'.on = actor.on
      /\ actor'.index = config.backups /\ actor'.record = actor.record
      /\ actor.record = Absent
  BY <1>0 DEF Actor, LogInv, ActorInv
<1>2. LogTypeInv'
  BY <1>0, <1>1 DEF LogInv, LogTypeInv
<1>3. ActorInv'
  BY <1>0, <1>1 DEF LogInv, ActorInv
<1>4. FlowInv'
  BY <1>0, <1>1, Zenon DEF LogInv, FlowInv
<1>5. FilesInv' /\ RecordsInOrder'
  BY <1>0, FilesUnchanged DEF LogInv
<1>6. OpenInv' /\ SizeKnown'
  BY <1>0, <1>1 DEF LogInv, OpenInv, SizeKnown
<1>7. NothingVanishes'
  BY <1>0, <1>1, Zenon DEF LogInv, NothingVanishes
<1> QED
  BY <1>2, <1>3, <1>4, <1>5, <1>6, <1>7 DEF LogInv

\* A file that fails to open keeps the log in order.
LEMMA FailInv == LogInv /\ Fail => LogInv'
<1> SUFFICES ASSUME LogInv, Fail PROVE LogInv'
  OBVIOUS
<1> USE LogAssumption
<1>0. /\ actor.stage \in {"rotate", "open", "write"} /\ actor.on # "start"
      /\ faults' = faults + 1 /\ faults \in Nat
      /\ actor \in Actor /\ config \in LogConfigs
      /\ lost' = lost \cup ({actor.record} \ {Absent})
      /\ UNCHANGED <<queue, closed, file, current, disk, recovered, offered, written, only,
                     restarts>>
  BY DEF LogInv, LogTypeInv, Fail
<1>1. CASE actor.on = "apply"
  <2>1. /\ config' = actor.previous /\ UNCHANGED command
        /\ actor' = [actor EXCEPT !.stage = "open", !.on = "restore"]
    BY <1>1 DEF Fail
  <2>2. /\ actor' \in Actor /\ actor'.stage = "open" /\ actor'.on = "restore"
        /\ actor'.record = Absent /\ config' \in LogConfigs
        /\ actor.record = Absent /\ actor.stage \in {"rotate", "open"}
    BY <1>0, <1>1, <2>1 DEF Actor, LogInv, ActorInv
  <2>3. LogTypeInv'
    BY <1>0, <2>1, <2>2 DEF LogInv, LogTypeInv
  <2>4. ActorInv'
    BY <1>0, <2>2 DEF LogInv, ActorInv
  <2>5. FlowInv'
    BY <1>0, <2>2, Zenon DEF LogInv, FlowInv
  <2>6. FilesInv' /\ RecordsInOrder'
    BY <1>0, FilesUnchanged DEF LogInv
  <2>7. OpenInv' /\ SizeKnown'
    BY <1>0, <2>2 DEF LogInv, OpenInv, SizeKnown, ActorInv
  <2>8. NothingVanishes'
    BY <1>0, <2>2, Zenon DEF LogInv, NothingVanishes
  <2> QED
    BY <2>3, <2>4, <2>5, <2>6, <2>7, <2>8 DEF LogInv
<1>2. CASE actor.on # "apply"
  <2>1. /\ command' = IF actor.on = "write" THEN command ELSE Absent
        /\ actor' = Rest /\ UNCHANGED config
    BY <1>2 DEF Fail
  <2>2. /\ actor' \in Actor /\ actor'.stage = "idle" /\ actor'.on = "write"
        /\ actor'.record = Absent
    BY <1>0, <2>1, RestIsActor DEF Rest
  <2>3. LogTypeInv'
    <3>1. actor.record \in Nat \cup {Absent}
      BY <1>0 DEF Actor
    <3>2. lost' \in SUBSET Nat
      BY <1>0, <3>1 DEF LogInv, LogTypeInv
    <3>3. command' \in LogConfigs \cup {Absent}
      BY <2>1 DEF LogInv, LogTypeInv
    <3> QED
      BY <1>0, <2>1, <2>2, <3>2, <3>3 DEF LogInv, LogTypeInv
  <2>4. ActorInv'
    BY <1>0, <2>2 DEF LogInv, ActorInv
  <2>5. FlowInv'
    BY <1>0, <2>2, Zenon DEF LogInv, FlowInv
  <2>6. FilesInv' /\ RecordsInOrder'
    BY <1>0, FilesUnchanged DEF LogInv
  <2>7. OpenInv'
    BY <1>0, <2>1, <2>2 DEF LogInv, OpenInv
  <2>8. SizeKnown'
    <3>1. CASE actor.stage = "rotate"
      BY <1>0, <2>2, <3>1 DEF LogInv, ActorInv, SizeKnown
    <3>2. CASE actor.stage = "write"
      <4>1. config.size \in Nat /\ current \in Nat
        BY <1>0, ConfigTypes DEF LogInv, LogTypeInv
      <4> QED
        BY <1>0, <2>1, <2>2, <3>2, <4>1 DEF LogInv, SizeKnown, Size, RecordsIn
    <3>3. CASE actor.stage = "open"
      <4>1. config.size \in Nat /\ Len(<<>>) = 0
        BY <1>0, ConfigTypes
      <4>2. actor.on = "restore"
        BY <1>0, <1>2, <3>3 DEF LogInv, ActorInv, Actor
      <4> QED
        BY <1>0, <2>1, <2>2, <3>3, <4>1, <4>2 DEF LogInv, OpenInv, SizeKnown, Size, RecordsIn
    <3> QED
      BY <1>0, <3>1, <3>2, <3>3
  <2>9. NothingVanishes'
    BY <1>0, <2>2, Zenon DEF LogInv, NothingVanishes
  <2> QED
    BY <2>3, <2>4, <2>5, <2>6, <2>7, <2>8, <2>9 DEF LogInv
<1> QED
  BY <1>1, <1>2

\* Losing a record for want of a file keeps the log in order.
LEMMA WriteNowhereInv == LogInv /\ WriteNowhere => LogInv'
<1> SUFFICES ASSUME LogInv, WriteNowhere PROVE LogInv'
  OBVIOUS
<1> USE LogAssumption
<1>0. /\ actor.stage = "write" /\ file = Absent
      /\ actor' = Rest /\ actor \in Actor /\ config \in LogConfigs
      /\ lost' = lost \cup {actor.record}
      /\ UNCHANGED <<config, queue, closed, file, current, command, disk, recovered, offered,
                     written, only, faults, restarts>>
  BY DEF LogInv, LogTypeInv, WriteNowhere, bounds
<1>1. /\ actor' \in Actor /\ actor'.stage = "idle" /\ actor'.on = "write"
      /\ actor'.record = Absent /\ actor.record \in Nat
  BY <1>0, RestIsActor DEF Rest, LogInv, ActorInv, Actor
<1>2. LogTypeInv'
  BY <1>0, <1>1 DEF LogInv, LogTypeInv
<1>3. ActorInv'
  BY <1>0, <1>1 DEF LogInv, ActorInv
<1>4. FlowInv'
  BY <1>0, <1>1, Zenon DEF LogInv, FlowInv
<1>5. FilesInv' /\ RecordsInOrder'
  BY <1>0, FilesUnchanged DEF LogInv
<1>6. OpenInv' /\ SizeKnown'
  BY <1>0, <1>1 DEF OpenInv, SizeKnown
<1>7. NothingVanishes'
  BY <1>0, <1>1, Zenon DEF LogInv, NothingVanishes
<1> QED
  BY <1>2, <1>3, <1>4, <1>5, <1>6, <1>7 DEF LogInv

\* Answering a command keeps the log in order.
LEMMA FinishInv == LogInv /\ Finish => LogInv'
<1> SUFFICES ASSUME LogInv, Finish PROVE LogInv'
  OBVIOUS
<1> USE LogAssumption
<1>0. /\ actor.stage = "idle" /\ closed /\ queue = <<>> /\ file' = Absent
      /\ actor' = [actor EXCEPT !.stage = "done"] /\ actor \in Actor
      /\ UNCHANGED <<config, queue, closed, current, command, disk, recovered, offered,
                     written, only, lost, faults, restarts>>
  BY DEF LogInv, LogTypeInv, Finish, bounds
<1>1. /\ actor' \in Actor /\ actor'.stage = "done" /\ actor'.on = "write"
      /\ actor'.record = actor.record /\ actor.record = Absent
  BY <1>0 DEF LogInv, ActorInv, Actor
<1>2. LogTypeInv'
  BY <1>0, <1>1 DEF LogInv, LogTypeInv
<1>3. ActorInv'
  BY <1>0, <1>1 DEF LogInv, ActorInv
<1>4. FlowInv'
  BY <1>0, <1>1, Zenon DEF LogInv, FlowInv
<1>5. FilesInv' /\ RecordsInOrder'
  BY <1>0, FilesUnchanged DEF LogInv
<1>6. OpenInv' /\ SizeKnown'
  BY <1>0, <1>1 DEF OpenInv, SizeKnown
<1>7. NothingVanishes'
  <2>1. ToSet(queue) = {}
    BY <1>0 DEF ToSet
  <2> QED
    BY <1>0, <1>1, <2>1 DEF LogInv, NothingVanishes, LogTypeInv
<1> QED
  BY <1>2, <1>3, <1>4, <1>5, <1>6, <1>7 DEF LogInv

\* One file is replaced.
LEMMA FileReplaced ==
  ASSUME NEW D \in [Paths -> [0..Depth -> {Absent} \cup Seq(Nat)]], NEW p \in Paths,
         NEW i \in 0..Depth, NEW f \in {Absent} \cup Seq(Nat)
  PROVE  /\ [D EXCEPT ![p][i] = f] \in [Paths -> [0..Depth -> {Absent} \cup Seq(Nat)]]
         /\ [D EXCEPT ![p][i] = f][p][i] = f
         /\ \A q \in Paths : \A j \in 0..Depth :
              (q = p /\ j = i) \/ [D EXCEPT ![p][i] = f][q][j] = D[q][j]
<1> DEFINE E == [D EXCEPT ![p][i] = f]
<1>1. E = [D EXCEPT ![p] = [D[p] EXCEPT ![i] = f]]
  OBVIOUS
<1>2. D[p] \in [0..Depth -> {Absent} \cup Seq(Nat)]
  OBVIOUS
<1>3. /\ E[p] = [D[p] EXCEPT ![i] = f]
      /\ \A q \in Paths : q # p => E[q] = D[q]
  BY <1>1
<1>4. [D[p] EXCEPT ![i] = f] \in [0..Depth -> {Absent} \cup Seq(Nat)]
  BY <1>2
<1>5. E \in [Paths -> [0..Depth -> {Absent} \cup Seq(Nat)]]
  BY <1>1, <1>4
<1>6. E[p][i] = f /\ \A j \in 0..Depth : j = i \/ E[p][j] = D[p][j]
  BY <1>2, <1>3
<1> QED
  BY <1>3, <1>5, <1>6, Zenon

\* What is retained has been written, and so is among the records offered.
LEMMA RetainedIsWritten ==
  ASSUME LogInv, NEW p \in Paths, NEW depth \in 0..Depth
  PROVE  /\ Retained(p, depth) \subseteq ToSet(written)
         /\ ToSet(written) \subseteq 0..offered
<1>1. ASSUME NEW i \in 0..depth, NEW r \in ToSet(RecordsIn(disk[p][i]))
      PROVE  r \in ToSet(written)
  <2>1. i \in 0..Depth
    BY DepthIsLargest
  <2>2. PICK k \in DOMAIN RecordsIn(disk[p][i]) : RecordsIn(disk[p][i])[k] = r
    BY Zenon DEF ToSet
  <2>3. PICK l \in DOMAIN written : written[l] = RecordsIn(disk[p][i])[k]
    BY <2>1, Zenon DEF LogInv, FilesInv
  <2> QED
    BY <2>2, <2>3, Zenon DEF ToSet
<1>2. Retained(p, depth) \subseteq ToSet(written)
  BY <1>1, Zenon DEF Retained
<1>3. \A k \in DOMAIN written : written[k] \in 0..offered
  BY DEF LogInv, LogTypeInv, FlowInv
<1>4. ToSet(written) \subseteq 0..offered
  BY <1>3, Zenon DEF ToSet
<1> QED
  BY <1>2, <1>4

\* A crash and the start after it keep the log in order.
LEMMA LogRestartInv == \A c \in LogConfigs : LogInv /\ LogRestart(c) => LogInv'
<1> SUFFICES ASSUME NEW c \in LogConfigs, LogInv, LogRestart(c) PROVE LogInv'
  OBVIOUS
<1> USE LogAssumption
<1>0. /\ config' = c /\ queue' = <<>> /\ closed' = FALSE /\ file' = Absent /\ current' = 0
      /\ command' = Absent /\ restarts' = restarts + 1
      /\ actor' = [Rest EXCEPT !.stage = "open", !.on = "start", !.previous = c]
      /\ recovered' = NewestRecord(Retained(c.path, c.backups))
      /\ lost' = lost \cup ToSet(queue) \cup ({actor.record} \ {Absent})
      /\ only' = IF c = only THEN c ELSE Absent
      /\ UNCHANGED <<disk, offered, written, faults>>
      /\ actor.record \in Nat \cup {Absent} /\ queue \in Seq(Nat)
  BY DEF LogInv, LogTypeInv, LogRestart, Actor
<1>1. /\ actor' \in Actor /\ actor'.stage = "open" /\ actor'.on = "start"
      /\ actor'.record = Absent
  <2>1. actor' = [stage |-> "open", on |-> "start", index |-> 0, record |-> Absent,
                  previous |-> c]
    BY <1>0 DEF Rest
  <2> QED
    BY <2>1, DepthIsLargest DEF Actor
<1>2. LogTypeInv'
  <2>1. Retained(c.path, c.backups) \in SUBSET (0..offered) /\ offered \in Nat
    BY RetainedIsWritten, ConfigTypes, DepthIsLargest DEF LogInv, LogTypeInv
  <2>2. recovered' \in Nat \cup {Absent}
    BY <1>0, <2>1, NewestType
  <2>3. ToSet(queue) \subseteq Nat
    BY <1>0 DEF ToSet
  <2>4. lost' \in SUBSET Nat
    BY <1>0, <2>3 DEF LogInv, LogTypeInv
  <2>5. queue' \in Seq(Nat) /\ Len(queue') <= QueueSize
    BY <1>0
  <2>6. only' \in LogConfigs \cup {Absent}
    BY <1>0
  <2>7. /\ config' \in LogConfigs /\ closed' \in BOOLEAN /\ file' \in {Absent} \cup Paths
        /\ current' \in Nat /\ command' \in LogConfigs \cup {Absent}
    BY <1>0
  <2>8. /\ disk' \in [Paths -> [0..Depth -> {Absent} \cup Seq(Nat)]]
        /\ offered' \in Nat /\ written' \in Seq(Nat) /\ faults' \in Nat /\ restarts' \in Nat
    BY <1>0 DEF LogInv, LogTypeInv
  <2> QED
    BY <1>1, <2>2, <2>4, <2>5, <2>6, <2>7, <2>8, Zenon DEF LogTypeInv
<1>3. ActorInv'
  BY <1>1 DEF ActorInv
<1>4. FlowInv'
  <2>1. DOMAIN queue' = {}
    BY <1>0
  <2> QED
    BY <1>0, <1>1, <2>1, Zenon DEF LogInv, FlowInv
<1>5. FilesInv' /\ RecordsInOrder'
  BY <1>0, FilesUnchanged DEF LogInv
<1>6. OpenInv' /\ SizeKnown'
  BY <1>0, <1>1 DEF OpenInv, SizeKnown
<1>7. NothingVanishes'
  BY <1>0, <1>1 DEF LogInv, NothingVanishes, LogTypeInv
<1> QED
  BY <1>2, <1>3, <1>4, <1>5, <1>6, <1>7 DEF LogInv

\* Emptying the file after a rotation keeps the log in order.
LEMMA TruncateInv == LogInv /\ Truncate => LogInv'
<1> SUFFICES ASSUME LogInv, Truncate PROVE LogInv'
  OBVIOUS
<1> USE LogAssumption
<1>0. /\ actor.stage = "rotate" /\ actor.index = 0 /\ file' = config.path /\ current' = 0
      /\ disk' = [disk EXCEPT ![config.path][0] = <<>>]
      /\ actor' = [actor EXCEPT !.stage = IF actor.on = "write" THEN "write" ELSE "open"]
      /\ UNCHANGED <<config, queue, closed, command, recovered, offered, written, only,
                     lost, faults, restarts>>
      /\ actor \in Actor /\ config \in LogConfigs
      /\ disk \in [Paths -> [0..Depth -> {Absent} \cup Seq(Nat)]]
      /\ config.path \in Paths /\ 0 \in 0..Depth /\ config.size \in Nat /\ config.size > 0
  BY ConfigTypes, DepthIsLargest DEF LogInv, LogTypeInv, Truncate, bounds
<1>1. /\ actor' \in Actor /\ actor'.on = actor.on /\ actor'.record = actor.record
      /\ actor'.stage = IF actor.on = "write" THEN "write" ELSE "open"
  BY <1>0 DEF Actor
<1>2. /\ disk' \in [Paths -> [0..Depth -> {Absent} \cup Seq(Nat)]]
      /\ disk'[config.path][0] = <<>>
      /\ \A p \in Paths : \A i \in 0..Depth : disk'[p][i] = disk[p][i] \/ disk'[p][i] = <<>>
  <2>1. PICK f \in Seq(Nat) : f = <<>>
    <3>1. <<>> \in Seq(Nat)
      OBVIOUS
    <3> QED
      BY <3>1
  <2>2. f \in {Absent} \cup Seq(Nat)
    OBVIOUS
  <2>3. disk' = [disk EXCEPT ![config.path][0] = f]
    BY <1>0, <2>1
  <2>9. /\ disk \in [Paths -> [0..Depth -> {Absent} \cup Seq(Nat)]]
        /\ config.path \in Paths /\ 0 \in 0..Depth
    BY <1>0
  <2>6. /\ [disk EXCEPT ![config.path][0] = f] \in [Paths -> [0..Depth -> {Absent} \cup Seq(Nat)]]
        /\ [disk EXCEPT ![config.path][0] = f][config.path][0] = f
        /\ \A q \in Paths : \A j \in 0..Depth :
              \/ q = config.path /\ j = 0
              \/ [disk EXCEPT ![config.path][0] = f][q][j] = disk[q][j]
    BY <2>2, <2>9, FileReplaced
  <2> QED
    BY <2>1, <2>3, <2>6, Zenon
<1>3. LogTypeInv'
  BY <1>0, <1>1, <1>2 DEF LogInv, LogTypeInv
<1>4. ActorInv'
  BY <1>0, <1>1 DEF LogInv, ActorInv
<1>5. FlowInv'
  BY <1>0, <1>1, Zenon DEF LogInv, FlowInv
<1>6. FilesInv' /\ RecordsInOrder'
  <2>1. \A p \in Paths : \A i \in 0..Depth :
           \/ RecordsIn(disk[p][i])' = RecordsIn(disk[p][i])
           \/ RecordsIn(disk[p][i])' = <<>>
    BY <1>2 DEF RecordsIn
  <2> QED
    BY <1>0, <2>1, FilesKept DEF LogInv
<1>7. OpenInv'
  <2>1. <<>> # Absent
    <3>1. <<>> \in Seq(Nat)
      OBVIOUS
    <3> QED
      BY <3>1
  <2> QED
    BY <1>0, <1>1, <1>2, <2>1 DEF LogInv, OpenInv
<1>8. SizeKnown'
  <2>1. Len(<<>>) = 0 /\ RecordsIn(<<>>) = <<>>
    BY DEF RecordsIn
  <2>2. Size(disk'[config.path][0]) = 0
    BY <1>2, <2>1, Zenon DEF Size
  <2> QED
    <3>1. file' = config'.path /\ current' = 0 /\ config'.size \in Nat /\ config'.size > 0
      BY <1>0
    <3>2. current' = Size(disk'[file'][0])
      BY <1>0, <2>2, <3>1, Zenon
    <3>3. current' + (IF actor'.stage = "write" THEN 1 ELSE 0) <= config'.size
      BY <3>1
    <3> QED
      BY <3>1, <3>2, <3>3 DEF SizeKnown
<1>9. NothingVanishes'
  <2>1. actor'.stage # "done" /\ actor'.record = actor.record
    BY <1>1
  <2> QED
    BY <1>0, <2>1, Zenon DEF LogInv, NothingVanishes
<1> QED
  BY <1>3, <1>4, <1>5, <1>6, <1>7, <1>8, <1>9 DEF LogInv

\* Opening a file keeps the log in order.
LEMMA OpenFileInv == LogInv /\ Open => LogInv'
<1> SUFFICES ASSUME LogInv, Open PROVE LogInv'
  OBVIOUS
<1> USE LogAssumption
<1>0. /\ actor.stage = "open" /\ file' = config.path
      /\ Size(disk[config.path][0]) < config.size
      /\ current' = Size(disk[config.path][0])
      /\ disk' = [disk EXCEPT ![config.path][0] = IF @ = Absent THEN <<>> ELSE @]
      /\ command' = Absent /\ actor' = Rest
      /\ UNCHANGED <<config, queue, closed, recovered, offered, written, only,
                     lost, faults, restarts>>
      /\ actor \in Actor /\ config \in LogConfigs
      /\ disk \in [Paths -> [0..Depth -> {Absent} \cup Seq(Nat)]]
      /\ config.path \in Paths /\ 0 \in 0..Depth /\ config.size \in Nat
  BY ConfigTypes, DepthIsLargest DEF LogInv, LogTypeInv, Open, bounds
<1>1. /\ actor' \in Actor /\ actor'.stage = "idle" /\ actor'.on = "write"
      /\ actor'.record = Absent
  BY <1>0, RestIsActor DEF Rest
<1>2. /\ disk' \in [Paths -> [0..Depth -> {Absent} \cup Seq(Nat)]]
      /\ disk'[config.path][0] \in Seq(Nat)
      /\ \A p \in Paths : \A i \in 0..Depth :
           disk'[p][i] = disk[p][i] \/ (disk[p][i] = Absent /\ disk'[p][i] = <<>>)
  <2> DEFINE f == IF disk[config.path][0] = Absent THEN <<>> ELSE disk[config.path][0]
  <2>0. disk[config.path][0] \in {Absent} \cup Seq(Nat) /\ <<>> \in Seq(Nat)
    <3>1. <<>> \in Seq(Nat)
      OBVIOUS
    <3> QED
      BY <1>0, <3>1, Zenon
  <2>1. f \in Seq(Nat)
    BY <2>0
  <2>2. disk' = [disk EXCEPT ![config.path][0] = f]
    BY <1>0
  <2>3. disk[config.path][0] # Absent => f = disk[config.path][0]
    OBVIOUS
  <2>4. disk[config.path][0] = Absent => f = <<>>
    OBVIOUS
  <2>5. f \in {Absent} \cup Seq(Nat)
    BY <2>1, Zenon
  <2> HIDE DEF f
  <2>9. /\ disk \in [Paths -> [0..Depth -> {Absent} \cup Seq(Nat)]]
        /\ config.path \in Paths /\ 0 \in 0..Depth
    BY <1>0
  <2>6. /\ [disk EXCEPT ![config.path][0] = f] \in [Paths -> [0..Depth -> {Absent} \cup Seq(Nat)]]
        /\ [disk EXCEPT ![config.path][0] = f][config.path][0] = f
        /\ \A q \in Paths : \A j \in 0..Depth :
              \/ q = config.path /\ j = 0
              \/ [disk EXCEPT ![config.path][0] = f][q][j] = disk[q][j]
    BY <2>5, <2>9, FileReplaced
  <2> QED
    BY <2>1, <2>2, <2>3, <2>4, <2>6, Zenon
<1>3. \A p \in Paths : \A i \in 0..Depth : RecordsIn(disk[p][i])' = RecordsIn(disk[p][i])
  BY <1>2 DEF RecordsIn
<1>4. Size(disk[config.path][0]) \in Nat
  BY <1>0 DEF Size, RecordsIn
<1>5. LogTypeInv'
  BY <1>0, <1>1, <1>2, <1>4 DEF LogInv, LogTypeInv
<1>6. ActorInv'
  BY <1>0, <1>1 DEF LogInv, ActorInv
<1>7. FlowInv'
  BY <1>0, <1>1, Zenon DEF LogInv, FlowInv
<1>8. FilesInv' /\ RecordsInOrder'
  BY <1>0, <1>3, FilesKept DEF LogInv
<1>9. OpenInv'
  BY <1>0, <1>1, <1>2 DEF LogInv, OpenInv
<1>10. SizeKnown'
  BY <1>0, <1>1, <1>3, <1>4 DEF SizeKnown, Size
<1>11. NothingVanishes'
  <2>1. actor.record = Absent
    BY <1>0 DEF LogInv, ActorInv
  <2> QED
    BY <1>0, <1>1, <2>1, Zenon DEF LogInv, NothingVanishes
<1> QED
  BY <1>5, <1>6, <1>7, <1>8, <1>9, <1>10, <1>11 DEF LogInv

\* Moving a backup one place on keeps the log in order.
LEMMA ShiftInv == LogInv /\ Shift => LogInv'
<1> SUFFICES ASSUME LogInv, Shift PROVE LogInv'
  OBVIOUS
<1> USE LogAssumption
<1> DEFINE i == actor.index
           p == config.path
<1>0. /\ actor.stage = "rotate" /\ i > 0
      /\ disk' = IF disk[p][i - 1] = Absent THEN disk
                 ELSE [disk EXCEPT ![p][i] = disk[p][i - 1], ![p][i - 1] = Absent]
      /\ actor' = [actor EXCEPT !.index = @ - 1]
      /\ UNCHANGED <<config, queue, closed, file, current, command, recovered, offered, written,
                     only, lost, faults, restarts>>
      /\ actor \in Actor /\ config \in LogConfigs /\ config.backups \in Nat
      /\ disk \in [Paths -> [0..Depth -> {Absent} \cup Seq(Nat)]]
      /\ p \in Paths /\ i \in 0..Depth /\ i - 1 \in 0..Depth
  BY ConfigTypes, DepthIsLargest, SMTT(30) DEF LogInv, LogTypeInv, Shift, bounds, Actor
<1>1. /\ actor' \in Actor /\ actor'.on = actor.on /\ actor'.record = actor.record
      /\ actor'.stage = "rotate" /\ actor'.index = i - 1
  BY <1>0 DEF Actor
<1>2. disk' \in [Paths -> [0..Depth -> {Absent} \cup Seq(Nat)]]
  BY <1>0
<1>3. \A q \in Paths : \A j \in 0..Depth :
        \/ disk'[q][j] = disk[q][j] /\ (q # p \/ (j # i /\ j # i - 1) \/ disk[p][i - 1] = Absent)
        \/ q = p /\ j = i /\ disk'[q][j] = disk[p][i - 1]
        \/ q = p /\ j = i - 1 /\ disk'[q][j] = Absent
  BY <1>0
<1>4. \A q \in Paths : \A j \in 0..Depth :
        \/ RecordsIn(disk[q][j])' = <<>>
        \/ RecordsIn(disk[q][j])' = RecordsIn(disk[q][j])
             /\ (q # p \/ (j # i /\ j # i - 1) \/ disk[p][i - 1] = Absent)
        \/ q = p /\ j = i /\ RecordsIn(disk[q][j])' = RecordsIn(disk[p][i - 1])
  BY <1>3, Zenon DEF RecordsIn
<1>5. LogTypeInv'
  BY <1>0, <1>1, <1>2 DEF LogInv, LogTypeInv
<1>6. ActorInv'
  BY <1>0, <1>1 DEF LogInv, ActorInv
<1>7. FlowInv'
  BY <1>0, <1>1, Zenon DEF LogInv, FlowInv
<1>8. DOMAIN <<>> = {}
  OBVIOUS
<1>9. FilesInv'
  <2>1. \A q \in Paths : \A j \in 0..Depth :
           \/ RecordsIn(disk[q][j])' = <<>>
           \/ \E a \in 0..Depth : RecordsIn(disk[q][j])' = RecordsIn(disk[q][a])
    <3>1. i - 1 \in 0..Depth
      BY <1>0
    <3> HIDE DEF i, p
    <3> QED
      BY <3>1, <1>4, Zenon
  <2>2. FilesInv /\ written' = written
    BY <1>0 DEF LogInv
  <2> QED
    BY <2>1, <2>2, FilesMoved
<1>10. RecordsInOrder'
  <2>1. ASSUME NEW q \in Paths, NEW a \in 0..Depth, NEW b \in 0..Depth,
               NEW k \in DOMAIN RecordsIn(disk[q][a])', NEW l \in DOMAIN RecordsIn(disk[q][b])',
               a > b \/ (a = b /\ k < l)
        PROVE  RecordsIn(disk[q][a])'[k] < RecordsIn(disk[q][b])'[l]
    <3> DEFINE From(j) == IF q = p /\ j = i /\ disk[p][i - 1] # Absent THEN i - 1 ELSE j
    <3>1. \A j \in 0..Depth :
            RecordsIn(disk[q][j])' = <<>> \/ RecordsIn(disk[q][j])' = RecordsIn(disk[q][From(j)])
      <4>1. ASSUME NEW j \in 0..Depth
            PROVE  disk'[q][j] = Absent \/ disk'[q][j] = disk[q][From(j)]
        <5> HIDE DEF i, p
        <5>1. CASE disk'[q][j] = disk[q][j] /\ From(j) = j
          BY <5>1, Zenon
        <5>2. CASE q = p /\ j = i /\ disk'[q][j] = disk[p][i - 1]
          BY <5>2, Zenon
        <5>3. CASE disk'[q][j] = Absent
          BY <5>3, Zenon
        <5>4. CASE disk'[q][j] = disk[q][j] /\ disk[p][i - 1] = Absent
          BY <5>4, Zenon
        <5> QED
          BY <1>3, <5>1, <5>2, <5>3, <5>4, Zenon
      <4> QED
        BY <4>1, Zenon DEF RecordsIn
    <3>2. /\ RecordsIn(disk[q][a])' = RecordsIn(disk[q][From(a)])
          /\ RecordsIn(disk[q][b])' = RecordsIn(disk[q][From(b)])
      BY <1>8, <2>1, <3>1, Zenon
    <3>3. From(a) \in 0..Depth /\ From(b) \in 0..Depth
      BY <1>0
    <3>4. ~(q = p /\ b = i - 1 /\ disk[p][i - 1] # Absent)
      <4> SUFFICES ASSUME q = p, b = i - 1, disk[p][i - 1] # Absent PROVE FALSE
        OBVIOUS
      <4>0. i - 1 # i
        BY <1>0
      <4>1. disk'[q][b] = Absent
        BY <1>0, <1>3, <4>0, Zenon
      <4> QED
        BY <1>8, <2>1, <4>1, Zenon DEF RecordsIn
    <3>5. From(a) > From(b) \/ (From(a) = From(b) /\ k < l)
      BY <1>0, <2>1, <3>4
    <3> HIDE DEF From, i, p
    <3>6. /\ k \in DOMAIN RecordsIn(disk[q][From(a)]) /\ l \in DOMAIN RecordsIn(disk[q][From(b)])
      BY <3>2, Zenon
    <3>7. RecordsIn(disk[q][From(a)])[k] < RecordsIn(disk[q][From(b)])[l]
      BY <3>3, <3>5, <3>6, Zenon DEF LogInv, RecordsInOrder
    <3> QED
      BY <3>2, <3>7, Zenon
  <2>2. \A k, l \in DOMAIN written' : k < l => written'[k] < written'[l]
    BY <1>0, Zenon DEF LogInv, RecordsInOrder
  <2> QED
    BY <2>1, <2>2, Zenon DEF RecordsInOrder
<1>11. OpenInv' /\ SizeKnown'
  BY <1>0, <1>1 DEF LogInv, OpenInv, SizeKnown, ActorInv
<1>12. NothingVanishes'
  BY <1>0, <1>1, Zenon DEF LogInv, NothingVanishes
<1> QED
  BY <1>5, <1>6, <1>7, <1>9, <1>10, <1>11, <1>12 DEF LogInv

\* Writing a record keeps the log in order.
LEMMA WriteInv == LogInv /\ Write => LogInv'
<1> SUFFICES ASSUME LogInv, Write PROVE LogInv'
  OBVIOUS
<1> USE LogAssumption
<1> DEFINE r == actor.record
<1>0. /\ actor.stage = "write" /\ file # Absent
      /\ disk' = [disk EXCEPT ![file][0] = Append(@, actor.record)]
      /\ current' = current + 1 /\ written' = Append(written, actor.record)
      /\ actor' = Rest /\ actor \in Actor /\ config \in LogConfigs
      /\ UNCHANGED <<config, queue, closed, file, command, recovered, offered, only, lost,
                     faults, restarts>>
  BY DEF LogInv, LogTypeInv, Write, bounds
<1>1. /\ actor' \in Actor /\ actor'.stage = "idle" /\ actor'.on = "write"
      /\ actor'.record = Absent /\ r \in Nat
  BY <1>0, RestIsActor DEF Rest, LogInv, ActorInv, Actor
<1>2. /\ disk \in [Paths -> [0..Depth -> {Absent} \cup Seq(Nat)]]
      /\ file \in Paths /\ 0 \in 0..Depth
  BY <1>0, DepthIsLargest DEF LogInv, LogTypeInv
<1>3. disk[file][0] \in Seq(Nat)
  BY <1>0, <1>2 DEF LogInv, OpenInv
<1>4. PICK f \in Seq(Nat) : f = Append(disk[file][0], r)
  BY <1>1, <1>3, AppendedRecord
<1>5. /\ disk' \in [Paths -> [0..Depth -> {Absent} \cup Seq(Nat)]]
      /\ disk'[file][0] = f
      /\ \A q \in Paths : \A j \in 0..Depth :
           (q = file /\ j = 0) \/ disk'[q][j] = disk[q][j]
  <2>1. f \in {Absent} \cup Seq(Nat)
    OBVIOUS
  <2>2. disk' = [disk EXCEPT ![file][0] = f]
    BY <1>0, <1>4
  <2>3. /\ [disk EXCEPT ![file][0] = f] \in [Paths -> [0..Depth -> {Absent} \cup Seq(Nat)]]
        /\ [disk EXCEPT ![file][0] = f][file][0] = f
        /\ \A q \in Paths : \A j \in 0..Depth :
             (q = file /\ j = 0) \/ [disk EXCEPT ![file][0] = f][q][j] = disk[q][j]
    BY <1>2, <2>1, FileReplaced
  <2> QED
    BY <2>2, <2>3, Zenon
<1>6. /\ RecordsIn(disk[file][0]) = disk[file][0]
      /\ RecordsIn(disk[file][0])' = f /\ RecordsIn(disk'[file][0]) = f /\ f # Absent
  BY <1>0, <1>3, <1>5 DEF RecordsIn
<1>7. \A q \in Paths : \A j \in 0..Depth :
        (q = file /\ j = 0) \/ RecordsIn(disk[q][j])' = RecordsIn(disk[q][j])
  BY <1>5, Zenon DEF RecordsIn
<1>8. /\ written' \in Seq(Nat) /\ Len(written') = Len(written) + 1
      /\ written'[Len(written) + 1] = r /\ Len(written) + 1 \in DOMAIN written'
      /\ \A k \in DOMAIN written : k \in DOMAIN written' /\ written'[k] = written[k]
      /\ \A k \in DOMAIN written' : k \in DOMAIN written \/ k = Len(written) + 1
      /\ ToSet(written') = ToSet(written) \cup {r}
      /\ \A k \in DOMAIN written : k \in Nat /\ k <= Len(written) /\ written[k] \in Nat
  <2>1. written \in Seq(Nat)
    BY DEF LogInv, LogTypeInv
  <2> QED
    BY <1>0, <1>1, <2>1, AppendedRecord
<1>9. /\ Len(f) = Len(disk[file][0]) + 1 /\ f[Len(disk[file][0]) + 1] = r
      /\ \A k \in DOMAIN disk[file][0] : f[k] = disk[file][0][k]
      /\ \A k \in DOMAIN f : k \in DOMAIN disk[file][0] \/ k = Len(disk[file][0]) + 1
      /\ \A k \in DOMAIN disk[file][0] : k \in Nat /\ k <= Len(disk[file][0])
      /\ Len(disk[file][0]) \in Nat
  BY <1>1, <1>3, <1>4, AppendedRecord
<1>19. ASSUME NEW q \in Paths, NEW j \in 0..Depth, NEW k \in DOMAIN RecordsIn(disk[q][j])'
       PROVE  \/ /\ k \in DOMAIN RecordsIn(disk[q][j])
                 /\ RecordsIn(disk[q][j])'[k] = RecordsIn(disk[q][j])[k]
              \/ /\ q = file /\ j = 0 /\ k = Len(disk[file][0]) + 1
                 /\ RecordsIn(disk[q][j])'[k] = r
  <2>1. CASE q = file /\ j = 0
    <3>1. k \in DOMAIN f
      BY <1>6, <1>19, <2>1, Zenon
    <3>2. CASE k \in DOMAIN disk[file][0]
      BY <1>6, <1>9, <2>1, <3>2, Zenon
    <3>3. CASE k = Len(disk[file][0]) + 1
      BY <1>6, <1>9, <2>1, <3>3, Zenon
    <3> QED
      BY <1>9, <3>1, <3>2, <3>3, Zenon
  <2>2. CASE ~(q = file /\ j = 0)
    BY <1>7, <1>19, <2>2, Zenon
  <2> QED
    BY <2>1, <2>2
<1>10. \A k \in DOMAIN written : written[k] < r
  BY <1>1 DEF LogInv, FlowInv
<1>11. LogTypeInv'
  <2>1. current' \in Nat
    BY <1>0 DEF LogInv, LogTypeInv
  <2> QED
    BY <1>0, <1>1, <1>5, <1>8, <2>1 DEF LogInv, LogTypeInv
<1>12. ActorInv'
  BY <1>0, <1>1 DEF LogInv, ActorInv
<1>13. FlowInv'
  <2>1. \A k \in DOMAIN written' :
          written'[k] <= offered /\ \A l \in DOMAIN queue : written'[k] < queue[l]
    BY <1>1, <1>8 DEF LogInv, FlowInv
  <2> QED
    BY <1>0, <1>1, <2>1, Zenon DEF LogInv, FlowInv
<1>14. FilesInv'
  <2>1. ASSUME NEW p \in Paths, NEW i \in 0..Depth, NEW k \in DOMAIN RecordsIn(disk[p][i])'
        PROVE  \E l \in DOMAIN written' : written'[l] = RecordsIn(disk[p][i])'[k]
    <3>1. CASE /\ k \in DOMAIN RecordsIn(disk[p][i])
               /\ RecordsIn(disk[p][i])'[k] = RecordsIn(disk[p][i])[k]
      <4>1. \E l \in DOMAIN written : written[l] = RecordsIn(disk[p][i])[k]
        BY <3>1, Zenon DEF LogInv, FilesInv
      <4> QED
        BY <1>8, <3>1, <4>1, Zenon
    <3>2. CASE RecordsIn(disk[p][i])'[k] = r
      BY <1>8, <3>2, Zenon
    <3> QED
      BY <1>19, <2>1, <3>1, <3>2, Zenon
  <2> QED
    BY <2>1, Zenon DEF FilesInv
<1>15. RecordsInOrder'
  <2>1. \A k, l \in DOMAIN written' : k < l => written'[k] < written'[l]
    BY <1>8, <1>10 DEF LogInv, RecordsInOrder
  <2>2. ASSUME NEW p \in Paths, NEW a \in 0..Depth, NEW b \in 0..Depth,
               NEW k \in DOMAIN RecordsIn(disk[p][a])', NEW l \in DOMAIN RecordsIn(disk[p][b])',
               a > b \/ (a = b /\ k < l)
        PROVE  RecordsIn(disk[p][a])'[k] < RecordsIn(disk[p][b])'[l]
    <3>0. l \in DOMAIN RecordsIn(disk[p][b]) \/ l = Len(disk[file][0]) + 1
      BY <1>19, <2>2, Zenon
    <3>1. k \in DOMAIN RecordsIn(disk[p][a]) /\ RecordsIn(disk[p][a])'[k] = RecordsIn(disk[p][a])[k]
      <4> SUFFICES ASSUME p = file, a = 0, k = Len(disk[file][0]) + 1 PROVE FALSE
        BY <1>19, <2>2, Zenon
      <4>1. b = 0 /\ k < l
        BY <2>2, DepthIsLargest
      <4>2. l \in DOMAIN disk[file][0] \/ l = Len(disk[file][0]) + 1
        <5>2. RecordsIn(disk[p][b]) = disk[file][0]
          BY <1>6, <4>1, Zenon
        <5> QED
          BY <3>0, <5>2, Zenon
      <4> QED
        BY <1>9, <4>1, <4>2
    <3>2. CASE /\ l \in DOMAIN RecordsIn(disk[p][b])
               /\ RecordsIn(disk[p][b])'[l] = RecordsIn(disk[p][b])[l]
      <4>1. RecordsIn(disk[p][a])[k] < RecordsIn(disk[p][b])[l]
        BY <2>2, <3>1, <3>2, Zenon DEF LogInv, RecordsInOrder
      <4> QED
        BY <3>1, <3>2, <4>1, Zenon
    <3>3. CASE RecordsIn(disk[p][b])'[l] = r
      <4>1. PICK m \in DOMAIN written : written[m] = RecordsIn(disk[p][a])[k]
        BY <3>1, Zenon DEF LogInv, FilesInv
      <4> QED
        BY <1>10, <3>1, <3>3, <4>1, Zenon
    <3> QED
      BY <1>19, <2>2, <3>2, <3>3, Zenon
  <2> QED
    BY <2>1, <2>2, Zenon DEF RecordsInOrder
<1>16. OpenInv'
  BY <1>0, <1>1, <1>5, <1>6 DEF LogInv, OpenInv
<1>17. SizeKnown'
  <2>1. current \in Nat /\ config.size \in Nat
    BY <1>0, ConfigTypes DEF LogInv, LogTypeInv
  <2>2. /\ current = Size(disk[file][0]) /\ current + 1 <= config.size
        /\ file # config.path => faults > 1
    BY <1>0 DEF LogInv, SizeKnown
  <2>3. Size(disk[file][0])' = Size(disk[file][0]) + 1
    BY <1>0, <1>6, <1>9 DEF Size
  <2> QED
    BY <1>0, <1>1, <2>1, <2>2, <2>3 DEF SizeKnown
<1>18. NothingVanishes'
  BY <1>0, <1>1, <1>8, Zenon DEF LogInv, NothingVanishes
<1> QED
  BY <1>11, <1>12, <1>13, <1>14, <1>15, <1>16, <1>17, <1>18 DEF LogInv

\* Every step keeps the log in order.
LEMMA LogNextInv == LogInv /\ [LogNext]_logVars => LogInv'
<1> SUFFICES ASSUME LogInv, [LogNext]_logVars PROVE LogInv'
  OBVIOUS
<1>1. CASE Run
  BY <1>1, TakeInv, ApplyInv, ShiftInv, TruncateInv, WriteInv, OpenFullInv, OpenFileInv,
     WriteNowhereInv, FinishInv DEF Run
<1>2. CASE Enqueue \/ Close \/ Fail
  BY <1>2, EnqueueInv, CloseInv, FailInv
<1>3. CASE \E c \in LogConfigs : Reconfigure(c) \/ LogRestart(c)
  BY <1>3, ReconfigureInv, LogRestartInv
<1>4. CASE UNCHANGED logVars
  <2>1. /\ UNCHANGED <<config, queue, closed, file, current, command, actor, disk, recovered>>
        /\ UNCHANGED <<offered, written, only, lost, faults, restarts, reloads>>
    BY <1>4 DEF logVars
  <2>2. LogTypeInv'
    BY <2>1, Zenon DEF LogInv, LogTypeInv
  <2>3. ActorInv' /\ FlowInv'
    BY <2>1, Zenon DEF LogInv, ActorInv, FlowInv
  <2>4. FilesInv' /\ RecordsInOrder'
    BY <2>1, FilesUnchanged DEF LogInv
  <2>5. OpenInv' /\ SizeKnown' /\ NothingVanishes'
    BY <2>1, Zenon DEF LogInv, OpenInv, SizeKnown, NothingVanishes, RecordsIn, Size
  <2> QED
    BY <2>2, <2>3, <2>4, <2>5 DEF LogInv
<1> QED
  BY <1>1, <1>2, <1>3, <1>4 DEF LogNext

\* The log's invariant holds.
THEOREM SpecLogInv == LogSpec => []LogInv
<1> QED
  BY LogInitInv, LogNextInv, PTL DEF LogSpec

\* Whatever is reconfigured, fails or crashes, records are written and retained
\* in the order they were accepted in, the writer knows the size of its file
\* and no accepted record is unaccounted for.
THEOREM SpecLogConsistent == LogSpec => []LogConsistent
<1>1. LogInv => LogConsistent
  BY DEF LogInv, LogConsistent, LogTypeInv, LogTypeOK
<1> QED
  BY <1>1, SpecLogInv, PTL

-----------------------------------------------------------------------------
(* What is retained while the configuration stays the same.                *)

\* Only the start and full files open or rotate it then; a file being rotated
\* is not empty, and nor is a backup.
OnlyInv ==
  only # Absent =>
    LET files == disk[only.path] IN
    /\ config = only /\ command = Absent
    /\ actor.on \in {"start", "write"} /\ file \in {Absent, only.path}
    /\ Size(files[0]) <= only.size
    /\ \A i \in 1..only.backups : files[i] # <<>>
    /\ actor.stage = "rotate" => files[0] # <<>>
    /\ actor.stage = "rotate" /\ actor.index < only.backups => files[actor.index] = Absent
    /\ actor.stage = "idle" /\ file = Absent => faults > 0 /\ files[0] # <<>>
    /\ \/ actor.stage = "idle" /\ file = Absent
       \/ actor.stage = "rotate" /\ actor.on = "write"
       => current > 0 /\ current + 1 > only.size
    /\ actor.stage = "write" => file # Absent
    /\ faults = 0 /\ actor.stage = "rotate" /\ actor.index = only.backups =>
         Size(files[0]) = only.size

\* The newest record is retained, but for a file just emptied with no backup.
NewestInv ==
  only # Absent /\ written # <<>> /\ (only.backups > 0 \/ disk[only.path][0] # <<>>) =>
    written[Len(written)] \in Retained(only.path, only.backups)

\* The records of the backups, up to one.
Backups(p, depth) == UNION {ToSet(RecordsIn(disk[p][i])) : i \in 1..depth}

\* What is retained is the end of what was written, and what is missing has
\* left the last backup.
EndInv ==
  only # Absent /\ faults = 0 =>
    LET kept == Retained(only.path, only.backups) IN
    /\ \A r \in kept, s \in ToSet(written) : s > r => s \in kept
    /\ \/ kept = ToSet(written)
       \/ only.backups = 0
       \/ disk[only.path][only.backups] # Absent

\* How much there is below a backup that exists; one full file more while it has
\* not been moved.
CountInv ==
  only # Absent /\ faults = 0 =>
    \A m \in 0..only.backups : disk[only.path][m] # Absent =>
      IF actor.stage = "rotate"
      THEN LET count == Cardinality(Retained(only.path, m)) IN
           /\ count >= (m - restarts) * only.size
           /\ m <= actor.index => count >= (m + 1 - restarts) * only.size
      ELSE Cardinality(Backups(only.path, m)) >= (m - restarts) * only.size

\* While it stays, the configuration is the only one there was.
LEMMA OnlyStays ==
  LogInv /\ LogNext /\ only' # Absent => only' = only /\ only # Absent
BY LogAssumption
   DEF LogNext, Run, Enqueue, Close, Take, Apply, Shift, Truncate, Write, OpenFull, Open,
       WriteNowhere, Finish, Fail, Reconfigure, LogRestart

\* A step that stops using the configuration, or leaves all of it alone.
LEMMA OnlyUnchanged ==
  OnlyInv /\ UNCHANGED <<config, file, current, command, actor, disk, only, faults>> => OnlyInv'
BY DEF OnlyInv, Size, RecordsIn

\* Every step keeps what is said of the only file the log has been given.
LEMMA OnlyNext == LogInv /\ OnlyInv /\ LogNext => OnlyInv'
<1> SUFFICES ASSUME LogInv, OnlyInv, LogNext, only' # Absent PROVE OnlyInv'
  BY DEF OnlyInv
<1> USE LogAssumption
<1> DEFINE p == only.path
<1>0. /\ only' = only /\ only # Absent /\ only \in LogConfigs /\ config = only
      /\ p \in Paths /\ only.size \in Nat /\ only.size > 0
      /\ only.backups \in 0..Depth /\ only.backups \in Nat /\ 0 \in 0..Depth /\ Depth \in Nat
      /\ disk \in [Paths -> [0..Depth -> {Absent} \cup Seq(Nat)]]
      /\ actor \in Actor /\ current \in Nat /\ faults \in Nat /\ queue \in Seq(Nat)
  BY OnlyStays, ConfigTypes, DepthIsLargest DEF OnlyInv, LogInv, LogTypeInv
<1>1. /\ config = only /\ command = Absent
      /\ actor.on \in {"start", "write"} /\ file \in {Absent, p}
      /\ Size(disk[p][0]) <= only.size
      /\ \A i \in 1..only.backups : disk[p][i] # <<>>
      /\ actor.stage = "rotate" => disk[p][0] # <<>>
      /\ actor.stage = "rotate" /\ actor.index < only.backups => disk[p][actor.index] = Absent
      /\ actor.stage = "idle" /\ file = Absent => faults > 0 /\ disk[p][0] # <<>>
      /\ (\/ actor.stage = "idle" /\ file = Absent
          \/ actor.stage = "rotate" /\ actor.on = "write")
         => current > 0 /\ current + 1 > only.size
      /\ actor.stage = "write" => file # Absent
      /\ faults = 0 /\ actor.stage = "rotate" /\ actor.index = only.backups =>
           Size(disk[p][0]) = only.size
  BY <1>0, Zenon DEF OnlyInv
<1>2. Size(<<>>) = 0
  BY DEF Size, RecordsIn
<1>3. CASE Enqueue \/ Close
  BY <1>3, OnlyUnchanged DEF Enqueue, Close, bounds
<1>4. CASE \E c \in LogConfigs : Reconfigure(c)
  BY <1>0, <1>4 DEF Reconfigure
<1>5. CASE \E c \in LogConfigs : LogRestart(c)
  <2>1. PICK c \in LogConfigs : LogRestart(c)
    BY <1>5
  <2>2. /\ config' = only /\ command' = Absent /\ file' = Absent /\ UNCHANGED <<disk, faults>>
        /\ actor' = [Rest EXCEPT !.stage = "open", !.on = "start", !.previous = c]
    BY <1>0, <2>1 DEF LogRestart
  <2>3. actor'.stage = "open" /\ actor'.on = "start"
    BY <2>2 DEF Rest
  <2> QED
    BY <1>0, <1>1, <2>2, <2>3 DEF OnlyInv, Size, RecordsIn
<1>6. CASE Take
  <2>1. /\ actor.stage = "idle" /\ UNCHANGED <<config, current, command, disk, faults>>
        /\ \/ /\ current > 0 /\ current + 1 > only.size
              /\ actor'.stage = "rotate" /\ actor'.on = "write" /\ actor'.index = only.backups
              /\ file' = Absent
           \/ /\ ~(current > 0 /\ current + 1 > only.size)
              /\ actor'.stage = "write" /\ actor'.on = "write" /\ file' = file
    <3> DEFINE A == [actor EXCEPT !.stage = "write", !.on = "write", !.record = Head(queue)]
    <3>1. A \in Actor /\ A.stage = "write" /\ A.on = "write"
      BY <1>0, <1>6, HeadOfRecords DEF Actor, Take
    <3>2. RotateIf(current > 0 /\ current + 1 > only.size, A)
      BY <1>1, <1>6 DEF Take
    <3>3. actor.stage = "idle" /\ UNCHANGED <<config, current, command, disk, faults>>
      BY <1>6 DEF Take, bounds
    <3> HIDE DEF A
    <3> QED
      BY <1>1, <3>1, <3>2, <3>3 DEF RotateIf, Actor
  <2>2. CASE current > 0 /\ current + 1 > only.size
    <3>1. /\ actor'.stage = "rotate" /\ actor'.on = "write" /\ actor'.index = only.backups
          /\ file' = Absent
      BY <2>1, <2>2
    <3>2. file # Absent => file = p /\ Size(disk[p][0]) = current
      BY <1>0, <1>1, <2>1 DEF LogInv, SizeKnown
    <3>3. disk[p][0] # <<>> /\ (faults = 0 => Size(disk[p][0]) = only.size)
      BY <1>0, <1>1, <1>2, <2>1, <2>2, <3>2
    <3>4. \A i \in 1..only.backups : disk[p][i] # <<>>
      BY <1>1
    <3> QED
      BY <1>0, <1>1, <2>1, <2>2, <3>1, <3>3 DEF OnlyInv, Size, RecordsIn
  <2>3. CASE ~(current > 0 /\ current + 1 > only.size)
    <3>1. actor'.stage = "write" /\ actor'.on = "write" /\ file' = file /\ file # Absent
      BY <1>1, <2>1, <2>3
    <3> QED
      BY <1>0, <1>1, <2>1, <3>1 DEF OnlyInv, Size, RecordsIn
  <2> QED
    BY <2>2, <2>3
<1>7. CASE Apply \/ WriteNowhere
  BY <1>1, <1>7 DEF Apply, WriteNowhere
<1>8. CASE OpenFull
  <2>1. /\ actor.stage = "open" /\ UNCHANGED <<config, current, command, disk, faults>>
        /\ actor'.stage = "rotate" /\ actor'.on = actor.on /\ actor'.index = only.backups
        /\ file' = Absent /\ Size(disk[p][0]) >= only.size
    BY <1>0, <1>1, <1>8 DEF OpenFull, RotateIf, bounds, Actor
  <2>2. disk[p][0] # <<>> /\ actor.on = "start" /\ Size(disk[p][0]) \in Nat
    BY <1>0, <1>1, <1>2, <2>1 DEF LogInv, ActorInv, Size, RecordsIn
  <2> QED
    BY <1>0, <1>1, <2>1, <2>2 DEF OnlyInv, Size, RecordsIn
<1>9. CASE Open
  <2>1. /\ actor.stage = "open" /\ UNCHANGED <<config, faults>> /\ command' = Absent
        /\ file' = p /\ actor'.stage = "idle" /\ actor'.on = "write"
        /\ disk' = [disk EXCEPT ![p][0] = IF @ = Absent THEN <<>> ELSE @]
    BY <1>0, <1>1, <1>9 DEF Open, bounds, Rest
  <2>2. /\ \A i \in 1..only.backups : disk'[p][i] = disk[p][i]
        /\ RecordsIn(disk'[p][0]) = RecordsIn(disk[p][0])
    BY <1>0, <2>1 DEF RecordsIn
  <2>3. p # Absent
    BY <1>0
  <2> QED
    BY <1>0, <1>1, <2>1, <2>2, <2>3 DEF OnlyInv, Size
<1>10. CASE Shift
  <2> DEFINE i == actor.index
  <2>1. /\ actor.stage = "rotate" /\ i > 0 /\ i \in Nat /\ i <= only.backups
        /\ UNCHANGED <<config, file, current, command, faults>>
        /\ actor'.stage = "rotate" /\ actor'.on = actor.on /\ actor'.index = i - 1
        /\ disk' = IF disk[p][i - 1] = Absent THEN disk
                   ELSE [disk EXCEPT ![p][i] = disk[p][i - 1], ![p][i - 1] = Absent]
    BY <1>0, <1>1, <1>10 DEF Shift, bounds, Actor, LogInv, ActorInv
  <2>2. i \in 0..Depth /\ i - 1 \in 0..Depth /\ i - 1 # i
    BY <1>0, <2>1
  <2>3. CASE disk[p][i - 1] = Absent
    <3>1. disk' = disk
      BY <2>1, <2>3
    <3> QED
      BY <1>0, <1>1, <2>1, <2>3, <3>1 DEF OnlyInv, Size, RecordsIn
  <2>4. CASE disk[p][i - 1] # Absent
    <3>1. disk' = [disk EXCEPT ![p][i] = disk[p][i - 1], ![p][i - 1] = Absent]
      BY <2>1, <2>4
    <3>2. /\ disk'[p][i] = disk[p][i - 1] /\ disk'[p][i - 1] = Absent
          /\ \A j \in 0..Depth : j # i /\ j # i - 1 => disk'[p][j] = disk[p][j]
      BY <1>0, <2>2, <3>1
    <3>3. <<>> # Absent
      <4>1. <<>> \in Seq(Nat)
        OBVIOUS
      <4> QED
        BY <4>1
    <3>4. \A j \in 1..only.backups : disk'[p][j] # <<>>
      <4>1. disk[p][i - 1] # <<>>
        <5>1. i - 1 = 0 \/ i - 1 \in 1..only.backups
          BY <1>0, <2>1
        <5> HIDE DEF i, p
        <5> QED
          BY <1>1, <2>1, <5>1, Zenon
      <4> QED
        BY <1>0, <1>1, <2>1, <2>2, <3>2, <3>3, <4>1
    <3>5. disk'[p][0] = Absent \/ disk'[p][0] = disk[p][0]
      BY <1>0, <2>1, <3>2
    <3>6. Size(Absent) = 0
      BY DEF Size, RecordsIn
    <3> QED
      <4>1. /\ Size(disk[p][0]) <= only.size /\ disk[p][0] # <<>> /\ only.size >= 0
            /\ actor.on = "write" => current > 0 /\ current + 1 > only.size
            /\ faults = 0 /\ i = only.backups => Size(disk[p][0]) = only.size
        BY <1>0, <1>1, <2>1, ConfigTypes
      <4>2. Size(disk'[p][0]) <= only.size /\ disk'[p][0] # <<>>
        BY <3>3, <3>5, <3>6, <4>1
      <4>3. actor'.index < only.backups => disk'[p][actor'.index] = Absent
        BY <2>1, <3>2
      <4>4. actor'.index # only.backups
        BY <1>0, <2>1
      <4>5. /\ only' = only /\ config' = only /\ command' = Absent
            /\ actor'.on \in {"start", "write"} /\ file' \in {Absent, p}
        BY <1>0, <1>1, <2>1
      <4>6. /\ actor'.stage = "rotate" /\ actor'.stage # "idle" /\ actor'.stage # "write"
            /\ actor'.on = actor.on /\ current' = current /\ actor.stage = "rotate"
        BY <2>1
      <4>7. only'.path = p /\ only.path = p
        BY <4>5
      <4> HIDE DEF i, p
      <4> QED
        BY <3>4, <4>1, <4>2, <4>3, <4>4, <4>5, <4>6, <4>7, ZenonT(40) DEF OnlyInv
  <2> QED
    BY <2>3, <2>4
<1>11. CASE Truncate
  <2>1. /\ UNCHANGED <<config, command, faults>> /\ file' = p
        /\ actor'.stage \in {"write", "open"} /\ actor'.on = actor.on
        /\ disk' = [disk EXCEPT ![p][0] = <<>>]
    BY <1>0, <1>1, <1>11 DEF Truncate, bounds, Actor
  <2>2. disk'[p][0] = <<>> /\ \A i \in 1..only.backups : disk'[p][i] = disk[p][i]
    BY <1>0, <2>1
  <2>3. p # Absent
    BY <1>0
  <2> QED
    BY <1>0, <1>1, <1>2, <2>1, <2>2, <2>3 DEF OnlyInv
<1>12. CASE Write
  <2>1. /\ actor.stage = "write" /\ file = p /\ p # Absent
        /\ UNCHANGED <<config, command, file, faults>>
        /\ actor'.stage = "idle" /\ actor'.on = "write"
        /\ disk' = [disk EXCEPT ![file][0] = Append(@, actor.record)]
    BY <1>0, <1>1, <1>12 DEF Write, bounds, Rest
  <2>2. \A i \in 1..only.backups : disk'[p][i] = disk[p][i]
    BY <1>0, <2>1
  <2>3. Size(disk[p][0])' <= only.size
    <3>1. /\ current' = current + 1 /\ current + 1 <= only.size
      BY <1>0, <1>1, <1>12, <2>1 DEF Write, LogInv, SizeKnown
    <3>2. current' = Size(disk'[p][0])
      BY <1>12, <2>1, WriteInv DEF LogInv, SizeKnown
    <3> QED
      BY <1>0, <3>1, <3>2
  <2> QED
    BY <1>0, <1>1, <2>1, <2>2, <2>3 DEF OnlyInv
<1>13. CASE Fail
  <2>1. /\ actor.stage \in {"rotate", "open", "write"} /\ actor.on = "write"
        /\ faults' = faults + 1 /\ UNCHANGED <<config, file, current, disk, command>>
        /\ actor'.stage = "idle" /\ actor'.on = "write"
    BY <1>1, <1>13 DEF Fail, Rest
  <2>2. actor.stage # "open" /\ (actor.stage = "rotate" => file = Absent) /\ faults' > 0
    BY <1>0, <2>1 DEF LogInv, ActorInv
  <2> QED
    BY <1>0, <1>1, <2>1, <2>2 DEF OnlyInv, Size, RecordsIn
<1>14. CASE Finish
  <2>1. /\ UNCHANGED <<config, command, disk, faults>> /\ file' = Absent
        /\ actor'.stage = "done" /\ actor'.on = actor.on
    BY <1>0, <1>14 DEF Finish, bounds, Actor
  <2> QED
    BY <1>0, <1>1, <2>1 DEF OnlyInv, Size, RecordsIn
<1> QED
  BY <1>3, <1>4, <1>5, <1>6, <1>7, <1>8, <1>9, <1>10, <1>11, <1>12, <1>13, <1>14
  DEF LogNext, Run

\* Records keep their number when they are kept.
LEMMA RetainedGrows ==
  ASSUME NEW p, NEW m, NEW n,
         \A j \in 0..m : \/ RecordsIn(disk[p][j]) = <<>>
                         \/ \E k \in 0..n : RecordsIn(disk[p][j]) = RecordsIn(disk'[p][k])
  PROVE  Retained(p, m) \subseteq Retained(p, n)'
<1> SUFFICES ASSUME NEW r \in Retained(p, m) PROVE r \in Retained(p, n)'
  OBVIOUS
<1>1. PICK j \in 0..m : r \in ToSet(RecordsIn(disk[p][j]))
  BY Zenon DEF Retained
<1>2. ToSet(<<>>) = {}
  BY DEF ToSet
<1>3. PICK k \in 0..n : RecordsIn(disk[p][j]) = RecordsIn(disk'[p][k])
  BY <1>1, <1>2, Zenon
<1>4. r \in ToSet(RecordsIn(disk'[p][k]))
  BY <1>1, <1>3, Zenon
<1> QED
  BY <1>4, Zenon DEF Retained

\* The file and its backups.
LEMMA RetainedSplit ==
  ASSUME NEW p, NEW m \in Nat
  PROVE  Retained(p, m) = ToSet(RecordsIn(disk[p][0])) \cup Backups(p, m)
<1>1. \A i \in 0..m : i = 0 \/ i \in 1..m
  OBVIOUS
<1>2. 0 \in 0..m /\ \A i \in 1..m : i \in 0..m
  OBVIOUS
<1>3. Retained(p, m) \subseteq ToSet(RecordsIn(disk[p][0])) \cup Backups(p, m)
  BY <1>1, Zenon DEF Retained, Backups
<1>4. ToSet(RecordsIn(disk[p][0])) \cup Backups(p, m) \subseteq Retained(p, m)
  BY <1>2, Zenon DEF Retained, Backups
<1> QED
  BY <1>3, <1>4

\* A file holds as many records as its size says.
LEMMA CountFile ==
  ASSUME LogInv, NEW p \in Paths, NEW i \in 0..Depth
  PROVE  /\ IsFiniteSet(ToSet(RecordsIn(disk[p][i])))
         /\ Cardinality(ToSet(RecordsIn(disk[p][i]))) = Size(disk[p][i])
         /\ Size(disk[p][i]) \in Nat
<1> DEFINE f == RecordsIn(disk[p][i])
<1>1. f \in Seq(Nat)
  <2>1. <<>> \in Seq(Nat)
    OBVIOUS
  <2>2. disk[p][i] \in {Absent} \cup Seq(Nat)
    BY Zenon DEF LogInv, LogTypeInv
  <2> QED
    BY <2>1, <2>2 DEF RecordsIn
<1>2. Len(f) \in Nat /\ DOMAIN f = 1..Len(f)
  BY <1>1
<1>3. \A k, l \in 1..Len(f) : k < l => f[k] < f[l]
  BY <1>2 DEF LogInv, RecordsInOrder
<1>4. \A k \in 1..Len(f) : f[k] \in Nat
  BY <1>1
<1> HIDE DEF f
<1>5. \A k, l \in 1..Len(f) : k # l => f[k] # f[l]
  BY <1>2, <1>3, <1>4
<1>6. f \in [1..Len(f) -> ToSet(f)] /\ \A r \in ToSet(f) : \E k \in 1..Len(f) : f[k] = r
  BY <1>1, <1>2 DEF ToSet
<1>7. f \in Bijection(1..Len(f), ToSet(f))
  BY <1>5, <1>6, Fun_IsBij
<1>8. ExistsBijection(1..Len(f), ToSet(f))
  BY <1>7 DEF ExistsBijection
<1>9. IsFiniteSet(ToSet(f)) /\ Cardinality(ToSet(f)) = Len(f)
  BY <1>2, <1>8, FS_CountingElements, FS_NatBijection
<1> QED
  BY <1>2, <1>9, Zenon DEF f, Size

\* What is retained is counted file by file.
LEMMA CountRetained ==
  ASSUME LogInv, NEW p \in Paths, NEW m \in 0..Depth
  PROVE  /\ IsFiniteSet(Retained(p, m)) /\ IsFiniteSet(Backups(p, m))
         /\ Cardinality(Retained(p, m)) \in Nat /\ Cardinality(Backups(p, m)) \in Nat
         /\ Size(disk[p][0]) \in Nat
         /\ Cardinality(Retained(p, m)) = Size(disk[p][0]) + Cardinality(Backups(p, m))
<1> DEFINE F == ToSet(RecordsIn(disk[p][0]))
<1>1. Depth \in Nat /\ 0 \in 0..Depth /\ m \in Nat
  BY DepthIsLargest
<1>2. offered \in Nat
  BY DEF LogInv, LogTypeInv
<1>3. IsFiniteSet(0..offered)
  BY <1>2, FS_Interval
<1>4. IsFiniteSet(Retained(p, m))
  BY <1>3, RetainedIsWritten, FS_Subset
<1>5. Retained(p, m) = F \cup Backups(p, m)
  BY <1>1, RetainedSplit
<1>6. IsFiniteSet(Backups(p, m))
  BY <1>4, <1>5, FS_Subset
<1>7. F \cap Backups(p, m) = {}
  <2> SUFFICES ASSUME NEW r \in F, r \in Backups(p, m) PROVE FALSE
    OBVIOUS
  <2>1. PICK k \in DOMAIN RecordsIn(disk[p][0]) : RecordsIn(disk[p][0])[k] = r
    BY Zenon DEF ToSet
  <2>2. PICK j \in 1..m : r \in ToSet(RecordsIn(disk[p][j]))
    BY Zenon DEF Backups
  <2>3. PICK l \in DOMAIN RecordsIn(disk[p][j]) : RecordsIn(disk[p][j])[l] = r
    BY <2>2, Zenon DEF ToSet
  <2>4. j > 0 /\ j \in 0..Depth
    BY <1>1
  <2>5. r < r
    BY <1>1, <2>1, <2>3, <2>4, Zenon DEF LogInv, RecordsInOrder
  <2>6. r \in Nat
    BY <1>1, <2>1, SMTT(30) DEF LogInv, LogTypeInv, RecordsIn
  <2> QED
    BY <2>5, <2>6
<1>8. IsFiniteSet(F) /\ Cardinality(F) = Size(disk[p][0]) /\ Size(disk[p][0]) \in Nat
  BY <1>1, CountFile
<1>9. Cardinality(Backups(p, m)) \in Nat /\ Cardinality(Retained(p, m)) \in Nat
  BY <1>4, <1>6, FS_CardinalityType
<1>10. Cardinality(F \cup Backups(p, m))
         = Cardinality(F) + Cardinality(Backups(p, m)) - Cardinality({})
  <2> HIDE DEF F
  <2> QED
    BY <1>6, <1>7, <1>8, FS_Union
<1>11. Cardinality({}) = 0
  BY FS_EmptySet
<1> QED
  BY <1>4, <1>5, <1>6, <1>8, <1>9, <1>10, <1>11

\* Written records are older than the last one.
LEMMA LastWritten ==
  ASSUME LogInv, written # <<>>
  PROVE  /\ written[Len(written)] \in ToSet(written) /\ written[Len(written)] \in Nat
         /\ Len(written) \in DOMAIN written
         /\ \A r \in ToSet(written) : r \in Nat /\ r <= written[Len(written)]
<1>1. written \in Seq(Nat) /\ Len(written) \in 1..Len(written)
  BY DEF LogInv, LogTypeInv
<1>2. \A k \in 1..Len(written) : written[k] <= written[Len(written)] /\ written[k] \in Nat
  BY <1>1 DEF LogInv, RecordsInOrder
<1> QED
  BY <1>1, <1>2 DEF ToSet

\* What the steps that touch files do to them, while the configuration stays.
LEMMA TruncateStep ==
  ASSUME LogInv, OnlyInv, Truncate, only # Absent,
         NEW p \in Paths, p = only.path, NEW B \in Nat, B = only.backups
  PROVE  /\ disk'[p][0] = <<>> /\ (B > 0 => disk[p][0] = Absent)
         /\ \A j \in 1..B : disk'[p][j] = disk[p][j]
         /\ written' = written
<1> USE LogAssumption
<1>0. /\ only \in LogConfigs /\ config = only
      /\ B \in 0..Depth /\ 0 \in 0..Depth /\ Depth \in Nat
      /\ disk \in [Paths -> [0..Depth -> {Absent} \cup Seq(Nat)]]
      /\ actor \in Actor
  BY ConfigTypes, DepthIsLargest DEF OnlyInv, LogInv, LogTypeInv
<1>1. \A j \in 1..B : j \in 0..Depth /\ j # 0
  BY <1>0
<1>2. /\ disk' = [disk EXCEPT ![p][0] = <<>>] /\ actor.index = 0 /\ actor.stage = "rotate"
      /\ written' = written
  BY <1>0 DEF Truncate
<1>3. disk'[p][0] = <<>> /\ \A j \in 1..B : disk'[p][j] = disk[p][j]
  BY <1>0, <1>1, <1>2
<1>4. B > 0 => disk[p][0] = Absent
  BY <1>0, <1>2 DEF OnlyInv
<1> QED
  BY <1>2, <1>3, <1>4

\* What writing a record does to the only file.
LEMMA WriteStep ==
  ASSUME LogInv, OnlyInv, Write, only # Absent,
         NEW p \in Paths, p = only.path, NEW B \in Nat, B = only.backups
  PROVE  /\ written' = Append(written, actor.record) /\ actor.record \in Nat
         /\ RecordsIn(disk'[p][0]) = Append(RecordsIn(disk[p][0]), actor.record)
         /\ RecordsIn(disk[p][0]) \in Seq(Nat)
         /\ \A j \in 1..B : disk'[p][j] = disk[p][j]
<1> USE LogAssumption
<1>0. /\ only \in LogConfigs /\ config = only
      /\ B \in 0..Depth /\ 0 \in 0..Depth /\ Depth \in Nat
      /\ disk \in [Paths -> [0..Depth -> {Absent} \cup Seq(Nat)]]
      /\ actor \in Actor
  BY ConfigTypes, DepthIsLargest DEF OnlyInv, LogInv, LogTypeInv
<1>1. \A j \in 1..B : j \in 0..Depth /\ j # 0
  BY <1>0
<1>2. /\ disk' = [disk EXCEPT ![p][0] = Append(@, actor.record)]
      /\ written' = Append(written, actor.record) /\ actor.stage = "write"
      /\ file = p /\ file # Absent
  BY <1>0 DEF Write, OnlyInv
<1>3. actor.record \in Nat
  BY <1>0, <1>2 DEF LogInv, ActorInv, Actor
<1>4. disk[p][0] # Absent /\ disk[p][0] \in Seq(Nat)
  BY <1>0, <1>2 DEF LogInv, OpenInv
<1>5. /\ disk'[p][0] = Append(disk[p][0], actor.record)
      /\ \A j \in 1..B : disk'[p][j] = disk[p][j]
  BY <1>0, <1>1, <1>2
<1>6. disk'[p][0] # Absent
  <2>1. Append(disk[p][0], actor.record) \in Seq(Nat)
    BY <1>3, <1>4, AppendedRecord
  <2> QED
    BY <1>5, <2>1
<1> QED
  BY <1>2, <1>3, <1>4, <1>5, <1>6 DEF RecordsIn

\* What opening does to the only file: nothing.
LEMMA OpenStep ==
  ASSUME LogInv, OnlyInv, Open, only # Absent,
         NEW p \in Paths, p = only.path, NEW B \in Nat, B = only.backups
  PROVE  /\ written' = written
         /\ disk'[p][0] # <<>> => disk[p][0] # <<>>
         /\ RecordsIn(disk'[p][0]) = RecordsIn(disk[p][0])
         /\ \A j \in 1..B : disk'[p][j] = disk[p][j]
<1> USE LogAssumption
<1>0. /\ only \in LogConfigs /\ config = only
      /\ B \in 0..Depth /\ 0 \in 0..Depth /\ Depth \in Nat
      /\ disk \in [Paths -> [0..Depth -> {Absent} \cup Seq(Nat)]]
      /\ actor \in Actor
  BY ConfigTypes, DepthIsLargest DEF OnlyInv, LogInv, LogTypeInv
<1>1. \A j \in 1..B : j \in 0..Depth /\ j # 0
  BY <1>0
<1>2. /\ disk' = [disk EXCEPT ![p][0] = IF @ = Absent THEN <<>> ELSE @]
      /\ written' = written
  BY <1>0 DEF Open
<1>3. /\ disk'[p][0] = IF disk[p][0] = Absent THEN <<>> ELSE disk[p][0]
      /\ \A j \in 1..B : disk'[p][j] = disk[p][j]
  BY <1>0, <1>1, <1>2
<1> QED
  BY <1>2, <1>3 DEF RecordsIn

\* Other steps touch no file.
LEMMA FileSteps ==
  ASSUME LogInv, OnlyInv, LogNext, only' # Absent
  PROVE  /\ only' = only /\ only # Absent
         /\ \/ UNCHANGED <<disk, written>>
            \/ Shift /\ disk[only.path][actor.index - 1] # Absent
            \/ Truncate \/ Write \/ Open
<1>1. only' = only /\ only # Absent
  BY OnlyStays
<1>2. CASE Enqueue \/ Close \/ Take \/ Apply \/ OpenFull \/ WriteNowhere \/ Finish \/ Fail
  BY <1>1, <1>2 DEF Enqueue, Close, Take, Apply, OpenFull, WriteNowhere, Finish, Fail
<1>3. CASE \E c \in LogConfigs : Reconfigure(c) \/ LogRestart(c)
  BY <1>1, <1>3 DEF Reconfigure, LogRestart
<1>4. CASE Shift
  BY <1>1, <1>4 DEF Shift, OnlyInv
<1> QED
  BY <1>1, <1>2, <1>3, <1>4 DEF LogNext, Run

\* A rotation moves a file to the place above, which is free unless it is the
\* last one.
LEMMA ShiftStep ==
  ASSUME LogInv, OnlyInv, Shift, only # Absent,
         NEW p \in Paths, p = only.path, NEW B \in Nat, B = only.backups,
         NEW i, i = actor.index, disk[p][i - 1] # Absent
  PROVE  /\ i \in 1..B /\ i - 1 \in 0..B /\ B \in 0..Depth
         /\ written' = written /\ actor.stage = "rotate"
         /\ disk'[p][i] = disk[p][i - 1] /\ disk'[p][i - 1] = Absent
         /\ \A j \in 0..B : j # i /\ j # i - 1 => disk'[p][j] = disk[p][j]
         /\ i < B => disk[p][i] = Absent
         /\ RecordsIn(disk[p][i - 1]) = disk[p][i - 1]
         /\ disk[p][i - 1] \in Seq(Nat) /\ disk[p][i - 1] # <<>>
<1> USE LogAssumption
<1>0. /\ only \in LogConfigs /\ config = only
      /\ B \in 0..Depth /\ Depth \in Nat
      /\ disk \in [Paths -> [0..Depth -> {Absent} \cup Seq(Nat)]]
      /\ actor \in Actor
  BY DepthIsLargest DEF OnlyInv, LogInv, LogTypeInv
<1>1. /\ actor.stage = "rotate" /\ i > 0 /\ written' = written
      /\ disk' = [disk EXCEPT ![p][i] = disk[p][i - 1], ![p][i - 1] = Absent]
      /\ i \in Nat /\ i <= B
  BY <1>0 DEF Shift, LogInv, ActorInv, Actor
<1>2. /\ i \in 1..B /\ i - 1 \in 0..B /\ i - 1 # i /\ i \in 0..Depth /\ i - 1 \in 0..Depth
      /\ \A j \in 0..B : j \in 0..Depth
  BY <1>0, <1>1
<1>3. /\ disk'[p][i] = disk[p][i - 1] /\ disk'[p][i - 1] = Absent
      /\ \A j \in 0..B : j # i /\ j # i - 1 => disk'[p][j] = disk[p][j]
  BY <1>0, <1>1, <1>2
<1>4. i < B => disk[p][i] = Absent
  BY <1>1 DEF OnlyInv
<1>5. disk[p][i - 1] # <<>>
  <2>1. i - 1 = 0 \/ i - 1 \in 1..B
    BY <1>2
  <2>2. CASE i - 1 = 0
    BY <1>1, <2>2 DEF OnlyInv
  <2>3. CASE i - 1 \in 1..B
    BY <2>3 DEF OnlyInv
  <2> QED
    BY <2>1, <2>2, <2>3
<1>6. disk[p][i - 1] \in Seq(Nat)
  BY <1>0, <1>2
<1> QED
  BY <1>0, <1>1, <1>2, <1>3, <1>4, <1>5, <1>6 DEF RecordsIn

\* What a rotation pushes out is older than what it keeps.
LEMMA PushedOutIsOldest ==
  ASSUME LogInv, NEW p \in Paths, NEW i \in 0..Depth, NEW j \in 0..Depth, j < i,
         NEW r \in ToSet(RecordsIn(disk[p][i])), NEW s \in ToSet(RecordsIn(disk[p][j]))
  PROVE  r \in Nat /\ s \in Nat /\ r < s
<1>1. PICK k \in DOMAIN RecordsIn(disk[p][i]) : RecordsIn(disk[p][i])[k] = r
  BY Zenon DEF ToSet
<1>2. PICK l \in DOMAIN RecordsIn(disk[p][j]) : RecordsIn(disk[p][j])[l] = s
  BY Zenon DEF ToSet
<1>3. i > j
  BY DepthIsLargest
<1>4. r < s
  BY <1>1, <1>2, <1>3, Zenon DEF LogInv, RecordsInOrder
<1>5. \A m \in DOMAIN written : written[m] \in Nat
  BY DEF LogInv, LogTypeInv
<1>6. \E m \in DOMAIN written : written[m] = r
  BY <1>1, Zenon DEF LogInv, FilesInv
<1>7. \E m \in DOMAIN written : written[m] = s
  BY <1>2, Zenon DEF LogInv, FilesInv
<1> QED
  BY <1>4, <1>5, <1>6, <1>7, Zenon

\* Every step keeps the newest record in the file or a backup of it.
LEMMA NewestNext ==
  LogInv /\ OnlyInv /\ NewestInv /\ LogNext => NewestInv'
<1> SUFFICES ASSUME LogInv, OnlyInv, NewestInv, LogNext, only' # Absent, written' # <<>>,
                    only'.backups > 0 \/ disk'[only'.path][0] # <<>>
             PROVE  written'[Len(written')] \in Retained(only.path, only.backups)'
  BY DEF NewestInv
<1>0. /\ only' = only /\ only # Absent /\ only \in LogConfigs
      /\ only.path \in Paths /\ only.backups \in 0..Depth /\ Depth \in Nat
  BY OnlyStays, ConfigTypes, DepthIsLargest DEF LogInv, LogTypeInv
<1>1. PICK p \in Paths : p = only.path
  BY <1>0
<1>2. PICK B \in Nat : B = only.backups /\ B \in 0..Depth
  BY <1>0
<1>3. /\ Retained(only.path, only.backups)' = Retained(p, B)'
      /\ written # <<>> /\ (B > 0 \/ disk[p][0] # <<>>) =>
           written[Len(written)] \in Retained(p, B)
      /\ B > 0 \/ disk'[p][0] # <<>>
  BY <1>0, <1>1, <1>2, Zenon DEF NewestInv, Retained
<1>4. 0 \in 0..B /\ \A j \in 0..B : j = 0 \/ j \in 1..B
  OBVIOUS
<1>5. ASSUME written' = written, B > 0 \/ disk[p][0] # <<>>,
             Retained(p, B) \subseteq Retained(p, B)'
      PROVE  written'[Len(written')] \in Retained(p, B)'
  BY <1>3, <1>5
<1>6. CASE UNCHANGED <<disk, written>>
  <2>1. Retained(p, B)' = Retained(p, B)
    BY <1>6 DEF Retained
  <2> QED
    BY <1>3, <1>6, <2>1
<1>7. CASE Shift /\ disk[p][actor.index - 1] # Absent
  <2>1. PICK i : i = actor.index
    OBVIOUS
  <2>2. /\ i \in 1..B /\ i - 1 \in 0..B /\ i - 1 \in 0..Depth /\ i \in 0..Depth
        /\ written' = written
        /\ disk'[p][i] = disk[p][i - 1]
        /\ \A j \in 0..B : j # i /\ j # i - 1 => disk'[p][j] = disk[p][j]
        /\ RecordsIn(disk[p][i - 1]) = disk[p][i - 1]
        /\ disk[p][i - 1] \in Seq(Nat) /\ disk[p][i - 1] # <<>>
    <3>1. /\ Shift /\ disk[p][i - 1] # Absent /\ i = actor.index
          /\ p = only.path /\ B = only.backups /\ only # Absent
      BY <1>0, <1>1, <1>2, <1>7, <2>1
    <3>2. /\ i \in 1..B /\ i - 1 \in 0..B /\ written' = written
          /\ disk'[p][i] = disk[p][i - 1]
          /\ \A j \in 0..B : j # i /\ j # i - 1 => disk'[p][j] = disk[p][j]
          /\ RecordsIn(disk[p][i - 1]) = disk[p][i - 1]
          /\ disk[p][i - 1] \in Seq(Nat) /\ disk[p][i - 1] # <<>>
      BY <3>1, ShiftStep, SMTT(30)
    <3>3. i - 1 \in 0..Depth /\ i \in 0..Depth
      BY <1>0, <1>2, <3>2
    <3> QED
      BY <3>2, <3>3
  <2> DEFINE last == written[Len(written)]
  <2>3. last \in Retained(p, B)
    BY <1>3, <2>2
  <2>4. PICK j \in 0..B : last \in ToSet(RecordsIn(disk[p][j]))
    BY <2>3, Zenon DEF Retained
  <2>5. j # i
    <3> SUFFICES ASSUME j = i PROVE FALSE
      OBVIOUS
    <3>1. PICK s : s \in ToSet(RecordsIn(disk[p][i - 1]))
      <4>1. 1 \in DOMAIN disk[p][i - 1]
        BY <2>2
      <4> QED
        BY <2>2, <4>1, Zenon DEF ToSet
    <3>2. i - 1 < i
      BY <2>2
    <3>3. last < s /\ last \in Nat /\ s \in Nat
      <4> HIDE DEF last
      <4> QED
        BY <2>2, <2>4, <3>1, <3>2, PushedOutIsOldest
    <3>4. s \in ToSet(written)
      <4>1. s \in Retained(p, B)
        BY <2>2, <3>1, Zenon DEF Retained
      <4> QED
        BY <1>2, <4>1, RetainedIsWritten
    <3>5. s <= last
      BY <1>1, <2>2, <3>4, LastWritten
    <3> QED
      BY <3>3, <3>5
  <2>6. \E k \in 0..B : RecordsIn(disk[p][j]) = RecordsIn(disk'[p][k])
    <3>1. i \in 0..B
      BY <2>2
    <3> QED
      BY <2>2, <2>5, <3>1, Zenon
  <2>7. last \in Retained(p, B)'
    BY <2>4, <2>6, Zenon DEF Retained
  <2> QED
    BY <1>0, <1>3, <2>2, <2>7
<1>8. CASE Truncate
  <2>0. /\ disk'[p][0] = <<>> /\ (B > 0 => disk[p][0] = Absent)
        /\ \A j \in 1..B : disk'[p][j] = disk[p][j]
        /\ written' = written
    BY <1>0, <1>1, <1>2, <1>8, TruncateStep
  <2>1. B > 0
    BY <1>3, <2>0
  <2>2. RecordsIn(disk[p][0]) = <<>>
    BY <2>0, <2>1 DEF RecordsIn
  <2>3. Retained(p, B) \subseteq Retained(p, B)'
    <3>1. \A j \in 0..B : \/ RecordsIn(disk[p][j]) = <<>>
                         \/ \E k \in 0..B : RecordsIn(disk[p][j]) = RecordsIn(disk'[p][k])
      BY <1>4, <2>0, <2>2, Zenon
    <3> QED
      BY <3>1, RetainedGrows
  <2> QED
    BY <1>3, <1>5, <2>0, <2>1, <2>3
<1>9. CASE Write
  <2>0. /\ written' = Append(written, actor.record) /\ actor.record \in Nat
        /\ RecordsIn(disk'[p][0]) = Append(RecordsIn(disk[p][0]), actor.record)
        /\ RecordsIn(disk[p][0]) \in Seq(Nat)
    BY <1>0, <1>1, <1>2, <1>9, WriteStep
  <2>1. written \in Seq(Nat)
    BY DEF LogInv, LogTypeInv
  <2>2. written'[Len(written')] = actor.record
    BY <2>0, <2>1
  <2>3. actor.record \in ToSet(RecordsIn(disk'[p][0]))
    BY <2>0, AppendedRecord
  <2>4. actor.record \in Retained(p, B)'
    BY <1>4, <2>3, Zenon DEF Retained
  <2> QED
    BY <1>3, <2>2, <2>4
<1>10. CASE Open
  <2>0. /\ written' = written /\ (disk'[p][0] # <<>> => disk[p][0] # <<>>)
        /\ RecordsIn(disk'[p][0]) = RecordsIn(disk[p][0])
        /\ \A j \in 1..B : disk'[p][j] = disk[p][j]
    BY <1>0, <1>1, <1>2, <1>10, OpenStep
  <2>1. Retained(p, B) \subseteq Retained(p, B)'
    <3>1. \A j \in 0..B : \E k \in 0..B : RecordsIn(disk[p][j]) = RecordsIn(disk'[p][k])
      BY <1>4, <2>0, Zenon
    <3> QED
      BY <3>1, RetainedGrows
  <2> QED
    BY <1>3, <1>5, <2>0, <2>1
<1> QED
  BY <1>1, <1>3, <1>6, <1>7, <1>8, <1>9, <1>10, FileSteps, Zenon

\* Nothing is retained that was not before.
LEMMA RetainedShrinks ==
  ASSUME NEW p, NEW m, NEW n,
         \A j \in 0..n : \/ RecordsIn(disk'[p][j]) = <<>>
                         \/ \E k \in 0..m : RecordsIn(disk'[p][j]) = RecordsIn(disk[p][k])
  PROVE  Retained(p, n)' \subseteq Retained(p, m)
<1> SUFFICES ASSUME NEW r \in Retained(p, n)' PROVE r \in Retained(p, m)
  OBVIOUS
<1>1. PICK j \in 0..n : r \in ToSet(RecordsIn(disk'[p][j]))
  BY Zenon DEF Retained
<1>2. ToSet(<<>>) = {}
  BY DEF ToSet
<1>3. PICK k \in 0..m : RecordsIn(disk'[p][j]) = RecordsIn(disk[p][k])
  BY <1>1, <1>2, Zenon
<1>4. r \in ToSet(RecordsIn(disk[p][k]))
  BY <1>1, <1>3, Zenon
<1> QED
  BY <1>4, Zenon DEF Retained

\* Failures are not forgotten.
LEMMA FaultsStay == LogInv /\ LogNext /\ faults' = 0 => faults = 0
<1> SUFFICES ASSUME LogInv, LogNext, faults' = 0 PROVE faults = 0
  OBVIOUS
<1>1. faults \in Nat
  BY DEF LogInv, LogTypeInv
<1>2. faults' = faults \/ faults' = faults + 1
  BY DEF LogNext, Run, Enqueue, Close, Take, Apply, Shift, Truncate, Write, OpenFull, Open,
         WriteNowhere, Finish, Fail, Reconfigure, LogRestart, bounds
<1> QED
  BY <1>1, <1>2

\* Every step keeps the end of what was written in the file and its backups.
LEMMA EndNext == LogInv /\ OnlyInv /\ EndInv /\ LogNext => EndInv'
<1> SUFFICES ASSUME LogInv, OnlyInv, EndInv, LogNext, only' # Absent, faults' = 0
             PROVE  /\ \A r \in Retained(only.path, only.backups)', s \in ToSet(written') :
                         s > r => s \in Retained(only.path, only.backups)'
                    /\ \/ Retained(only.path, only.backups)' = ToSet(written')
                       \/ only'.backups = 0
                       \/ disk'[only'.path][only'.backups] # Absent
  BY DEF EndInv
<1>0. /\ only' = only /\ only # Absent /\ only \in LogConfigs /\ faults = 0
      /\ only.path \in Paths /\ only.backups \in 0..Depth /\ Depth \in Nat
  BY OnlyStays, FaultsStay, ConfigTypes, DepthIsLargest DEF LogInv, LogTypeInv
<1>1. PICK p \in Paths : p = only.path
  BY <1>0
<1>2. PICK B \in Nat : B = only.backups /\ B \in 0..Depth
  BY <1>0
<1>3. /\ Retained(only.path, only.backups)' = Retained(p, B)'
      /\ only'.backups = B /\ only'.path = p
  BY <1>0, <1>1, <1>2, Zenon DEF Retained
<1>4. /\ \A r \in Retained(p, B), s \in ToSet(written) : s > r => s \in Retained(p, B)
      /\ Retained(p, B) = ToSet(written) \/ B = 0 \/ disk[p][B] # Absent
  BY <1>0, <1>1, <1>2, Zenon DEF EndInv
<1>5. /\ 0 \in 0..B /\ B \in 0..B /\ \A j \in 0..B : j = 0 \/ j \in 1..B
      /\ \A j \in 0..B : j \in 0..Depth
      /\ B = 0 \/ B \in 1..B
  BY <1>0, <1>2
<1> DEFINE Goal ==
      /\ \A r \in Retained(p, B)', s \in ToSet(written') : s > r => s \in Retained(p, B)'
      /\ Retained(p, B)' = ToSet(written') \/ B = 0 \/ disk'[p][B] # Absent
<1>6. ASSUME written' = written, Retained(p, B)' = Retained(p, B),
             B # 0 => disk'[p][B] = disk[p][B]
      PROVE  Goal
  BY <1>4, <1>6
<1> SUFFICES Goal
  BY <1>3, Zenon
<1> HIDE DEF Goal
<1>7. CASE UNCHANGED <<disk, written>>
  <2>1. Retained(p, B)' = Retained(p, B)
    BY <1>7 DEF Retained
  <2> QED
    BY <1>6, <1>7, <2>1
<1>8. CASE Shift /\ disk[only.path][actor.index - 1] # Absent
  <2>1. PICK i : i = actor.index
    OBVIOUS
  <2>2. /\ Shift /\ disk[p][i - 1] # Absent /\ i = actor.index
        /\ p = only.path /\ B = only.backups /\ only # Absent
    BY <1>0, <1>1, <1>2, <1>8, <2>1
  <2>3. /\ i \in 1..B /\ i - 1 \in 0..B /\ written' = written
        /\ disk'[p][i] = disk[p][i - 1] /\ disk'[p][i - 1] = Absent
        /\ \A j \in 0..B : j # i /\ j # i - 1 => disk'[p][j] = disk[p][j]
        /\ i < B => disk[p][i] = Absent
    BY <2>2, ShiftStep, SMTT(30)
  <2>4. i \in 0..B /\ i - 1 # i /\ RecordsIn(Absent) = <<>> /\ ToSet(<<>>) = {}
    BY <2>3 DEF RecordsIn, ToSet
  <2>5. \A j \in 0..B : j # i =>
          \E k \in 0..B : RecordsIn(disk[p][j]) = RecordsIn(disk'[p][k])
    BY <2>3, <2>4, Zenon
  <2>6. \A j \in 0..B :
          \/ RecordsIn(disk'[p][j]) = <<>>
          \/ \E k \in 0..B : k # i /\ RecordsIn(disk'[p][j]) = RecordsIn(disk[p][k])
    BY <2>3, <2>4, Zenon
  <2>7. Retained(p, B)' \subseteq Retained(p, B)
    <3>1. \A j \in 0..B :
            \/ RecordsIn(disk'[p][j]) = <<>>
            \/ \E k \in 0..B : RecordsIn(disk'[p][j]) = RecordsIn(disk[p][k])
      BY <2>6, Zenon
    <3> QED
      BY <3>1, RetainedShrinks
  <2>8. CASE i = B
    <3>1. disk'[p][B] # Absent
      BY <2>2, <2>3, <2>8
    <3>2. ASSUME NEW r \in Retained(p, B)', NEW s \in ToSet(written'), s > r
          PROVE  s \in Retained(p, B)'
      <4>1. s \in Retained(p, B)
        BY <1>4, <2>3, <2>7, <3>2
      <4>2. PICK j \in 0..B : s \in ToSet(RecordsIn(disk[p][j]))
        BY <4>1, Zenon DEF Retained
      <4>3. CASE j # i
        <5>1. PICK k \in 0..B : RecordsIn(disk[p][j]) = RecordsIn(disk'[p][k])
          BY <2>5, <4>3
        <5> QED
          BY <4>2, <5>1, Zenon DEF Retained
      <4>4. CASE j = i
        <5>1. PICK l \in 0..B : r \in ToSet(RecordsIn(disk'[p][l]))
          BY <3>2, Zenon DEF Retained
        <5>2. PICK k \in 0..B : k # i /\ RecordsIn(disk'[p][l]) = RecordsIn(disk[p][k])
          BY <2>4, <2>6, <5>1, Zenon
        <5>3. k < i /\ r \in ToSet(RecordsIn(disk[p][k])) /\ s \in ToSet(RecordsIn(disk[p][i]))
          BY <2>8, <4>2, <4>4, <5>1, <5>2
        <5>4. i \in 0..Depth /\ k \in 0..Depth
          BY <1>5, <2>4
        <5>5. s \in Nat /\ r \in Nat /\ s < r
          BY <5>3, <5>4, PushedOutIsOldest
        <5> QED
          BY <3>2, <5>5
      <4> QED
        BY <4>3, <4>4
    <3> QED
      BY <3>1, <3>2, <2>8, Zenon DEF Goal
  <2>9. CASE i # B
    <3>1. disk[p][i] = Absent
      BY <2>3, <2>9
    <3>2. Retained(p, B) \subseteq Retained(p, B)'
      <4>1. \A j \in 0..B : \/ RecordsIn(disk[p][j]) = <<>>
                           \/ \E k \in 0..B : RecordsIn(disk[p][j]) = RecordsIn(disk'[p][k])
        BY <2>4, <2>5, <3>1, Zenon
      <4> QED
        BY <4>1, RetainedGrows
    <3>3. disk'[p][B] = disk[p][B]
      BY <1>5, <2>3, <2>9
    <3> QED
      BY <1>6, <2>3, <2>7, <3>2, <3>3
  <2> QED
    BY <2>8, <2>9
<1>9. CASE Truncate
  <2>1. /\ disk'[p][0] = <<>> /\ (B > 0 => disk[p][0] = Absent)
        /\ \A j \in 1..B : disk'[p][j] = disk[p][j]
        /\ written' = written
    BY <1>0, <1>1, <1>2, <1>9, TruncateStep
  <2>2. RecordsIn(Absent) = <<>> /\ RecordsIn(<<>>) = <<>>
    BY DEF RecordsIn
  <2>3. CASE B = 0
    <3>1. \A j \in 0..B : RecordsIn(disk'[p][j]) = <<>>
      BY <1>5, <2>1, <2>2, <2>3
    <3>2. Retained(p, B)' = {}
      <4>1. ToSet(<<>>) = {}
        BY DEF ToSet
      <4> QED
        BY <3>1, <4>1, Zenon DEF Retained
    <3> QED
      BY <2>3, <3>2 DEF Goal
  <2>4. CASE B # 0
    <3>1. disk[p][0] = Absent
      BY <2>1, <2>4
    <3>2. Retained(p, B) \subseteq Retained(p, B)'
      <4>1. \A j \in 0..B : \/ RecordsIn(disk[p][j]) = <<>>
                           \/ \E k \in 0..B : RecordsIn(disk[p][j]) = RecordsIn(disk'[p][k])
        BY <1>5, <2>1, <2>2, <3>1, Zenon
      <4> QED
        BY <4>1, RetainedGrows
    <3>3. Retained(p, B)' \subseteq Retained(p, B)
      <4>1. \A j \in 0..B : \/ RecordsIn(disk'[p][j]) = <<>>
                           \/ \E k \in 0..B : RecordsIn(disk'[p][j]) = RecordsIn(disk[p][k])
        BY <1>5, <2>1, <2>2, Zenon
      <4> QED
        BY <4>1, RetainedShrinks
    <3>4. disk'[p][B] = disk[p][B]
      BY <1>5, <2>1, <2>4
    <3> QED
      BY <1>6, <2>1, <3>2, <3>3, <3>4
  <2> QED
    BY <2>3, <2>4
<1>10. CASE Write
  <2> DEFINE new == actor.record
  <2>1. /\ written' = Append(written, new) /\ new \in Nat
        /\ RecordsIn(disk'[p][0]) = Append(RecordsIn(disk[p][0]), new)
        /\ RecordsIn(disk[p][0]) \in Seq(Nat)
        /\ \A j \in 1..B : disk'[p][j] = disk[p][j]
    BY <1>0, <1>1, <1>2, <1>10, WriteStep
  <2>2. ToSet(RecordsIn(disk'[p][0])) = ToSet(RecordsIn(disk[p][0])) \cup {new}
    BY <2>1, AppendedRecord
  <2>3. ToSet(written') = ToSet(written) \cup {new}
    BY <2>1, AppendedRecord DEF LogInv, LogTypeInv
  <2>4. Retained(p, B)' = Retained(p, B) \cup {new}
    <3>1. \A j \in 1..B : RecordsIn(disk'[p][j]) = RecordsIn(disk[p][j])
      BY <2>1, Zenon
    <3> HIDE DEF new
    <3>2. Retained(p, B)' \subseteq Retained(p, B) \cup {new}
      <4> SUFFICES ASSUME NEW r \in Retained(p, B)' PROVE r \in Retained(p, B) \cup {new}
        OBVIOUS
      <4>1. PICK j \in 0..B : r \in ToSet(RecordsIn(disk'[p][j]))
        BY Zenon DEF Retained
      <4>2. r \in ToSet(RecordsIn(disk[p][j])) \/ r = new
        BY <1>5, <2>2, <3>1, <4>1
      <4> QED
        BY <4>2, Zenon DEF Retained
    <3>3. Retained(p, B) \cup {new} \subseteq Retained(p, B)'
      <4>1. \A j \in 0..B : ToSet(RecordsIn(disk[p][j])) \subseteq ToSet(RecordsIn(disk'[p][j]))
        BY <1>5, <2>2, <3>1
      <4>2. Retained(p, B) \subseteq Retained(p, B)'
        BY <4>1, Zenon DEF Retained
      <4>3. new \in Retained(p, B)'
        BY <1>5, <2>2, Zenon DEF Retained
      <4> QED
        BY <4>2, <4>3
    <3> QED
      BY <3>2, <3>3
  <2>5. \A s \in ToSet(written) : s \in Nat /\ s < new
    <3>1. \A k \in DOMAIN written : written[k] \in Nat /\ written[k] < new
      BY <2>1, LogAssumption DEF LogInv, LogTypeInv, FlowInv
    <3> QED
      BY <3>1, Zenon DEF ToSet
  <2>6. Retained(p, B) \subseteq ToSet(written)
    BY <1>2, RetainedIsWritten
  <2> HIDE DEF new
  <2>7. \A r \in Retained(p, B)', s \in ToSet(written') : s > r => s \in Retained(p, B)'
    BY <1>4, <2>1, <2>3, <2>4, <2>5, <2>6
  <2>8. Retained(p, B)' = ToSet(written') \/ B = 0 \/ disk'[p][B] # Absent
    BY <1>4, <1>5, <2>1, <2>3, <2>4
  <2> QED
    BY <2>7, <2>8 DEF Goal
<1>11. CASE Open
  <2>1. /\ written' = written
        /\ RecordsIn(disk'[p][0]) = RecordsIn(disk[p][0])
        /\ \A j \in 1..B : disk'[p][j] = disk[p][j]
    BY <1>0, <1>1, <1>2, <1>11, OpenStep
  <2>2. \A j \in 0..B : RecordsIn(disk'[p][j]) = RecordsIn(disk[p][j])
    BY <1>5, <2>1, Zenon
  <2>3. Retained(p, B) \subseteq Retained(p, B)'
    BY <2>2, Zenon DEF Retained
  <2>4. Retained(p, B)' \subseteq Retained(p, B)
    BY <2>2, Zenon DEF Retained
  <2>5. B # 0 => disk'[p][B] = disk[p][B]
    BY <1>5, <2>1
  <2> QED
    BY <1>6, <2>1, <2>3, <2>4, <2>5
<1> QED
  BY <1>7, <1>8, <1>9, <1>10, <1>11, FileSteps

\* One file more, one file less.
LEMMA FileMore ==
  /\ \A k \in Int, s \in Nat : (k + 1) * s = k * s + s /\ k * s \in Int
  /\ \A r, s \in Nat : (0 - r) * s <= 0
<1>1. \A k \in Int, s \in Nat : (k + 1) * s = k * s + s /\ k * s \in Int
  OBVIOUS
<1>2. ASSUME NEW r \in Nat, NEW s \in Nat PROVE (0 - r) * s <= 0
  <2>1. (0 - r) * s = 0 - r * s /\ r * s >= 0
    OBVIOUS
  <2> QED
    BY <2>1
<1> QED
  BY <1>1, <1>2

\* Backups that stay are counted as before.
LEMMA BackupsStay ==
  ASSUME NEW p, NEW B \in Nat, \A j \in 1..B : disk'[p][j] = disk[p][j]
  PROVE  \A m \in 0..B : Backups(p, m)' = Backups(p, m)
<1> SUFFICES ASSUME NEW m \in 0..B PROVE Backups(p, m)' = Backups(p, m)
  OBVIOUS
<1>1. \A j \in 1..m : j \in 1..B
  OBVIOUS
<1>2. \A j \in 1..m : ToSet(RecordsIn(disk'[p][j])) = ToSet(RecordsIn(disk[p][j]))
  BY <1>1, Zenon
<1>3. Backups(p, m)' \subseteq Backups(p, m)
  BY <1>2, Zenon DEF Backups
<1>4. Backups(p, m) \subseteq Backups(p, m)'
  BY <1>2, Zenon DEF Backups
<1> QED
  BY <1>3, <1>4

\* Every step keeps as much in the backups as a rotation may not push out.
LEMMA CountNext ==
  LogInv /\ OnlyInv /\ CountInv /\ LogNext => CountInv'
<1> SUFFICES ASSUME LogInv, OnlyInv, CountInv, LogNext, only' # Absent, faults' = 0,
                    NEW m \in 0..only'.backups, disk'[only'.path][m] # Absent
             PROVE
               IF actor'.stage = "rotate"
               THEN LET count == Cardinality(Retained(only.path, m)') IN
                    /\ count >= (m - restarts') * only'.size
                    /\ m <= actor'.index => count >= (m + 1 - restarts') * only'.size
               ELSE Cardinality(Backups(only.path, m)') >= (m - restarts') * only'.size
  BY Zenon DEF CountInv
<1>0. /\ only' = only /\ only # Absent /\ only \in LogConfigs /\ faults = 0 /\ faults' = 0
      /\ only.path \in Paths /\ only.backups \in 0..Depth /\ Depth \in Nat
      /\ actor \in Actor
  BY OnlyStays, FaultsStay, ConfigTypes, DepthIsLargest DEF LogInv, LogTypeInv
<1>1. PICK p \in Paths : p = only.path
  BY <1>0
<1>2. PICK B \in Nat : B = only.backups /\ B \in 0..Depth
  BY <1>0
<1>3. PICK s \in Nat : s = only.size
  BY <1>0, ConfigTypes
<1>4. m \in 0..B /\ m \in 0..Depth /\ m \in Nat /\ disk'[p][m] # Absent
  BY <1>0, <1>1, <1>2
<1> DEFINE Goal ==
      IF actor'.stage = "rotate"
      THEN /\ Cardinality(Retained(p, m)') >= (m - restarts') * s
           /\ m <= actor'.index =>
                Cardinality(Retained(p, m)') >= (m + 1 - restarts') * s
      ELSE Cardinality(Backups(p, m)') >= (m - restarts') * s
<1> SUFFICES Goal
  BY <1>0, <1>1, <1>3, Zenon DEF Retained, Backups
<1>5. \A k \in 0..B : disk[p][k] # Absent =>
        IF actor.stage = "rotate"
        THEN /\ Cardinality(Retained(p, k)) >= (k - restarts) * s
             /\ k <= actor.index => Cardinality(Retained(p, k)) >= (k + 1 - restarts) * s
        ELSE Cardinality(Backups(p, k)) >= (k - restarts) * s
  BY <1>0, <1>1, <1>2, <1>3, Zenon DEF CountInv
<1>6. /\ LogInv' /\ OnlyInv' /\ restarts \in Nat /\ restarts' \in Nat
      /\ actor.index \in Nat
  BY <1>0, LogNextInv, OnlyNext DEF LogInv, LogTypeInv, Actor
<1>7. /\ IsFiniteSet(Retained(p, m)) /\ IsFiniteSet(Backups(p, m))
      /\ Cardinality(Retained(p, m)) \in Nat /\ Cardinality(Backups(p, m)) \in Nat
      /\ Size(disk[p][0]) \in Nat /\ Size(disk[p][0]) <= s
      /\ Cardinality(Retained(p, m)) = Size(disk[p][0]) + Cardinality(Backups(p, m))
  BY <1>0, <1>1, <1>3, <1>4, CountRetained DEF OnlyInv
<1>8. /\ IsFiniteSet(Retained(p, m)') /\ Cardinality(Retained(p, m)') \in Nat
      /\ IsFiniteSet(Backups(p, m)') /\ Cardinality(Backups(p, m)') \in Nat
  <2>1. offered' \in Nat /\ IsFiniteSet(0..offered')
    BY <1>6, FS_Interval DEF LogInv, LogTypeInv
  <2>2. ToSet(written') \subseteq 0..offered'
    <3>1. \A k \in DOMAIN written' : written'[k] \in 0..offered'
      BY <1>6 DEF LogInv, LogTypeInv, FlowInv
    <3> QED
      BY <3>1, Zenon DEF ToSet
  <2>3. \A j \in 0..m : ToSet(RecordsIn(disk'[p][j])) \subseteq ToSet(written')
    <3> SUFFICES ASSUME NEW j \in 0..m, NEW r \in ToSet(RecordsIn(disk'[p][j]))
                 PROVE  r \in ToSet(written')
      OBVIOUS
    <3>1. j \in 0..Depth
      BY <1>0, <1>4
    <3>2. PICK k \in DOMAIN RecordsIn(disk'[p][j]) : RecordsIn(disk'[p][j])[k] = r
      BY Zenon DEF ToSet
    <3>3. \E l \in DOMAIN written' : written'[l] = RecordsIn(disk'[p][j])[k]
      BY <1>6, <3>1, <3>2, Zenon DEF LogInv, FilesInv
    <3> QED
      BY <3>2, <3>3, Zenon DEF ToSet
  <2>4. Retained(p, m)' \subseteq 0..offered'
    BY <2>2, <2>3, Zenon DEF Retained
  <2>5. Backups(p, m)' \subseteq 0..offered'
    <3>1. \A j \in 1..m : j \in 0..m
      OBVIOUS
    <3> QED
      BY <2>2, <2>3, <3>1, Zenon DEF Backups
  <2> QED
    BY <2>1, <2>4, <2>5, FS_Subset, FS_CardinalityType
<1>9. /\ \A k \in Int : (k + 1) * s = k * s + s /\ k * s \in Int
      /\ (0 - restarts) * s <= 0
  BY <1>6, FileMore
<1>10. ASSUME UNCHANGED <<disk, restarts>>,
              \/ actor'.stage = "rotate" /\ actor.stage = "rotate" /\ actor'.index = actor.index
              \/ actor'.stage # "rotate" /\ actor.stage # "rotate"
       PROVE  Goal
  <2>1. Retained(p, m)' = Retained(p, m) /\ Backups(p, m)' = Backups(p, m)
    BY <1>10, Zenon DEF Retained, Backups
  <2> QED
    BY <1>4, <1>5, <1>10, <2>1
\* A rotation begins.
<1>11. ASSUME UNCHANGED <<disk, restarts>>, actor.stage # "rotate", actor'.stage = "rotate",
              actor'.index = B
       PROVE  Goal
  <2>1. Retained(p, m)' = Retained(p, m)
    BY <1>11, Zenon DEF Retained
  <2>2. Cardinality(Backups(p, m)) >= (m - restarts) * s
    BY <1>4, <1>5, <1>11
  <2>3. Size(disk[p][0]) = s
    <3>1. Size(disk'[p][0]) = s
      BY <1>0, <1>1, <1>2, <1>3, <1>6, <1>11 DEF OnlyInv
    <3> QED
      BY <1>11, <3>1
  <2>4. m - restarts \in Int /\ m <= actor'.index /\ m + 1 - restarts = (m - restarts) + 1
    BY <1>4, <1>6, <1>11
  <2>5. Cardinality(Retained(p, m)) >= (m + 1 - restarts) * s
    BY <1>7, <1>9, <2>2, <2>3, <2>4
  <2>6. Cardinality(Retained(p, m)) >= (m - restarts) * s
    BY <1>7, <1>9, <2>2, <2>3, <2>4
  <2> QED
    BY <1>11, <2>1, <2>5, <2>6, Zenon
\* The backups stay, whatever happens to the file.
<1>12. ASSUME \A j \in 1..B : disk'[p][j] = disk[p][j], restarts' = restarts,
              actor'.stage # "rotate", actor.stage # "rotate"
       PROVE  Goal
  <2>1. Backups(p, m)' = Backups(p, m)
    BY <1>4, <1>12, BackupsStay
  <2>2. CASE m = 0
    <3>1. m - restarts' = 0 - restarts
      BY <1>12, <2>2
    <3>2. Cardinality(Backups(p, m)') >= (0 - restarts) * s
      <4>1. (0 - restarts) * s \in Int
        BY <1>6, <1>9
      <4> QED
        BY <1>8, <1>9, <4>1
    <3> QED
      BY <1>12, <3>1, <3>2, Zenon
  <2>3. CASE m # 0
    <3>1. disk[p][m] # Absent
      BY <1>4, <1>12, <2>3
    <3> QED
      BY <1>4, <1>5, <1>12, <2>1, <3>1
  <2> QED
    BY <2>2, <2>3
<1> HIDE DEF Goal
<1>13. CASE Enqueue \/ Close \/ Finish
  <2>1. /\ UNCHANGED <<disk, restarts>>
        /\ \/ actor' = actor
           \/ actor'.stage # "rotate" /\ actor.stage # "rotate"
    BY <1>0, <1>13 DEF Enqueue, Close, Finish, bounds, Actor
  <2> QED
    BY <1>10, <2>1
<1>14. CASE Apply \/ WriteNowhere \/ Fail
  BY <1>0, <1>6, <1>14 DEF Apply, WriteNowhere, Fail, OnlyInv
<1>15. CASE Take \/ OpenFull
  <2>1. /\ UNCHANGED <<disk, restarts>> /\ actor.stage # "rotate"
        /\ actor'.stage # "rotate" \/ (actor'.stage = "rotate" /\ actor'.index = config.backups)
    <3>1. CASE OpenFull
      BY <1>0, <3>1 DEF OpenFull, RotateIf, bounds, Actor
    <3>2. CASE Take
      <4> DEFINE A == [actor EXCEPT !.stage = "write", !.on = "write", !.record = Head(queue)]
      <4>1. A.stage = "write" /\ DOMAIN A = {"stage", "on", "index", "record", "previous"}
        BY <1>0 DEF Actor
      <4>2. RotateIf(current > 0 /\ current + 1 > config.size, A)
        BY <3>2 DEF Take
      <4>3. UNCHANGED <<disk, restarts>> /\ actor.stage # "rotate"
        BY <3>2 DEF Take, bounds
      <4> HIDE DEF A
      <4> QED
        BY <4>1, <4>2, <4>3 DEF RotateIf
    <3> QED
      BY <1>15, <3>1, <3>2
  <2>2. config.backups = B
    BY <1>0, <1>2 DEF OnlyInv
  <2> QED
    BY <1>10, <1>11, <2>1, <2>2
<1>16. CASE \E c \in LogConfigs : Reconfigure(c)
  BY <1>0, <1>16 DEF Reconfigure
\* A crash in a rotation leaves the backups where they are: one file less.
<1>17. CASE \E c \in LogConfigs : LogRestart(c)
  <2>1. PICK c \in LogConfigs : LogRestart(c)
    BY <1>17
  <2>2. /\ disk' = disk /\ restarts' = restarts + 1 /\ actor'.stage # "rotate"
    BY <2>1 DEF LogRestart, Rest
  <2>3. Backups(p, m)' = Backups(p, m)
    BY <2>2, Zenon DEF Backups
  <2>4. /\ m - restarts \in Int /\ m - restarts' \in Int
        /\ m - restarts = (m - restarts') + 1
        /\ m + 1 - restarts = (m - restarts) + 1
    BY <1>4, <1>6, <2>2
  <2>5. /\ (m - restarts) * s = (m - restarts') * s + s
        /\ (m + 1 - restarts) * s = (m - restarts) * s + s
        /\ (m - restarts') * s \in Int
    BY <1>9, <2>4
  <2>6. Cardinality(Backups(p, m)) >= (m - restarts') * s
    <3>1. CASE actor.stage = "rotate"
      <4>2. Cardinality(Retained(p, m)) >= (m - restarts) * s
        BY <1>4, <1>5, <2>2, <3>1
      <4> QED
        BY <1>7, <2>5, <4>2
    <3>2. CASE actor.stage # "rotate"
      <4>1. Cardinality(Backups(p, m)) >= (m - restarts) * s
        BY <1>4, <1>5, <2>2, <3>2
      <4> QED
        BY <1>7, <2>5, <4>1
    <3> QED
      BY <3>1, <3>2
  <2> QED
    BY <2>2, <2>3, <2>6 DEF Goal
\* A file that is moved up is counted with its new place.
<1>18. CASE Shift
  <2>1. PICK i : i = actor.index
    OBVIOUS
  <2>2. /\ actor.stage = "rotate" /\ actor'.stage = "rotate" /\ actor'.index = i - 1
        /\ i > 0 /\ i \in Nat /\ restarts' = restarts
        /\ disk[p][i - 1] = Absent => disk' = disk
    BY <1>0, <1>1, <1>18, <2>1 DEF Shift, Actor, bounds, OnlyInv
  <2>3. \A k \in 0..B : disk[p][k] # Absent =>
          /\ Cardinality(Retained(p, k)) >= (k - restarts) * s
          /\ k <= i => Cardinality(Retained(p, k)) >= (k + 1 - restarts) * s
    BY <1>5, <2>1, <2>2
  <2>4. SUFFICES /\ Cardinality(Retained(p, m)') >= (m - restarts) * s
                 /\ m <= i - 1 => Cardinality(Retained(p, m)') >= (m + 1 - restarts) * s
    BY <2>2 DEF Goal
  <2>5. /\ (m + 1 - restarts) * s = (m - restarts) * s + s
        /\ (m - restarts) * s \in Int
    <3>1. m - restarts \in Int /\ m + 1 - restarts = (m - restarts) + 1
      BY <1>4, <1>6
    <3> QED
      BY <1>9, <3>1
  <2>6. ASSUME Retained(p, m) \subseteq Retained(p, m)', disk[p][m] # Absent
        PROVE  /\ Cardinality(Retained(p, m)') >= (m - restarts) * s
               /\ m <= i - 1 => Cardinality(Retained(p, m)') >= (m + 1 - restarts) * s
    <3>1. Cardinality(Retained(p, m)') >= Cardinality(Retained(p, m))
      BY <1>8, <2>6, FS_Subset
    <3>2. /\ Cardinality(Retained(p, m)) >= (m - restarts) * s
          /\ m <= i => Cardinality(Retained(p, m)) >= (m + 1 - restarts) * s
      BY <1>4, <2>3, <2>6
    <3>3. /\ Cardinality(Retained(p, m)) \in Nat /\ Cardinality(Retained(p, m)') \in Nat
          /\ (m - restarts) * s \in Int /\ (m + 1 - restarts) * s \in Int
          /\ m <= i - 1 => m <= i
      BY <1>4, <1>7, <1>8, <2>2, <2>5
    <3> QED
      BY <3>1, <3>2, <3>3
  <2>7. CASE disk[p][i - 1] = Absent
    <3>1. disk' = disk
      BY <2>2, <2>7
    <3>2. Retained(p, m)' = Retained(p, m) /\ disk[p][m] # Absent
      BY <1>4, <3>1, Zenon DEF Retained
    <3> QED
      BY <2>6, <3>2
  <2>8. CASE disk[p][i - 1] # Absent
    <3>1. /\ i \in 1..B /\ i - 1 \in 0..B
          /\ disk'[p][i] = disk[p][i - 1] /\ disk'[p][i - 1] = Absent
          /\ \A j \in 0..B : j # i /\ j # i - 1 => disk'[p][j] = disk[p][j]
          /\ i < B => disk[p][i] = Absent
      <4>1. /\ Shift /\ disk[p][i - 1] # Absent /\ i = actor.index
            /\ p = only.path /\ B = only.backups /\ only # Absent
        BY <1>0, <1>1, <1>2, <1>18, <2>1, <2>8
      <4> QED
        BY <4>1, ShiftStep, SMTT(30)
    <3>2. m # i - 1
      BY <1>4, <3>1
    <3>3. CASE m = i
      <4>1. Retained(p, i - 1) \subseteq Retained(p, m)'
        <5>1. \A j \in 0..(i - 1) : \E k \in 0..m : RecordsIn(disk[p][j]) = RecordsIn(disk'[p][k])
          <6> SUFFICES ASSUME NEW j \in 0..(i - 1)
                       PROVE  \E k \in 0..m : RecordsIn(disk[p][j]) = RecordsIn(disk'[p][k])
            OBVIOUS
          <6>1. CASE j = i - 1
            BY <1>4, <3>1, <3>3, <6>1
          <6>2. CASE j # i - 1
            <7>1. j \in 0..m /\ j \in 0..B /\ j # i
              BY <3>1, <3>3, <6>2
            <7> QED
              BY <3>1, <6>2, <7>1
          <6> QED
            BY <6>1, <6>2
        <5> QED
          BY <5>1, RetainedGrows
      <4>2. Cardinality(Retained(p, m)') >= Cardinality(Retained(p, i - 1))
        BY <1>8, <4>1, FS_Subset
      <4>3. Cardinality(Retained(p, i - 1)) >= (m - restarts) * s
        <5>1. i - 1 <= i /\ i - 1 + 1 = m
          BY <2>2, <3>3
        <5>2. Cardinality(Retained(p, i - 1)) >= (i - 1 + 1 - restarts) * s
          BY <2>3, <2>8, <3>1, <5>1
        <5>3. i - 1 + 1 - restarts = m - restarts
          BY <1>4, <1>6, <2>2, <3>3
        <5> QED
          BY <5>2, <5>3, Zenon
      <4>4. Cardinality(Retained(p, i - 1)) \in Nat
        BY <1>8, <4>1, FS_Subset, FS_CardinalityType
      <4>5. ~(m <= i - 1)
        BY <2>2, <3>3
      <4> QED
        BY <1>8, <2>5, <4>2, <4>3, <4>4, <4>5
    <3>4. CASE m # i
      <4>1. disk[p][m] # Absent
        BY <1>4, <3>1, <3>2, <3>4
      <4>2. Retained(p, m) \subseteq Retained(p, m)'
        <5>1. \A j \in 0..m :
                \/ RecordsIn(disk[p][j]) = <<>>
                \/ \E k \in 0..m : RecordsIn(disk[p][j]) = RecordsIn(disk'[p][k])
          <6> SUFFICES ASSUME NEW j \in 0..m
                       PROVE  \/ RecordsIn(disk[p][j]) = <<>>
                              \/ \E k \in 0..m : RecordsIn(disk[p][j]) = RecordsIn(disk'[p][k])
            OBVIOUS
          <6>1. CASE j = i
            <7>1. i < B
              BY <1>4, <3>1, <3>4, <6>1
            <7> QED
              BY <3>1, <6>1, <7>1 DEF RecordsIn
          <6>2. CASE j = i - 1
            <7>1. i \in 0..m
              BY <1>4, <3>1, <3>2, <3>4, <6>2
            <7> QED
              BY <3>1, <6>2, <7>1
          <6>3. CASE j # i /\ j # i - 1
            <7>1. j \in 0..B
              BY <1>4
            <7> QED
              BY <3>1, <6>3, <7>1
          <6> QED
            BY <6>1, <6>2, <6>3
        <5> QED
          BY <5>1, RetainedGrows
      <4> QED
        BY <2>6, <4>1, <4>2
    <3> QED
      BY <3>3, <3>4
  <2> QED
    BY <2>7, <2>8
\* With the new file the rotation is over.
<1>19. CASE Truncate
  <2>1. /\ disk'[p][0] = <<>> /\ (B > 0 => disk[p][0] = Absent)
        /\ \A j \in 1..B : disk'[p][j] = disk[p][j]
    BY <1>0, <1>1, <1>2, <1>19, TruncateStep
  <2>2. /\ actor.stage = "rotate" /\ actor.index = 0 /\ actor'.stage # "rotate"
        /\ restarts' = restarts
    BY <1>0, <1>19 DEF Truncate, Actor, bounds
  <2>3. Backups(p, m)' = Backups(p, m)
    BY <1>4, <2>1, BackupsStay
  <2>4. CASE m = 0
    <3>1. m - restarts' = 0 - restarts
      BY <2>2, <2>4
    <3>2. Cardinality(Backups(p, m)') >= (0 - restarts) * s
      <4>1. (0 - restarts) * s \in Int
        BY <1>6, <1>9
      <4> QED
        BY <1>8, <1>9, <4>1
    <3> QED
      BY <2>2, <3>1, <3>2, Zenon DEF Goal
  <2>5. CASE m # 0
    <3>1. B > 0 /\ m \in 1..B /\ ~(m <= actor.index)
      BY <1>4, <2>2, <2>5
    <3>2. disk[p][m] # Absent
      BY <1>4, <2>1, <3>1
    <3>3. Cardinality(Retained(p, m)) >= (m - restarts) * s
      BY <1>4, <1>5, <2>2, <3>1, <3>2
    <3>4. Size(disk[p][0]) = 0
      BY <2>1, <3>1 DEF Size, RecordsIn
    <3> QED
      BY <1>7, <2>2, <2>3, <3>3, <3>4 DEF Goal
  <2> QED
    BY <2>4, <2>5
<1>20. CASE Write
  <2>1. \A j \in 1..B : disk'[p][j] = disk[p][j]
    BY <1>0, <1>1, <1>2, <1>20, WriteStep
  <2>2. actor.stage # "rotate" /\ actor'.stage # "rotate" /\ restarts' = restarts
    BY <1>20 DEF Write, Rest, bounds
  <2> QED
    BY <1>12, <2>1, <2>2
<1>21. CASE Open
  <2>1. \A j \in 1..B : disk'[p][j] = disk[p][j]
    BY <1>0, <1>1, <1>2, <1>21, OpenStep
  <2>2. actor.stage # "rotate" /\ actor'.stage # "rotate" /\ restarts' = restarts
    BY <1>21 DEF Open, Rest, bounds
  <2> QED
    BY <1>12, <2>1, <2>2
<1> QED
  BY <1>13, <1>14, <1>15, <1>16, <1>17, <1>18, <1>19, <1>20, <1>21 DEF LogNext, Run

\* What holds of the retained records while the configuration stays.
KeptInv == LogInv /\ OnlyInv /\ NewestInv /\ EndInv /\ CountInv

\* All of it holds before the gateway opens its file.
LEMMA LogInitKept == LogInit => KeptInv
<1> SUFFICES ASSUME LogInit PROVE KeptInv
  OBVIOUS
<1> USE LogAssumption
<1>1. LogInv
  BY LogInitInv
<1>2. /\ actor.stage = "open" /\ actor.on = "start" /\ command = Absent /\ file = Absent
      /\ only = config /\ only \in LogConfigs /\ written = <<>>
      /\ \A q \in Paths : \A j \in 0..Depth : disk[q][j] = Absent
  BY DEF LogInit, Rest
<1>3. /\ only.path \in Paths /\ only.size \in Nat /\ only.backups \in 0..Depth
      /\ Depth \in Nat
  BY <1>2, ConfigTypes, DepthIsLargest
<1>4. \A j \in 0..only.backups : disk[only.path][j] = Absent
  BY <1>2, <1>3
<1>5. <<>> # Absent /\ RecordsIn(Absent) = <<>> /\ Len(<<>>) = 0 /\ ToSet(<<>>) = {}
  <2>1. <<>> \in Seq(Nat)
    OBVIOUS
  <2>2. <<>> # Absent
    BY <2>1
  <2>3. ToSet(<<>>) = {} /\ Len(<<>>) = 0
    BY DEF ToSet
  <2> QED
    BY <2>2, <2>3 DEF RecordsIn
<1>6. OnlyInv
  <2>1. \A j \in 1..only.backups : disk[only.path][j] # <<>>
    BY <1>3, <1>4, <1>5
  <2>2. Size(disk[only.path][0]) <= only.size
    BY <1>3, <1>4, <1>5 DEF Size
  <2> QED
    BY <1>2, <2>1, <2>2 DEF OnlyInv
<1>7. NewestInv
  BY <1>2 DEF NewestInv
<1>8. Retained(only.path, only.backups) = {} /\ ToSet(written) = {}
  <2>1. \A j \in 0..only.backups : ToSet(RecordsIn(disk[only.path][j])) = {}
    BY <1>4, <1>5, Zenon
  <2> QED
    BY <1>2, <1>5, <2>1, ZenonT(40) DEF Retained
<1>9. EndInv
  BY <1>8 DEF EndInv
<1>10. CountInv
  BY <1>4 DEF CountInv
<1> QED
  BY <1>1, <1>6, <1>7, <1>9, <1>10 DEF KeptInv

\* All of it survives a step that changes nothing.
LEMMA KeptUnchanged == KeptInv /\ UNCHANGED logVars => KeptInv'
<1> SUFFICES ASSUME KeptInv, UNCHANGED logVars PROVE KeptInv'
  OBVIOUS
<1>1. /\ UNCHANGED <<config, queue, closed, file, current, command, actor, disk, recovered>>
      /\ UNCHANGED <<offered, written, only, lost, faults, restarts, reloads>>
  BY DEF logVars
<1>2. LogInv'
  BY LogNextInv DEF KeptInv
<1>3. OnlyInv'
  BY <1>1, OnlyUnchanged DEF KeptInv
<1>4. \A p, m : Retained(p, m)' = Retained(p, m) /\ Backups(p, m)' = Backups(p, m)
  BY <1>1, Zenon DEF Retained, Backups
<1>5. NewestInv'
  BY <1>1, <1>4 DEF KeptInv, NewestInv
<1>6. EndInv'
  BY <1>1, <1>4 DEF KeptInv, EndInv
<1>7. CountInv'
  BY <1>1, <1>4 DEF KeptInv, CountInv
<1> QED
  BY <1>2, <1>3, <1>5, <1>6, <1>7 DEF KeptInv

\* All of it survives every step.
LEMMA KeptNext == KeptInv /\ [LogNext]_logVars => KeptInv'
<1>1. KeptInv /\ LogNext => KeptInv'
  BY LogNextInv, OnlyNext, NewestNext, EndNext, CountNext DEF KeptInv
<1> QED
  BY <1>1, KeptUnchanged

\* All of it holds in every state of the log.
THEOREM SpecKept == LogSpec => []KeptInv
<1> QED
  BY LogInitKept, KeptNext, PTL DEF LogSpec

\* While the configuration stays the same, whatever crashes: what is retained is
\* the end of what was written, with nothing missing in between, and as much as
\* the backups hold, but for one backup for every crash.
THEOREM SpecSuffixRetained == LogSpec => []SuffixRetained
<1>1. KeptInv => SuffixRetained
  <2> SUFFICES ASSUME KeptInv, only # Absent, faults = 0
               PROVE  LET kept == Retained(only.path, only.backups) IN
                      /\ kept \subseteq ToSet(written)
                      /\ \A r \in kept, s \in ToSet(written) : s > r => s \in kept
                      /\ \/ Cardinality(kept) >= (only.backups - restarts) * only.size
                         \/ kept = ToSet(written)
    BY Zenon DEF SuffixRetained
  <2> DEFINE p == only.path
             B == only.backups
             kept == Retained(p, B)
  <2>1. /\ LogInv /\ OnlyInv /\ only \in LogConfigs /\ p \in Paths /\ B \in 0..Depth
        /\ B \in Nat /\ only.size \in Nat /\ restarts \in Nat
    BY ConfigTypes, DepthIsLargest DEF KeptInv, LogInv, LogTypeInv
  <2>2. kept \subseteq ToSet(written)
    BY <2>1, RetainedIsWritten
  <2>3. /\ \A r \in kept, s \in ToSet(written) : s > r => s \in kept
        /\ kept = ToSet(written) \/ B = 0 \/ disk[p][B] # Absent
    BY Zenon DEF KeptInv, EndInv
  <2>4. /\ Cardinality(kept) \in Nat /\ Cardinality(Backups(p, B)) \in Nat
        /\ Size(disk[p][0]) \in Nat
        /\ Cardinality(kept) = Size(disk[p][0]) + Cardinality(Backups(p, B))
    BY <2>1, CountRetained
  <2>5. (B - restarts) * only.size \in Int
    BY <2>1, FileMore
  <2>6. CASE B = 0
    <3>1. (0 - restarts) * only.size <= 0 /\ (0 - restarts) * only.size \in Int
      BY <2>1, FileMore
    <3>2. Cardinality(kept) >= (0 - restarts) * only.size
      BY <2>4, <3>1
    <3>3. Cardinality(kept) >= (B - restarts) * only.size
      BY <2>6, <3>2, Zenon
    <3> QED
      BY <2>2, <2>3, <3>3
  <2>7. CASE disk[p][B] # Absent
    <3>1. B \in 0..B
      BY <2>1
    <3>2. IF actor.stage = "rotate"
          THEN Cardinality(kept) >= (B - restarts) * only.size
          ELSE Cardinality(Backups(p, B)) >= (B - restarts) * only.size
      BY <2>7, <3>1, Zenon DEF KeptInv, CountInv
    <3>3. Cardinality(kept) >= (B - restarts) * only.size
      BY <2>4, <2>5, <3>2
    <3> QED
      BY <2>2, <2>3, <3>3
  <2>8. CASE kept = ToSet(written)
    BY <2>2, <2>3, <2>8
  <2> QED
    BY <2>3, <2>6, <2>7, <2>8
<1> QED
  BY <1>1, SpecKept, PTL

\* The newest record written is found when the process starts again, whatever
\* failed and wherever it ended, unless no backup is kept and a rotation has just
\* emptied the file.
THEOREM SpecRestartRemembers == LogSpec => RestartRemembers
<1>1. ASSUME KeptInv, LogNext, only' # Absent, restarts' # restarts,
             only'.backups > 0 \/ disk[only'.path][0] # <<>>
      PROVE  recovered' = NewestRecord(ToSet(written))
  <2>1. LogInv /\ OnlyInv /\ restarts \in Nat
    BY <1>1 DEF KeptInv, LogInv, LogTypeInv
  <2>2. only' = only /\ only # Absent /\ only \in LogConfigs
    BY <1>1, <2>1, OnlyStays DEF LogInv, LogTypeInv
  <2>3. only.path \in Paths /\ only.backups \in 0..Depth
    BY <2>2, ConfigTypes, DepthIsLargest
  <2>4. PICK c \in LogConfigs : LogRestart(c)
    BY <1>1, <2>2
    DEF LogNext, Run, Enqueue, Close, Take, Apply, Shift, Truncate, Write, OpenFull, Open,
        WriteNowhere, Finish, Fail, Reconfigure, bounds
  <2>5. c = only
    BY <2>2, <2>4, <1>1 DEF LogRestart
  <2> DEFINE kept == Retained(only.path, only.backups)
  <2>6. recovered' = NewestRecord(kept)
    BY <2>4, <2>5 DEF LogRestart
  <2>7. kept \subseteq ToSet(written) /\ ToSet(written) \subseteq 0..offered /\ offered \in Nat
    BY <2>1, <2>3, RetainedIsWritten DEF LogInv, LogTypeInv
  <2>8. CASE written = <<>>
    <3>1. ToSet(written) = {}
      BY <2>8 DEF ToSet
    <3> QED
      BY <2>6, <2>7, <3>1
  <2>9. CASE written # <<>>
    <3> DEFINE last == written[Len(written)]
    <3>1. last \in kept
      BY <1>1, <2>2, <2>9, Zenon DEF KeptInv, NewestInv
    <3>2. last \in ToSet(written) /\ \A r \in ToSet(written) : r \in Nat /\ r <= last
      BY <2>1, <2>9, LastWritten
    <3> HIDE DEF last, kept
    <3>3. /\ NewestRecord(kept) \in kept /\ last <= NewestRecord(kept)
          /\ NewestRecord(ToSet(written)) \in ToSet(written)
          /\ last <= NewestRecord(ToSet(written))
      <4>1. kept \in SUBSET (0..offered) /\ ToSet(written) \in SUBSET (0..offered)
        BY <2>7
      <4>2. kept # {} /\ ToSet(written) # {}
        BY <3>1, <3>2
      <4> QED
        BY <2>7, <3>1, <3>2, <4>1, <4>2, NewestType
    <3>4. NewestRecord(kept) = last /\ NewestRecord(ToSet(written)) = last
      BY <2>7, <3>2, <3>3
    <3> QED
      BY <2>6, <3>4
  <2> QED
    BY <2>8, <2>9
<1>2. KeptInv /\ [LogNext]_logVars =>
        [only' # Absent /\ restarts' # restarts
           /\ (only'.backups > 0 \/ disk[only'.path][0] # <<>>)
           => recovered' = NewestRecord(ToSet(written))]_logVars
  BY <1>1
<1> QED
  BY <1>2, SpecKept, PTL DEF LogSpec, RestartRemembers
=============================================================================
