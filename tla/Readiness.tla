------------------------------ MODULE Readiness ------------------------------
(***************************************************************************)
(* Evidence of routes and the readiness probe (internal/gateway stats.go,  *)
(* operations.go, server.go): finished requests leave observations, the    *)
(* probe judges the routes of the configuration it loaded by them.         *)
(*                                                                         *)
(* A commit first announces the fingerprints of its routes to the          *)
(* statistics and then publishes its state; requests carry the fingerprint *)
(* of the state they were pinned to and report whenever they end.  The     *)
(* probe reads the clock and the state, and then the statistics, with      *)
(* anything happening in between; circuits open and close as they like     *)
(* (AccountHealth), so what it reads of them twice is any of Circuits.     *)
(*                                                                         *)
(* A scope is a route, target, credential, operation, stream mode and      *)
(* request contract.  Only the scope, the outcome and the time of a record *)
(* matter here.  Targets exist: a disabled account is a target all of      *)
(* whose scopes are down.                                                  *)
(***************************************************************************)
EXTENDS Integers, FiniteSets

CONSTANTS
  Handlers,    \* requests that may be under way
  Routes,      \* aliases
  Scopes,      \* what observations are kept apart by
  RouteOf,     \* RouteOf[s]: the route of a scope
  TargetOf,    \* TargetOf[s]: its target
  Configs,     \* [Routes -> fingerprint or None]: the routes of configurations
  Outcomes,    \* results upstreams can have: a subset of BOOLEAN
  Capacity,    \* maxRouteObservations (16384 in the code)
  Freshness,   \* observationFreshness
  MaxTime,     \* bound of the clock
  MaxReports,  \* bound of different records
  Circuits,    \* sets of scopes whose circuits may be found open
  MaxCommits,  \* bound of commits and restarts
  None         \* no fingerprint, no record, no commit

ASSUME ReadinessAssumption ==
  /\ IsFiniteSet(Scopes) /\ RouteOf \in [Scopes -> Routes]
  /\ Outcomes \subseteq BOOLEAN
  /\ Capacity \in Nat \ {0} /\ Freshness \in Nat
  /\ MaxTime \in Nat /\ MaxReports \in Nat /\ MaxCommits \in Nat
  /\ Configs # {} /\ None \notin Configs /\ Circuits \subseteq SUBSET Scopes

VARIABLES
  now,        \* the clock
  published,  \* routeFingerprints of the published state
  announced,  \* Stats.routeFingerprints
  commit,     \* the configuration announced and not published yet
  latest,     \* Stats.routeLatest: the record kept for every scope
  request,    \* what every handler is doing
  probe,      \* the probe under way
  ready,      \* the last answer was 200
  status,     \* and its status
  accepted,   \* history: records accepted since evidence was last dropped
  heard,      \* records reported, which the request log may have
  commits

vars == <<now, published, announced, commit, latest, request, probe, ready, status,
          accepted, heard, commits>>

routes == <<published, announced, commit, commits>>
evidence == <<latest, accepted, heard>>
probing == <<probe, ready, status>>

Fingerprints == (UNION {{c[r] : r \in Routes} : c \in Configs}) \ {None}

Records == [scope : Scopes, fingerprint : Fingerprints, ok : BOOLEAN, time : 0..MaxTime]

\* Nothing is no record and no answer of the probe.
ASSUME NoneAssumption == None \notin Records \cup {"unavailable", "degraded", "unknown", "ready"}

Nothing == [s \in Scopes |-> None]

Kept(records) == {s \in Scopes : records[s] # None}

Free == [stage |-> "idle", record |-> None]

Unasked == [stage |-> "idle", at |-> 0, config |-> None, seen |-> Nothing]

-----------------------------------------------------------------------------
Init ==
  /\ now = 0
  /\ published \in Configs /\ announced = published /\ commit = None
  /\ latest = Nothing
  /\ request = [h \in Handlers |-> Free]
  /\ probe = Unasked /\ ready = FALSE /\ status = None
  /\ accepted = {} /\ heard = {}
  /\ commits = 0

Tick ==
  /\ now < MaxTime
  /\ now' = now + 1
  /\ UNCHANGED <<routes, evidence, request, probing>>

-----------------------------------------------------------------------------
(* Requests.                                                               *)

\* A request is pinned to the published state and takes its fingerprint along.
Send(h, s) ==
  /\ request[h].stage = "idle"
  /\ published[RouteOf[s]] # None
  /\ Cardinality(heard) < MaxReports
  /\ request' = [request EXCEPT ![h] =
       [stage |-> "flight",
        record |-> [scope |-> s, fingerprint |-> published[RouteOf[s]], ok |-> TRUE,
                    time |-> 0]]]
  /\ UNCHANGED <<now, routes, evidence, probing>>

\* It ends, and its record gets its time.
End(h) ==
  /\ request[h].stage = "flight"
  /\ \E ok \in Outcomes :
       request' = [request EXCEPT ![h].stage = "ended", ![h].record.ok = ok,
                                  ![h].record.time = now]
  /\ UNCHANGED <<now, routes, evidence, probing>>

\* It ends in a way that says nothing about its route: refused, or cancelled.
EndSilently(h) ==
  /\ request[h].stage = "flight"
  /\ request' = [request EXCEPT ![h] = Free]
  /\ UNCHANGED <<now, routes, evidence, probing>>

\* The records that a new one may replace: its scope's, or one of the oldest,
\* if they are older.
Victims(records, e) ==
  {s \in Kept(records) :
     /\ records[s].time < e.time
     /\ \A o \in Kept(records) : records[s].time <= records[o].time}

\* retainRouteObservation: what may be kept afterwards.  Of several oldest
\* records the map's iteration decides.
Retain(records, e) ==
  IF records[e.scope] # None \/ Cardinality(Kept(records)) < Capacity
  THEN {[records EXCEPT ![e.scope] = e]}
  ELSE IF Victims(records, e) = {} THEN {records}
  ELSE {[records EXCEPT ![v] = None, ![e.scope] = e] : v \in Victims(records, e)}

\* What if the fingerprint were not compared with the announced one?
ReportUngated(h) ==
  LET e == request[h].record
      current == latest[e.scope]
  IN  /\ request[h].stage = "ended"
      /\ IF current = None \/ current.time <= e.time
           THEN latest' \in Retain(latest, e) /\ accepted' = accepted \cup {e}
           ELSE UNCHANGED <<latest, accepted>>
      /\ heard' = heard \cup {e}
      /\ request' = [request EXCEPT ![h] = Free]
      /\ UNCHANGED <<now, routes, probing>>

\* RecordRouteObservation: only of the announced route, and the newest of its
\* scope.
Report(h) ==
  LET e == request[h].record
      current == latest[e.scope]
  IN  /\ request[h].stage = "ended"
      /\ IF announced[RouteOf[e.scope]] # e.fingerprint
           THEN UNCHANGED <<latest, accepted>>
           ELSE /\ IF current = None \/ current.time <= e.time
                     THEN latest' \in Retain(latest, e)
                     ELSE UNCHANGED latest
                /\ accepted' = accepted \cup {e}
      /\ heard' = heard \cup {e}
      /\ request' = [request EXCEPT ![h] = Free]
      /\ UNCHANGED <<now, routes, probing>>

-----------------------------------------------------------------------------
(* Commits and restarts.                                                   *)

Current(c, e) == c[RouteOf[e.scope]] = e.fingerprint

\* ConfigureRouteFingerprints: evidence of other routes is dropped.
Announce(c) ==
  /\ commit = None
  /\ commits < MaxCommits
  /\ commits' = commits + 1
  /\ commit' = c
  /\ announced' = c
  /\ latest' = [s \in Scopes |->
       IF latest[s] # None /\ Current(c, latest[s]) THEN latest[s] ELSE None]
  /\ accepted' = {latest'[s] : s \in Kept(latest')}
  /\ UNCHANGED <<now, published, heard, request, probing>>

\* swapState.
Publish ==
  /\ commit # None
  /\ published' = commit
  /\ commit' = None
  /\ UNCHANGED <<now, announced, commits, evidence, request, probing>>

Newest(log, c, s) ==
  LET found == {e \in log : e.scope = s /\ Current(c, e)} IN
  {e \in found : \A o \in found : o.time <= e.time}

\* loadRequestState: the newest record of every scope, and of the scopes those
\* with the newest records if there are too many.
Recovered(log, c) ==
  LET found == {s \in Scopes : Newest(log, c, s) # {}}
      time(s) == (CHOOSE e \in Newest(log, c, s) : TRUE).time
  IN  {m \in [Scopes -> log \cup {None}] :
         /\ \A s \in Kept(m) : m[s] \in Newest(log, c, s)
         /\ Cardinality(Kept(m)) =
              IF Cardinality(found) < Capacity THEN Cardinality(found) ELSE Capacity
         /\ \A s \in Kept(m), o \in found \ Kept(m) : time(s) >= time(o)}

\* The process ends and New recovers what the log has for the configuration:
\* records were not queued when there was no room, or were not written yet.
Restart(c) ==
  /\ commits < MaxCommits
  /\ commits' = commits + 1
  /\ published' = c /\ announced' = c /\ commit' = None
  /\ \E log \in SUBSET heard : latest' \in Recovered(log, c)
  /\ accepted' = {latest'[s] : s \in Kept(latest')}
  /\ request' = [h \in Handlers |-> Free]
  /\ probe' = Unasked /\ ready' = FALSE /\ status' = None
  /\ UNCHANGED <<now, heard>>

-----------------------------------------------------------------------------
(* The probe.                                                              *)

Fresh(e) == probe.at - e.time <= Freshness

Routed == {r \in Routes : probe.config[r] # None}

ScopesOf(r) == {s \in Scopes : RouteOf[s] = r}

Seen(r) == {s \in ScopesOf(r) : probe.seen[s] # None}

\* routeHealthSnapshot: a target by the fresh records in its scopes.
TargetState(r, t, down) ==
  LET scopes == {s \in ScopesOf(r) : TargetOf[s] = t}
      rows == {s \in scopes \cap Seen(r) : Fresh(probe.seen[s])}
  IN  IF scopes \subseteq down THEN "off"
      ELSE IF rows = {} THEN "unknown"
      ELSE IF \A s \in rows : probe.seen[s].ok /\ s \notin down THEN "ready"
      ELSE "degraded"

\* The record observed last, fresh or not, has failed.
LatestFailed(r) ==
  \E s \in Seen(r) :
    ~probe.seen[s].ok /\ \A o \in Seen(r) : probe.seen[o].time <= probe.seen[s].time

RouteState(r, down) ==
  LET states == {TargetState(r, TargetOf[s], down) : s \in ScopesOf(r)} IN
  IF states \subseteq {"off"} THEN "unavailable"
  ELSE IF "degraded" \in states THEN "degraded"
  ELSE IF "off" \in states THEN "degraded"
  ELSE IF "ready" \in states /\ LatestFailed(r) THEN "degraded"
  ELSE IF "ready" \in states THEN "ready"
  ELSE "unknown"

\* overallHealth.
Overall(down) ==
  LET states == {RouteState(r, down) : r \in Routed} IN
  IF "unavailable" \in states THEN "unavailable"
  ELSE IF "degraded" \in states THEN "degraded"
  ELSE IF "unknown" \in states \/ states = {} THEN "unknown"
  ELSE "ready"

\* serveReadiness looks at the records of the state it loaded only.
Observed(r) == {s \in Seen(r) : probe.seen[s].fingerprint = probe.config[r]}

Unavailable(down) == {r \in Routed : ScopesOf(r) \subseteq down}

Stale == {r \in Routed : Observed(r) # {} /\ \A s \in Observed(r) : ~Fresh(probe.seen[s])}

Failed == {r \in Routed : \E s \in Observed(r) : Fresh(probe.seen[s]) /\ ~probe.seen[s].ok}

Unobserved == {r \in Routed : Observed(r) = {}}

\* What if routes without observations were left to the general health?
StatusOverall(before, after) ==
  IF Unavailable(after) # {} THEN "unavailable"
  ELSE IF Stale \cup Failed # {} THEN "degraded"
  ELSE Overall(before)

Status(before, after) ==
  IF Unavailable(after) # {} THEN "unavailable"
  ELSE IF Stale \cup Failed # {} THEN "degraded"
  ELSE IF Unobserved # {} THEN "unknown"
  ELSE Overall(before)

ProbeBegins ==
  /\ probe.stage = "idle"
  /\ probe' = [Unasked EXCEPT !.stage = "stats", !.at = now, !.config = published]
  /\ UNCHANGED <<now, routes, evidence, request, ready, status>>

ProbeReadsStats ==
  /\ probe.stage = "stats"
  /\ probe' = [probe EXCEPT !.stage = "judge", !.seen = latest]
  /\ UNCHANGED <<now, routes, evidence, request, ready, status>>

\* The circuits are read for the snapshot of the accounts and, later, for each
\* route.  503 is answered for routes that are unavailable, stale or failed.
ProbeAnswers ==
  /\ probe.stage = "judge"
  /\ probe' = Unasked
  /\ \E before, after \in Circuits :
       /\ status' = Status(before, after)
       /\ ready' = (Unavailable(after) \cup Stale \cup Failed = {})
  /\ UNCHANGED <<now, routes, evidence, request>>

Probe == ProbeBegins \/ ProbeReadsStats \/ ProbeAnswers

Next ==
  \/ Tick \/ Publish \/ Probe
  \/ \E c \in Configs : Announce(c) \/ Restart(c)
  \/ \E h \in Handlers :
       \/ \E s \in Scopes : Send(h, s)
       \/ End(h) \/ EndSilently(h) \/ Report(h)

Spec == Init /\ [][Next]_vars

-----------------------------------------------------------------------------
TypeOK ==
  /\ now \in 0..MaxTime
  /\ published \in Configs /\ announced \in Configs /\ commit \in Configs \cup {None}
  /\ latest \in [Scopes -> Records \cup {None}]
  /\ request \in [Handlers -> [stage : {"idle", "flight", "ended"}, record : Records \cup {None}]]
  /\ probe \in [stage : {"idle", "stats", "judge"}, at : 0..MaxTime,
                config : Configs \cup {None}, seen : [Scopes -> Records \cup {None}]]
  /\ ready \in BOOLEAN
  /\ status \in {None, "unavailable", "degraded", "unknown", "ready"}
  /\ accepted \in SUBSET Records /\ heard \in SUBSET Records
  /\ commits \in Nat

\* In whatever order requests report: the newest record of a scope is kept, and
\* it gives way to newer records of other scopes only.
NewestKept ==
  \A e \in accepted :
    IF e.scope \in Kept(latest) THEN latest[e.scope].time >= e.time
    ELSE /\ Cardinality(Kept(latest)) = Capacity
         /\ \A s \in Kept(latest) : latest[s].time >= e.time

\* stats.go:205: a request that was pinned to an earlier state cannot bring back
\* evidence for a route that was replaced, however late it ends; what is kept is
\* the newest evidence of the routes being published.
EvidenceIsCurrent ==
  /\ TypeOK
  /\ NewestKept
  /\ \A s \in Kept(latest) : Current(announced, latest[s])
  /\ commit = None => announced = published

\* "ready" is proven, and goes with 200: each route of the state that the probe
\* loaded has had a fresh success, with exactly that route, whatever was
\* committed meanwhile.
ReadyIsProven ==
  [][probe.stage = "judge" /\ status' = "ready" /\ probe' = Unasked =>
       /\ ready'
       /\ \A r \in Routed : \E e \in heard :
            RouteOf[e.scope] = r /\ e.fingerprint = probe.config[r] /\ e.ok /\ Fresh(e)]_vars
=============================================================================
