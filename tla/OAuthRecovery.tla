--------------------------- MODULE OAuthRecovery ---------------------------
(***************************************************************************)
(* Refreshing credentials after a 401 (internal/gateway/oauthrecovery.go): *)
(* requests that meet the same rejected credential share one refresh, led  *)
(* by the first of them, and its result is remembered for a while.         *)
(*                                                                         *)
(* The coordinator's mutex makes entering and recording one step each; the *)
(* refresh itself, the clock and the clients run between them.  A call is  *)
(* an object its followers keep waiting on even when the coordinator has   *)
(* forgotten it.                                                           *)
(***************************************************************************)
EXTENDS Integers, FiniteSets

CONSTANTS
  Handlers,     \* requests whose upstream answered 401
  Credentials,  \* what is refreshed: management endpoint, its key, credential
  MaxCalls,     \* calls the coordinator remembers at most (128 in the code)
  Memory,       \* how long a result is remembered (one minute)
  MaxTime,      \* bound of the clock
  MaxLed,       \* bound of calls begun
  None          \* no call, no expiry, no result

ASSUME RecoveryAssumption ==
  /\ IsFiniteSet(Handlers)
  /\ MaxCalls \in Nat \ {0} /\ Memory \in Nat /\ MaxTime \in Nat /\ MaxLed \in Nat
  /\ None \notin Nat \cup Credentials

Calls == 1..MaxLed

VARIABLES
  now,      \* the clock
  entry,    \* oauthRecoveryCoordinator.calls: the call of each credential
  call,     \* every call: [credential, ok, expires]; it is done once it expires
  led,      \* calls begun
  handler,  \* what every request is doing
  good,     \* history: when a refresh of each credential last succeeded
  kept      \* history: when a result was last recorded for a leader still there

vars == <<now, entry, call, led, handler, good, kept>>

Idle == [stage |-> "idle", credential |-> None, call |-> None, gone |-> FALSE,
         ok |-> FALSE, entered |-> 0]

Unborn == [credential |-> None, ok |-> FALSE, expires |-> None]

Done(i) == call[i].expires # None

\* What if a call that has no expiry yet were taken for an expired one?
SweepUnfinished ==
  [c \in Credentials |->
     IF entry[c] # None /\ (~Done(entry[c]) \/ now > call[entry[c]].expires)
     THEN None ELSE entry[c]]

\* The calls that are not forgotten yet.
Sweep ==
  [c \in Credentials |->
     IF entry[c] # None /\ Done(entry[c]) /\ now > call[entry[c]].expires
     THEN None ELSE entry[c]]

Remembered(e) == {c \in Credentials : e[c] # None}

Leading(c) == {h \in Handlers : handler[h].stage \in {"refresh", "record"}
                                  /\ handler[h].credential = c}

-----------------------------------------------------------------------------
Init ==
  /\ now = 0
  /\ entry = [c \in Credentials |-> None]
  /\ call = [i \in Calls |-> Unborn]
  /\ led = 0
  /\ handler = [h \in Handlers |-> Idle]
  /\ good = [c \in Credentials |-> None]
  /\ kept = [c \in Credentials |-> None]

\* A trusted account answered 401 with this credential.
Ask(h, c) ==
  /\ handler[h].stage = "idle"
  /\ handler' = [handler EXCEPT ![h] = [Idle EXCEPT !.stage = "ask", !.credential = c]]
  /\ UNCHANGED <<now, entry, call, led, good, kept>>

\* The context of the request ends.
ClientLeaves(h) ==
  /\ handler[h].stage \in {"ask", "follow", "refresh", "record"}
  /\ handler' = [handler EXCEPT ![h].gone = TRUE]
  /\ UNCHANGED <<now, entry, call, led, good, kept>>

\* The coordinator's answer: submit once more, or pass the 401 on.
Answer(h, ok) ==
  handler' = [handler EXCEPT ![h] =
    IF ok THEN [Idle EXCEPT !.stage = "resend", !.credential = handler[h].credential,
                            !.entered = handler[h].entered]
          ELSE [Idle EXCEPT !.stage = "refused"]]

\* There is a call for the credential: under way, or remembered.
Follow(h) ==
  LET c == handler[h].credential IN
  /\ handler[h].stage = "ask"
  /\ entry' = Sweep
  /\ Sweep[c] # None
  /\ handler' = [handler EXCEPT ![h].stage = "follow", ![h].call = Sweep[c], ![h].entered = now]
  /\ UNCHANGED <<now, call, led, good, kept>>

\* Too many calls, or nobody to refresh for.
Decline(h) ==
  LET c == handler[h].credential IN
  /\ handler[h].stage = "ask"
  /\ entry' = Sweep
  /\ Sweep[c] = None
  /\ Cardinality(Remembered(Sweep)) >= MaxCalls \/ handler[h].gone
  /\ Answer(h, FALSE)
  /\ UNCHANGED <<now, call, led, good, kept>>

\* The request leads a refresh.
Lead(h) ==
  LET c == handler[h].credential IN
  /\ handler[h].stage = "ask"
  /\ Sweep[c] = None
  /\ Cardinality(Remembered(Sweep)) < MaxCalls
  /\ ~handler[h].gone
  /\ led < MaxLed
  /\ led' = led + 1
  /\ entry' = [Sweep EXCEPT ![c] = led']
  /\ call' = [call EXCEPT ![led'] = [Unborn EXCEPT !.credential = c]]
  /\ handler' = [handler EXCEPT ![h].stage = "refresh", ![h].call = led', ![h].entered = now]
  /\ UNCHANGED <<now, good, kept>>

\* refreshOAuthCredential returns: the adapter refreshed exactly this
\* credential, or it did not, or the time limit or the client cut it short.
RefreshEnds(h, ok) ==
  /\ handler[h].stage = "refresh"
  /\ handler' = [handler EXCEPT ![h].stage = "record", ![h].ok = ok]
  /\ UNCHANGED <<now, entry, call, led, good, kept>>

\* What if only success were remembered?
RecordSuccess(h) ==
  LET i == handler[h].call
      c == handler[h].credential
      ok == handler[h].ok
  IN  /\ handler[h].stage = "record"
      /\ call' = [call EXCEPT ![i].ok = ok, ![i].expires = now + Memory]
      /\ entry' = IF handler[h].gone \/ ~ok THEN [entry EXCEPT ![c] = None] ELSE entry
      /\ good' = IF ok THEN [good EXCEPT ![c] = now] ELSE good
      /\ kept' = IF handler[h].gone THEN kept ELSE [kept EXCEPT ![c] = now]
      /\ \E left \in {handler[h].gone, TRUE} : Answer(h, ok /\ ~left)
      /\ UNCHANGED <<now, led>>

\* What if a leader that was left just went away?
RecordIfPresent(h) ==
  LET i == handler[h].call
      c == handler[h].credential
      ok == handler[h].ok
  IN  /\ handler[h].stage = "record"
      /\ call' = IF handler[h].gone THEN call
                 ELSE [call EXCEPT ![i].ok = ok, ![i].expires = now + Memory]
      /\ entry' = IF handler[h].gone THEN [entry EXCEPT ![c] = None] ELSE entry
      /\ good' = IF ok THEN [good EXCEPT ![c] = now] ELSE good
      /\ kept' = IF handler[h].gone THEN kept ELSE [kept EXCEPT ![c] = now]
      /\ \E left \in {handler[h].gone, TRUE} : Answer(h, ok /\ ~left)
      /\ UNCHANGED <<now, led>>

\* The result is recorded and the followers released.  A leader that was left
\* meanwhile proves nothing about the credential: the call is forgotten.  The
\* answer is read after that, so it may see a client that left in between.
Record(h) ==
  LET i == handler[h].call
      c == handler[h].credential
      ok == handler[h].ok
  IN  /\ handler[h].stage = "record"
      /\ call' = [call EXCEPT ![i].ok = ok, ![i].expires = now + Memory]
      /\ entry' = IF handler[h].gone THEN [entry EXCEPT ![c] = None] ELSE entry
      /\ good' = IF ok THEN [good EXCEPT ![c] = now] ELSE good
      /\ kept' = IF handler[h].gone THEN kept ELSE [kept EXCEPT ![c] = now]
      /\ \E left \in {handler[h].gone, TRUE} : Answer(h, ok /\ ~left)
      /\ UNCHANGED <<now, led>>

\* The call the request waited for is done, or the client has left.
Learn(h) ==
  /\ handler[h].stage = "follow"
  /\ \/ Done(handler[h].call) /\ Answer(h, call[handler[h].call].ok /\ ~handler[h].gone)
     \/ handler[h].gone /\ Answer(h, FALSE)
  /\ UNCHANGED <<now, entry, call, led, good, kept>>

\* The attempt goes on with the answer.
Proceed(h) ==
  /\ handler[h].stage \in {"resend", "refused"}
  /\ handler' = [handler EXCEPT ![h] = Idle]
  /\ UNCHANGED <<now, entry, call, led, good, kept>>

Tick ==
  /\ now < MaxTime
  /\ now' = now + 1
  /\ UNCHANGED <<entry, call, led, handler, good, kept>>

Coordinate(h) ==
  \/ Follow(h) \/ Decline(h) \/ Lead(h) \/ Record(h) \/ Learn(h)
  \/ \E ok \in BOOLEAN : RefreshEnds(h, ok)

Next ==
  \/ Tick
  \/ \E h \in Handlers :
       \/ \E c \in Credentials : Ask(h, c)
       \/ ClientLeaves(h) \/ Coordinate(h) \/ Proceed(h)

Spec == Init /\ [][Next]_vars

\* Handlers run, and a refresh ends: it has a time limit of 12 seconds.
FairSpec == Spec /\ \A h \in Handlers : WF_vars(Coordinate(h))

-----------------------------------------------------------------------------
Stages == {"idle", "ask", "follow", "refresh", "record", "resend", "refused"}

TypeOK ==
  /\ now \in Nat
  /\ entry \in [Credentials -> Calls \cup {None}]
  /\ Cardinality(Remembered(entry)) <= MaxCalls
  /\ call \in [Calls -> [credential : Credentials \cup {None}, ok : BOOLEAN,
                         expires : Nat \cup {None}]]
  /\ led \in 0..MaxLed
  /\ handler \in [Handlers -> [stage : Stages, credential : Credentials \cup {None},
                               call : Calls \cup {None}, gone : BOOLEAN, ok : BOOLEAN,
                               entered : Nat]]
  /\ good \in [Credentials -> Nat \cup {None}]
  /\ kept \in [Credentials -> Nat \cup {None}]

\* A credential is refreshed by one request at a time, however many are told
\* 401 and whoever leaves: a refresh may invalidate the token another one uses.
Coalesced ==
  \A c \in Credentials : \A g, h \in Leading(c) : g = h

\* A request is submitted again only after a refresh of its own credential has
\* succeeded, not longer ago than the coordinator remembers.
FreshEvidence ==
  \A h \in Handlers :
    LET c == handler[h].credential IN
    handler[h].stage = "resend" => good[c] # None /\ good[c] + Memory >= handler[h].entered

\* Requests share what is known of a credential: one refreshes it at a time, and
\* the others use its result only while it is fresh.
CallsShared == TypeOK /\ Coalesced /\ FreshEvidence

\* A credential is not refreshed again while a result is remembered, above all
\* not one that cannot be refreshed.
BackedOff ==
  \A h \in Handlers :
    LET c == handler[h].credential IN
    handler[h].stage = "ask" /\ handler'[h].stage = "refresh"
      => kept[c] = None \/ now > kept[c] + Memory

Throttled == [][BackedOff]_vars

\* Every request that asks is answered, also when its leader's client leaves.
EveryoneAnswered ==
  \A h \in Handlers :
    handler[h].stage = "follow" ~> handler[h].stage \in {"resend", "refused"}
=============================================================================
