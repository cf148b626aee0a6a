------------------------ MODULE OAuthRecovery_proofs ------------------------
(***************************************************************************)
(* Proofs about OAuthRecovery for every number of requests, credentials    *)
(* (finite or not), calls remembered and calls begun, and every memory;    *)
(* and after them about AccountChanges, the jobs that change credentials   *)
(* and the configuration together, for every set of files, accounts and    *)
(* models, every list of files to import and every number of events: that  *)
(* jobs are whole, then what the operations on settings keep, and from it  *)
(* what a configuration may claim to have been verified.                   *)
(***************************************************************************)
EXTENDS OAuthRecovery, AccountChanges, FiniteSetTheorems, SequenceTheorems, TLAPS

-----------------------------------------------------------------------------
(* The inductive invariant.                                                *)

Leaders == {"refresh", "record"}

\* What a request relies on.  A follower waits on a call of its credential that
\* was under way, or not yet expired, when it entered; a leader's call is not
\* done, and it is the one the coordinator has for the credential.
HandlerOK(h) ==
  /\ handler[h].stage \in {"ask", "follow", "refresh", "record", "resend"} =>
       handler[h].credential \in Credentials
  /\ handler[h].entered <= now
  /\ handler[h].stage \in {"follow", "refresh", "record"} =>
       /\ handler[h].call \in 1..led
       /\ call[handler[h].call].credential = handler[h].credential
  /\ handler[h].stage = "follow" /\ Done(handler[h].call) =>
       call[handler[h].call].expires >= handler[h].entered
  /\ handler[h].stage \in Leaders =>
       /\ entry[handler[h].credential] = handler[h].call
       /\ ~Done(handler[h].call)

HandlerInv == \A h \in Handlers : HandlerOK(h)

\* A success that a call reports is not older than the call's memory of it.
CallInv ==
  /\ \A i \in Calls : i > led => ~Done(i)
  /\ \A i \in 1..led : call[i].credential \in Credentials
  /\ \A i \in Calls : Done(i) /\ call[i].ok =>
       /\ good[call[i].credential] # None
       /\ good[call[i].credential] + Memory >= call[i].expires

\* The coordinator has a call of the credential it has it for.
EntryInv ==
  \A c \in Credentials : entry[c] # None =>
    entry[c] \in 1..led /\ call[entry[c]].credential = c

GoodInv == \A c \in Credentials : good[c] # None => good[c] <= now

\* While a result is kept, the coordinator has a finished call for it.
KeptInv ==
  \A c \in Credentials : kept[c] # None /\ now <= kept[c] + Memory =>
    /\ entry[c] # None
    /\ Done(entry[c])
    /\ call[entry[c]].expires >= kept[c] + Memory

IInv ==
  /\ TypeOK /\ IsFiniteSet(Remembered(entry))
  /\ HandlerInv /\ CallInv /\ EntryInv /\ GoodInv /\ KeptInv
  /\ Coalesced /\ FreshEvidence

HandlerStates ==
  [stage : Stages, credential : Credentials \cup {None}, call : Calls \cup {None},
   gone : BOOLEAN, ok : BOOLEAN, entered : Nat]

\* FreshEvidence of one request.
Fresh(h) ==
  LET c == handler[h].credential IN
  handler[h].stage = "resend" => good[c] # None /\ good[c] + Memory >= handler[h].entered

-----------------------------------------------------------------------------
(* Lemmas about the parts.                                                 *)

\* The calls begun are calls, and no call is the sentinel.
LEMMA CallNumbers ==
  ASSUME TypeOK
  PROVE  led \in Nat /\ 1..led \subseteq Calls /\ Calls \subseteq Nat /\ None \notin Calls
  BY RecoveryAssumption DEF TypeOK, Calls

\* A call that is done has a time it is remembered until.
LEMMA DoneType ==
  ASSUME TypeOK, NEW i \in Calls
  PROVE  Done(i) <=> call[i].expires \in Nat
  BY RecoveryAssumption DEF TypeOK, Done

\* Sweeping forgets the calls that are done and expired, and no other.
LEMMA SweepForgets ==
  ASSUME IInv
  PROVE  /\ Sweep \in [Credentials -> Calls \cup {None}]
         /\ \A c \in Credentials : Sweep[c] # None =>
              /\ Sweep[c] = entry[c]
              /\ Done(entry[c]) => now <= call[entry[c]].expires
         /\ \A c \in Credentials : Sweep[c] = None =>
              entry[c] = None \/ (Done(entry[c]) /\ now > call[entry[c]].expires)
         /\ Remembered(Sweep) \subseteq Remembered(entry)
         /\ IsFiniteSet(Remembered(Sweep))
         /\ Cardinality(Remembered(Sweep)) \in Nat
         /\ Cardinality(Remembered(Sweep)) <= MaxCalls
<1>1. Sweep \in [Credentials -> Calls \cup {None}]
  BY DEF IInv, TypeOK, Sweep
<1>2. \A c \in Credentials : Sweep[c] # None =>
        /\ Sweep[c] = entry[c]
        /\ Done(entry[c]) => now <= call[entry[c]].expires
  <2> SUFFICES ASSUME NEW c \in Credentials, Sweep[c] # None
               PROVE  /\ Sweep[c] = entry[c]
                      /\ Done(entry[c]) => now <= call[entry[c]].expires
    OBVIOUS
  <2>1. /\ Sweep[c] = entry[c]
        /\ Done(entry[c]) => ~(now > call[entry[c]].expires)
    BY DEF Sweep
  <2>2. Done(entry[c]) => call[entry[c]].expires \in Nat /\ now \in Nat
    BY <2>1, DoneType DEF IInv, TypeOK
  <2>3. QED
    BY <2>1, <2>2
<1>3. \A c \in Credentials : Sweep[c] = None =>
        entry[c] = None \/ (Done(entry[c]) /\ now > call[entry[c]].expires)
  BY DEF Sweep
<1>4. Remembered(Sweep) \subseteq Remembered(entry)
  BY <1>2 DEF Remembered
<1>5. /\ IsFiniteSet(Remembered(Sweep))
      /\ Cardinality(Remembered(Sweep)) <= Cardinality(Remembered(entry))
      /\ Cardinality(Remembered(Sweep)) \in Nat
      /\ Cardinality(Remembered(entry)) \in Nat
  BY <1>4, FS_Subset, FS_CardinalityType DEF IInv
<1>6. Cardinality(Remembered(entry)) <= MaxCalls /\ MaxCalls \in Nat
  BY RecoveryAssumption DEF IInv, TypeOK
<1>7. QED
  BY <1>1, <1>2, <1>3, <1>4, <1>5, <1>6

\* Two leaders have different credentials and different calls.
LEMMA LeadersDiffer ==
  ASSUME IInv, NEW g \in Handlers, NEW h \in Handlers, g # h,
         handler[g].stage \in Leaders, handler[h].stage \in Leaders
  PROVE  handler[g].credential # handler[h].credential /\ handler[g].call # handler[h].call
<1>1. handler[g].credential \in Credentials /\ handler[h].credential \in Credentials
  BY DEF IInv, HandlerInv, HandlerOK, Leaders
<1>2. handler[g].credential # handler[h].credential
  BY <1>1 DEF IInv, Coalesced, Leading, Leaders
<1>3. /\ call[handler[g].call].credential = handler[g].credential
      /\ call[handler[h].call].credential = handler[h].credential
  BY DEF IInv, HandlerInv, HandlerOK, Leaders
<1>4. QED
  BY <1>2, <1>3

\* Nobody is told to submit again without a credential and a recent success.
LEMMA FreshEach == FreshEvidence <=> \A h \in Handlers : Fresh(h)
  BY DEF FreshEvidence, Fresh

-----------------------------------------------------------------------------
(* Every action preserves the invariant.                                   *)

\* At first nothing is remembered and nobody asks.
LEMMA InitInv == Init => IInv
<1> SUFFICES ASSUME Init PROVE IInv
  OBVIOUS
<1>1. Remembered(entry) = {}
  BY DEF Init, Remembered
<1>2. IsFiniteSet(Remembered(entry)) /\ Cardinality(Remembered(entry)) = 0
  BY <1>1, FS_EmptySet
<1>3. TypeOK
  <2>1. Cardinality(Remembered(entry)) <= MaxCalls
    BY <1>2, RecoveryAssumption
  <2>2. led \in 0..MaxLed
    BY RecoveryAssumption DEF Init
  <2>3. QED
    BY <2>1, <2>2 DEF Init, TypeOK, Unborn, Idle, Stages
<1>4. HandlerInv /\ FreshEvidence /\ Coalesced
  BY DEF Init, Idle, HandlerInv, HandlerOK, Leaders, FreshEvidence, Coalesced, Leading
<1>5. CallInv
  <2>1. \A i \in Calls : ~Done(i)
    BY DEF Init, Unborn, Done
  <2>2. 1..led = {}
    BY DEF Init
  <2>3. QED
    BY <2>1, <2>2 DEF CallInv
<1>6. EntryInv /\ GoodInv /\ KeptInv
  BY DEF Init, EntryInv, GoodInv, KeptInv
<1>7. QED
  BY <1>2, <1>3, <1>4, <1>5, <1>6 DEF IInv

\* A request that moves by itself has to respect only what is said of itself.
LEMMA HandlerMoves ==
  ASSUME IInv, NEW h \in Handlers, NEW r \in HandlerStates,
         handler' = [handler EXCEPT ![h] = r],
         UNCHANGED <<now, entry, call, led, good, kept>>,
         r.stage \in Leaders =>
           handler[h].stage \in Leaders /\ r.credential = handler[h].credential,
         HandlerOK(h)', Fresh(h)'
  PROVE  IInv'
<1>1. handler'[h] = r /\ \A g \in Handlers : g # h => handler'[g] = handler[g]
  BY DEF IInv, TypeOK
<1>2. TypeOK'
  BY DEF IInv, TypeOK, HandlerStates, Remembered
<1>3. IsFiniteSet(Remembered(entry))'
  BY DEF IInv, Remembered
<1>4. HandlerInv'
  BY <1>1 DEF IInv, HandlerInv, HandlerOK, Done
<1>5. CallInv' /\ EntryInv' /\ GoodInv' /\ KeptInv'
  BY DEF IInv, CallInv, EntryInv, GoodInv, KeptInv, Done
<1>6. Coalesced'
  BY <1>1 DEF IInv, Coalesced, Leading, Leaders
<1>7. FreshEvidence'
  BY <1>1, FreshEach DEF IInv, FreshEvidence, Fresh
<1>8. QED
  BY <1>2, <1>3, <1>4, <1>5, <1>6, <1>7 DEF IInv

\* What the coordinator answers a request.
LEMMA AnswerShape ==
  ASSUME TypeOK, NEW h \in Handlers, NEW ok \in BOOLEAN, Answer(h, ok)
  PROVE  \E r \in HandlerStates :
           /\ handler' = [handler EXCEPT ![h] = r]
           /\ r.stage = IF ok THEN "resend" ELSE "refused"
           /\ ok => r.credential = handler[h].credential /\ r.entered = handler[h].entered
           /\ ~ok => r.entered = 0
<1>1. CASE ok
  <2> DEFINE r == [Idle EXCEPT !.stage = "resend", !.credential = handler[h].credential,
                               !.entered = handler[h].entered]
  <2>1. r \in HandlerStates
    BY DEF TypeOK, HandlerStates, Idle, Stages
  <2>2. handler' = [handler EXCEPT ![h] = r]
    BY <1>1 DEF Answer
  <2>3. r.stage = "resend" /\ r.credential = handler[h].credential
        /\ r.entered = handler[h].entered
    BY DEF Idle
  <2>4. QED
    BY <1>1, <2>1, <2>2, <2>3
<1>2. CASE ~ok
  <2> DEFINE r == [Idle EXCEPT !.stage = "refused"]
  <2>1. r \in HandlerStates
    BY DEF HandlerStates, Idle, Stages
  <2>2. handler' = [handler EXCEPT ![h] = r]
    BY <1>2 DEF Answer
  <2>3. r.stage = "refused" /\ r.entered = 0
    BY DEF Idle
  <2>4. QED
    BY <1>2, <2>1, <2>2, <2>3
<1>3. QED
  BY <1>1, <1>2

\* A request asks, loses its client, sees its refresh end, or goes on.
LEMMA AloneInv ==
  ASSUME IInv, NEW h \in Handlers,
         \/ \E c \in Credentials : Ask(h, c)
         \/ ClientLeaves(h)
         \/ \E ok \in BOOLEAN : RefreshEnds(h, ok)
         \/ Proceed(h)
  PROVE  IInv'
<1>0. handler[h] \in HandlerStates /\ now \in Nat
  BY DEF IInv, TypeOK, HandlerStates
<1>1. ASSUME NEW c \in Credentials, Ask(h, c) PROVE IInv'
  <2> DEFINE r == [Idle EXCEPT !.stage = "ask", !.credential = c]
  <2>1. r \in HandlerStates /\ r.stage = "ask" /\ r.credential = c /\ r.entered = 0
    BY DEF Idle, HandlerStates, Stages
  <2>2. handler' = [handler EXCEPT ![h] = r] /\ handler'[h] = r
    BY <1>1 DEF Ask, IInv, TypeOK
  <2>3. UNCHANGED <<now, entry, call, led, good, kept>>
    BY <1>1 DEF Ask
  <2>4. HandlerOK(h)' /\ Fresh(h)'
    <3>1. handler'[h].stage = "ask" /\ handler'[h].credential \in Credentials
          /\ handler'[h].entered <= now'
      <4> HIDE DEF r
      <4>1. now' \in Nat
        BY <1>0, <2>3
      <4>2. QED
        BY <2>1, <2>2, <4>1
    <3>2. QED
      BY <3>1 DEF HandlerOK, Fresh, Leaders
  <2>5. QED
    BY <2>1, <2>2, <2>3, <2>4, HandlerMoves DEF Leaders
<1>2. CASE ClientLeaves(h)
  <2> DEFINE r == [handler[h] EXCEPT !.gone = TRUE]
  <2>1. /\ r \in HandlerStates
        /\ r.stage = handler[h].stage /\ r.credential = handler[h].credential
        /\ r.entered = handler[h].entered /\ r.call = handler[h].call
    BY <1>0 DEF HandlerStates
  <2>2. handler' = [handler EXCEPT ![h] = r] /\ handler'[h] = r
    BY <1>2 DEF ClientLeaves, IInv, TypeOK
  <2>3. UNCHANGED <<now, entry, call, led, good, kept>>
    BY <1>2 DEF ClientLeaves
  <2>4. HandlerOK(h)' /\ Fresh(h)'
    BY <2>1, <2>2, <2>3, FreshEach DEF IInv, HandlerInv, HandlerOK, Fresh, Done
  <2>5. QED
    BY <2>1, <2>2, <2>3, <2>4, HandlerMoves
<1>3. ASSUME NEW ok \in BOOLEAN, RefreshEnds(h, ok) PROVE IInv'
  <2> DEFINE r == [handler[h] EXCEPT !.stage = "record", !.ok = ok]
  <2>1. /\ r \in HandlerStates
        /\ r.stage = "record" /\ r.credential = handler[h].credential
        /\ r.entered = handler[h].entered /\ r.call = handler[h].call
    BY <1>0 DEF HandlerStates, Stages
  <2>2. handler' = [handler EXCEPT ![h] = r] /\ handler'[h] = r
    BY <1>3 DEF RefreshEnds, IInv, TypeOK
  <2>3. UNCHANGED <<now, entry, call, led, good, kept>> /\ handler[h].stage = "refresh"
    BY <1>3 DEF RefreshEnds
  <2>4. HandlerOK(h)' /\ Fresh(h)'
    BY <2>1, <2>2, <2>3 DEF IInv, HandlerInv, HandlerOK, Leaders, Fresh, Done
  <2>5. QED
    BY <2>1, <2>2, <2>3, <2>4, HandlerMoves DEF Leaders
<1>4. CASE Proceed(h)
  <2>1. Idle \in HandlerStates /\ Idle.stage = "idle" /\ Idle.entered = 0
    BY DEF Idle, HandlerStates, Stages
  <2>2. handler' = [handler EXCEPT ![h] = Idle] /\ handler'[h] = Idle
    BY <1>4 DEF Proceed, IInv, TypeOK
  <2>3. UNCHANGED <<now, entry, call, led, good, kept>>
    BY <1>4 DEF Proceed
  <2>4. HandlerOK(h)' /\ Fresh(h)'
    BY <1>0, <2>1, <2>2, <2>3 DEF HandlerOK, Leaders, Fresh
  <2>5. QED
    BY <2>1, <2>2, <2>3, <2>4, HandlerMoves DEF Leaders
<1>5. QED
  BY <1>1, <1>2, <1>3, <1>4

\* A follower is told what the call it waited on found, in time.
LEMMA LearnInv ==
  ASSUME IInv, NEW h \in Handlers, Learn(h)
  PROVE  IInv'
<1> DEFINE i == handler[h].call
           c == handler[h].credential
<1>1. /\ c \in Credentials /\ i \in Calls /\ call[i].credential = c
      /\ Done(i) => call[i].expires >= handler[h].entered
  BY CallNumbers DEF IInv, HandlerInv, HandlerOK, Learn
<1>2. handler[h].entered \in Nat /\ now \in Nat /\ Memory \in Nat
      /\ good[c] \in Nat \cup {None} /\ call[i].ok \in BOOLEAN
      /\ handler[h].gone \in BOOLEAN /\ handler[h].stage = "follow"
  BY <1>1, RecoveryAssumption DEF IInv, TypeOK, Learn
<1>3. PICK ok \in BOOLEAN : Answer(h, ok) /\ (ok => Done(i) /\ call[i].ok)
  BY <1>2 DEF Learn
<1>4. PICK r \in HandlerStates :
        /\ handler' = [handler EXCEPT ![h] = r]
        /\ r.stage = IF ok THEN "resend" ELSE "refused"
        /\ ok => r.credential = handler[h].credential /\ r.entered = handler[h].entered
        /\ ~ok => r.entered = 0
  BY <1>3, AnswerShape DEF IInv
<1>5. handler'[h] = r
  BY <1>4 DEF IInv, TypeOK
<1>6. UNCHANGED <<now, entry, call, led, good, kept>>
  BY DEF Learn
<1>7. handler[h].entered <= now
  BY DEF IInv, HandlerInv, HandlerOK
<1>8. HandlerOK(h)'
  BY <1>1, <1>2, <1>4, <1>5, <1>6, <1>7 DEF HandlerOK, Leaders
<1>9. Fresh(h)'
  <2>1. CASE ok
    <3>1. Done(i) /\ call[i].ok
      BY <1>3, <2>1
    <3>2. good[c] # None /\ good[c] + Memory >= call[i].expires
      BY <1>1, <3>1 DEF IInv, CallInv
    <3>3. call[i].expires \in Nat
      BY <1>1, <3>1, DoneType DEF IInv
    <3>4. good[c] + Memory >= handler[h].entered
      BY <1>1, <1>2, <3>1, <3>2, <3>3
    <3>5. QED
      BY <1>4, <1>5, <1>6, <2>1, <3>2, <3>4 DEF Fresh
  <2>2. CASE ~ok
    BY <1>4, <1>5, <2>2 DEF Fresh
  <2>3. QED
    BY <2>1, <2>2
<1>10. r.stage \notin Leaders
  BY <1>4 DEF Leaders
<1>11. QED
  BY <1>4, <1>6, <1>8, <1>9, <1>10, HandlerMoves

\* Sweeping alone leaves what is said of calls and of the other requests.
LEMMA SweepKeeps ==
  ASSUME IInv, NEW h \in Handlers, entry' = Sweep,
         UNCHANGED <<now, call, led, good, kept>>,
         \A g \in Handlers \ {h} : handler'[g] = handler[g]
  PROVE  /\ entry' \in [Credentials -> Calls \cup {None}]
         /\ IsFiniteSet(Remembered(entry')) /\ Cardinality(Remembered(entry')) <= MaxCalls
         /\ \A g \in Handlers \ {h} : HandlerOK(g)'
         /\ CallInv' /\ EntryInv' /\ GoodInv' /\ KeptInv'
<1>1. /\ entry' \in [Credentials -> Calls \cup {None}]
      /\ IsFiniteSet(Remembered(entry')) /\ Cardinality(Remembered(entry')) <= MaxCalls
  BY SweepForgets
<1>2. ASSUME NEW g \in Handlers \ {h} PROVE HandlerOK(g)'
  <2>1. HandlerOK(g)
    BY DEF IInv, HandlerInv
  <2>2. handler[g].stage \in Leaders =>
          entry'[handler[g].credential] = entry[handler[g].credential]
    <3>1. SUFFICES ASSUME handler[g].stage \in Leaders
                   PROVE  Sweep[handler[g].credential] = entry[handler[g].credential]
      OBVIOUS
    <3>2. /\ handler[g].credential \in Credentials
          /\ entry[handler[g].credential] = handler[g].call
          /\ ~Done(handler[g].call) /\ handler[g].call # None
      BY <2>1, <3>1, CallNumbers DEF HandlerOK, Leaders, IInv
    <3>3. QED
      BY <3>2, SweepForgets
  <2>3. QED
    BY <2>1, <2>2 DEF HandlerOK, Done
<1>3. CallInv' /\ GoodInv'
  BY DEF IInv, CallInv, GoodInv, Done
<1>4. EntryInv'
  BY SweepForgets DEF IInv, EntryInv
<1>5. KeptInv'
  <2> SUFFICES ASSUME NEW c \in Credentials, kept[c] # None, now <= kept[c] + Memory
               PROVE  Sweep[c] = entry[c]
    BY DEF IInv, KeptInv, Done
  <2>1. entry[c] # None /\ Done(entry[c]) /\ call[entry[c]].expires >= kept[c] + Memory
    BY DEF IInv, KeptInv
  <2>2. entry[c] \in Calls
    BY <2>1, CallNumbers DEF IInv, EntryInv
  <2>3. call[entry[c]].expires \in Nat /\ now \in Nat /\ kept[c] \in Nat /\ Memory \in Nat
    BY <2>1, <2>2, DoneType, RecoveryAssumption DEF IInv, TypeOK
  <2>4. ~(now > call[entry[c]].expires)
    BY <2>1, <2>3
  <2>5. QED
    BY <2>1, <2>4, SweepForgets
<1>6. QED
  BY <1>1, <1>2, <1>3, <1>4, <1>5

\* A request enters and follows a call that is under way or remembered.
LEMMA FollowInv ==
  ASSUME IInv, NEW h \in Handlers, Follow(h)
  PROVE  IInv'
<1> DEFINE c == handler[h].credential
           r == [handler[h] EXCEPT !.stage = "follow", !.call = Sweep[c], !.entered = now]
<1>1. c \in Credentials /\ handler[h].stage = "ask"
  BY DEF Follow, IInv, HandlerInv, HandlerOK
<1>2. Sweep[c] # None /\ Sweep[c] = entry[c] /\ entry[c] \in 1..led /\ Sweep[c] \in Calls
      /\ call[entry[c]].credential = c
      /\ (Done(entry[c]) => call[entry[c]].expires >= now)
  <2>1. Sweep[c] # None /\ Sweep[c] = entry[c]
        /\ (Done(entry[c]) => now <= call[entry[c]].expires)
    BY <1>1, SweepForgets DEF Follow
  <2>2. entry[c] \in 1..led /\ call[entry[c]].credential = c
    BY <1>1, <2>1 DEF IInv, EntryInv
  <2>3. entry[c] \in Calls
    BY <2>2, CallNumbers DEF IInv
  <2>4. Done(entry[c]) => call[entry[c]].expires \in Nat /\ now \in Nat
    BY <2>3, DoneType DEF IInv, TypeOK
  <2>5. QED
    BY <2>1, <2>2, <2>3, <2>4
<1>3. /\ r \in HandlerStates /\ r.stage = "follow" /\ r.call = entry[c]
      /\ r.entered = now /\ r.credential = c
  BY <1>2, ZenonT(40) DEF IInv, TypeOK, HandlerStates, Stages
<1>4. handler' = [handler EXCEPT ![h] = r]
  BY DEF Follow
<1>5. handler'[h] = r /\ \A g \in Handlers \ {h} : handler'[g] = handler[g]
  BY <1>4 DEF IInv, TypeOK
<1>6. entry' = Sweep /\ UNCHANGED <<now, call, led, good, kept>>
  BY DEF Follow
<1>7. /\ entry' \in [Credentials -> Calls \cup {None}]
      /\ IsFiniteSet(Remembered(entry')) /\ Cardinality(Remembered(entry')) <= MaxCalls
      /\ \A g \in Handlers \ {h} : HandlerOK(g)'
      /\ CallInv' /\ EntryInv' /\ GoodInv' /\ KeptInv'
  BY <1>5, <1>6, SweepKeeps
<1>8. HandlerOK(h)'
  <2>1. now \in Nat
    BY DEF IInv, TypeOK
  <2>2. QED
    BY <1>1, <1>2, <1>3, <1>5, <1>6, <2>1 DEF HandlerOK, Leaders, Done
<1>9. TypeOK'
  <2>1. handler' \in [Handlers -> HandlerStates]
    BY <1>3, <1>4 DEF IInv, TypeOK, HandlerStates
  <2>2. QED
    BY <1>6, <1>7, <2>1 DEF IInv, TypeOK, HandlerStates, Remembered
<1>10. Coalesced'
  <2>1. handler'[h].stage \notin Leaders
    BY <1>3, <1>5 DEF Leaders
  <2>2. \A d \in Credentials : Leading(d)' \subseteq Leading(d)
    BY <1>5, <2>1 DEF Leading, Leaders
  <2>3. QED
    BY <2>2 DEF IInv, Coalesced
<1>11. FreshEvidence'
  BY <1>3, <1>5, <1>6 DEF IInv, FreshEvidence
<1>12. QED
  BY <1>7, <1>8, <1>9, <1>10, <1>11 DEF IInv, HandlerInv, Remembered

\* A request is turned away.
LEMMA DeclineInv ==
  ASSUME IInv, NEW h \in Handlers, Decline(h)
  PROVE  IInv'
<1>1. PICK r \in HandlerStates :
        handler' = [handler EXCEPT ![h] = r] /\ r.stage = "refused" /\ r.entered = 0
  BY AnswerShape DEF Decline, IInv
<1>2. handler'[h] = r /\ \A g \in Handlers \ {h} : handler'[g] = handler[g]
  BY <1>1 DEF IInv, TypeOK
<1>3. entry' = Sweep /\ UNCHANGED <<now, call, led, good, kept>>
  BY DEF Decline
<1>4. /\ entry' \in [Credentials -> Calls \cup {None}]
      /\ IsFiniteSet(Remembered(entry')) /\ Cardinality(Remembered(entry')) <= MaxCalls
      /\ \A g \in Handlers \ {h} : HandlerOK(g)'
      /\ CallInv' /\ EntryInv' /\ GoodInv' /\ KeptInv'
  BY <1>2, <1>3, SweepKeeps
<1>5. HandlerOK(h)'
  <2>1. now' \in Nat
    BY <1>3 DEF IInv, TypeOK
  <2>2. QED
    BY <1>1, <1>2, <2>1 DEF HandlerOK, Leaders
<1>6. TypeOK'
  <2>1. handler' \in [Handlers -> HandlerStates]
    BY <1>1 DEF IInv, TypeOK, HandlerStates
  <2>2. QED
    BY <1>3, <1>4, <2>1 DEF IInv, TypeOK, HandlerStates, Remembered
<1>7. Coalesced'
  BY <1>1, <1>2 DEF IInv, Coalesced, Leading
<1>8. FreshEvidence'
  BY <1>1, <1>2, <1>3 DEF IInv, FreshEvidence
<1>9. QED
  BY <1>4, <1>5, <1>6, <1>7, <1>8 DEF IInv, HandlerInv, Remembered

\* A request begins a call of its own for a credential nobody refreshes.
LEMMA LeadInv ==
  ASSUME IInv, NEW h \in Handlers, Lead(h)
  PROVE  IInv'
<1>0. PICK c \in Credentials : c = handler[h].credential
  BY DEF Lead, IInv, HandlerInv, HandlerOK
<1> DEFINE i == led + 1
           r == [handler[h] EXCEPT !.stage = "refresh", !.call = i, !.entered = now]
           b == [Unborn EXCEPT !.credential = c]
<1>1. /\ led \in Nat /\ i \in Calls /\ i \in Nat /\ 1..i \subseteq Calls
      /\ 1..i = 1..led \cup {i} /\ i \notin 1..led /\ i # None /\ now \in Nat
      /\ i \in 0..MaxLed
  <2>1. led \in 0..MaxLed /\ led < MaxLed /\ MaxLed \in Nat /\ now \in Nat
    BY RecoveryAssumption DEF IInv, TypeOK, Lead
  <2>2. QED
    BY <2>1, CallNumbers DEF IInv, Calls
<1>2. /\ led' = i /\ UNCHANGED <<now, good, kept>>
      /\ entry' = [Sweep EXCEPT ![c] = i]
      /\ call' = [call EXCEPT ![i] = b]
      /\ handler' = [handler EXCEPT ![h] = r]
      /\ Sweep[c] = None /\ Cardinality(Remembered(Sweep)) < MaxCalls
      /\ handler[h].stage = "ask"
  BY <1>0 DEF Lead
<1>3. /\ r \in HandlerStates /\ r.stage = "refresh" /\ r.call = i /\ r.entered = now
      /\ r.credential = c
  BY <1>0, <1>1, ZenonT(40) DEF IInv, TypeOK, HandlerStates, Stages
<1>4. b.credential = c /\ b.expires = None /\ b.ok = FALSE
  BY DEF Unborn
<1>5. handler'[h] = r /\ \A g \in Handlers \ {h} : handler'[g] = handler[g]
  BY <1>2 DEF IInv, TypeOK
<1>6. call'[i] = b /\ \A j \in Calls : j # i => call'[j] = call[j]
  BY <1>1, <1>2 DEF IInv, TypeOK
<1>7. entry'[c] = i /\ \A d \in Credentials : d # c => entry'[d] = Sweep[d]
  BY <1>2, SweepForgets
<1>8. Remembered(entry') = Remembered(Sweep) \cup {c} /\ c \notin Remembered(Sweep)
  <2>1. \A d \in Credentials : entry'[d] # None <=> d = c \/ Sweep[d] # None
    BY <1>1, <1>7
  <2>2. QED
    BY <1>2, <2>1 DEF Remembered
<1>9. IsFiniteSet(Remembered(entry')) /\ Cardinality(Remembered(entry')) <= MaxCalls
  <2>1. /\ IsFiniteSet(Remembered(entry'))
        /\ Cardinality(Remembered(entry')) = Cardinality(Remembered(Sweep)) + 1
    BY <1>8, SweepForgets, FS_AddElement
  <2>2. MaxCalls \in Nat /\ Cardinality(Remembered(Sweep)) \in Nat
    BY SweepForgets, RecoveryAssumption
  <2>3. QED
    BY <1>2, <2>1, <2>2
<1>10. TypeOK'
  <2>1. handler' \in [Handlers -> HandlerStates]
    BY <1>2, <1>3 DEF IInv, TypeOK, HandlerStates
  <2>2. entry' \in [Credentials -> Calls \cup {None}]
    BY <1>1, <1>2, SweepForgets
  <2>3. call' \in [Calls -> [credential : Credentials \cup {None}, ok : BOOLEAN,
                             expires : Nat \cup {None}]]
    BY <1>2 DEF IInv, TypeOK, Unborn
  <2>4. QED
    BY <1>1, <1>2, <1>9, <2>1, <2>2, <2>3 DEF IInv, TypeOK, HandlerStates, Remembered
<1>11. CallInv'
  <2>1. \A j \in Calls : j > led' => ~Done(j)'
    <3> SUFFICES ASSUME NEW j \in Calls, j > led' PROVE call'[j].expires = None
      BY DEF Done
    <3>1. j \in Nat
      BY CallNumbers DEF IInv
    <3>2. j # i /\ j > led
      BY <1>1, <1>2, <3>1
    <3>3. ~Done(j)
      BY <3>2 DEF IInv, CallInv
    <3>4. call'[j] = call[j]
      BY <1>6, <3>2
    <3>5. QED
      BY <3>3, <3>4 DEF Done
  <2>2. \A j \in 1..led' : call'[j].credential \in Credentials
    <3> SUFFICES ASSUME NEW j \in 1..i PROVE call'[j].credential \in Credentials
      BY <1>2
    <3>1. CASE j = i
      <4>1. call'[i].credential = c
        BY <1>4, <1>6
      <4>2. QED
        BY <3>1, <4>1
    <3>2. CASE j # i
      <4>1. j \in 1..led /\ j \in Calls
        BY <1>1, <3>2
      <4>2. call'[j] = call[j]
        BY <1>6, <3>2, <4>1
      <4>3. QED
        BY <4>1, <4>2 DEF IInv, CallInv
    <3>3. QED
      BY <3>1, <3>2
  <2>3. \A j \in Calls : Done(j)' /\ call'[j].ok =>
          /\ good'[call'[j].credential] # None
          /\ good'[call'[j].credential] + Memory >= call'[j].expires
    BY <1>2, <1>4, <1>6 DEF IInv, CallInv, Done
  <2>4. QED
    BY <2>1, <2>2, <2>3 DEF CallInv
<1>12. EntryInv'
  <2> SUFFICES ASSUME NEW d \in Credentials, entry'[d] # None
               PROVE  entry'[d] \in 1..led' /\ call'[entry'[d]].credential = d
    BY DEF EntryInv
  <2>1. CASE d = c
    BY <1>1, <1>2, <1>4, <1>6, <1>7, <2>1
  <2>2. CASE d # c
    <3>1. entry'[d] = entry[d] /\ entry[d] # None
      BY <1>7, <2>2, SweepForgets
    <3>2. entry[d] \in 1..led /\ call[entry[d]].credential = d
      BY <3>1 DEF IInv, EntryInv
    <3>3. QED
      BY <1>1, <1>2, <1>6, <3>1, <3>2
  <2>3. QED
    BY <2>1, <2>2
<1>13. GoodInv'
  BY <1>2 DEF IInv, GoodInv
<1>14. KeptInv'
  <2> SUFFICES ASSUME NEW d \in Credentials, kept[d] # None, now <= kept[d] + Memory
               PROVE  /\ entry'[d] # None /\ call'[entry'[d]].expires # None
                      /\ call'[entry'[d]].expires >= kept[d] + Memory
    BY <1>2 DEF KeptInv, Done
  <2>1. entry[d] # None /\ Done(entry[d]) /\ call[entry[d]].expires >= kept[d] + Memory
    BY DEF IInv, KeptInv
  <2>2. entry[d] \in 1..led /\ entry[d] \in Calls
    BY <2>1, CallNumbers DEF IInv, EntryInv
  <2>3. call[entry[d]].expires \in Nat /\ kept[d] \in Nat /\ Memory \in Nat
    BY <2>1, <2>2, DoneType, RecoveryAssumption DEF IInv, TypeOK
  <2>4. ~(now > call[entry[d]].expires)
    BY <1>1, <2>1, <2>3
  <2>5. Sweep[d] = entry[d]
    BY <2>1, <2>4, SweepForgets
  <2>6. d # c /\ entry'[d] = entry[d]
    BY <1>2, <1>7, <2>1, <2>5
  <2>7. call'[entry[d]] = call[entry[d]]
    BY <1>1, <1>6, <2>2
  <2>8. QED
    BY <2>1, <2>6, <2>7 DEF Done
<1>15. ASSUME NEW g \in Handlers \ {h}
       PROVE  HandlerOK(g)' /\ ~(handler[g].stage \in Leaders /\ handler[g].credential = c)
  <2>1. HandlerOK(g)
    BY DEF IInv, HandlerInv
  <2>2. ASSUME handler[g].stage \in Leaders
        PROVE  handler[g].credential # c
               /\ entry'[handler[g].credential] = entry[handler[g].credential]
    <3>1. /\ handler[g].credential \in Credentials
          /\ entry[handler[g].credential] = handler[g].call
          /\ ~Done(handler[g].call) /\ handler[g].call # None
      BY <2>1, <2>2, CallNumbers DEF HandlerOK, Leaders, IInv
    <3>2. Sweep[handler[g].credential] = entry[handler[g].credential]
      BY <3>1, SweepForgets
    <3>3. QED
      BY <1>2, <1>7, <3>1, <3>2
  <2>3. handler[g].stage \in {"follow", "refresh", "record"} =>
          /\ handler[g].call \in 1..led' /\ handler[g].call \in Calls
          /\ call'[handler[g].call] = call[handler[g].call]
    BY <1>1, <1>2, <1>6, <2>1 DEF HandlerOK
  <2>4. HandlerOK(g)'
    BY <1>2, <1>5, <2>1, <2>2, <2>3 DEF HandlerOK, Done, Leaders
  <2>5. QED
    BY <2>2, <2>4
<1>16. HandlerOK(h)'
  <2>1. /\ handler'[h].stage = "refresh" /\ handler'[h].credential = c
        /\ handler'[h].call = i /\ handler'[h].entered = now
    BY <1>3, <1>5
  <2>2. i \in 1..led' /\ now <= now'
    BY <1>1, <1>2
  <2>3. call'[i].credential = c /\ call'[i].expires = None
    BY <1>4, <1>6
  <2>4. QED
    BY <1>7, <2>1, <2>2, <2>3 DEF HandlerOK, Done, Leaders
<1>17. Coalesced'
  <2>1. handler'[h].credential = c
    BY <1>3, <1>5
  <2>2. \A d \in Credentials : d # c => Leading(d)' \subseteq Leading(d)
    BY <1>5, <2>1 DEF Leading
  <2>3. Leading(c)' \subseteq {h}
    BY <1>5, <1>15 DEF Leading, Leaders
  <2>4. QED
    BY <2>2, <2>3 DEF IInv, Coalesced
<1>18. FreshEvidence'
  BY <1>2, <1>3, <1>5 DEF IInv, FreshEvidence
<1>19. QED
  BY <1>9, <1>10, <1>11, <1>12, <1>13, <1>14, <1>15, <1>16, <1>17, <1>18
  DEF IInv, HandlerInv, Remembered

\* A leader records what its refresh found.
LEMMA RecordInv ==
  ASSUME IInv, NEW h \in Handlers, Record(h)
  PROVE  IInv'
<1>0. PICK c \in Credentials, i \in Calls :
        /\ c = handler[h].credential /\ i = handler[h].call
        /\ i \in 1..led /\ call[i].credential = c /\ entry[c] = i /\ ~Done(i)
        /\ handler[h].stage = "record"
  BY CallNumbers DEF Record, IInv, HandlerInv, HandlerOK, Leaders
<1>1. PICK ok \in BOOLEAN, gone \in BOOLEAN, answer \in BOOLEAN :
        /\ ok = handler[h].ok /\ gone = handler[h].gone /\ (answer => ok)
        /\ Answer(h, answer)
  <2>1. handler[h].ok \in BOOLEAN /\ handler[h].gone \in BOOLEAN
    BY DEF IInv, TypeOK
  <2>2. PICK remaining \in {handler[h].gone, TRUE} : Answer(h, handler[h].ok /\ ~remaining)
    BY DEF Record
  <2>3. remaining \in BOOLEAN
    BY <2>1
  <2>4. /\ (handler[h].ok /\ ~remaining) \in BOOLEAN
        /\ (handler[h].ok /\ ~remaining) => handler[h].ok
    OBVIOUS
  <2>5. QED
    BY <2>1, <2>2, <2>4
<1>2. now \in Nat /\ Memory \in Nat /\ now + Memory \in Nat /\ led \in Nat
      /\ handler[h].entered \in Nat /\ handler[h].entered <= now /\ now # None
      /\ now + Memory # None
  BY RecoveryAssumption, CallNumbers DEF IInv, TypeOK, HandlerInv, HandlerOK
<1>3. PICK r \in HandlerStates :
        /\ handler' = [handler EXCEPT ![h] = r]
        /\ r.stage = IF answer THEN "resend" ELSE "refused"
        /\ answer => r.credential = handler[h].credential /\ r.entered = handler[h].entered
        /\ ~answer => r.entered = 0
  BY <1>1, AnswerShape DEF IInv
<1>4. handler'[h] = r /\ \A g \in Handlers \ {h} : handler'[g] = handler[g]
  BY <1>3 DEF IInv, TypeOK
<1>5. /\ call' = [call EXCEPT ![i].ok = ok, ![i].expires = now + Memory]
      /\ entry' = IF gone THEN [entry EXCEPT ![c] = None] ELSE entry
      /\ good' = IF ok THEN [good EXCEPT ![c] = now] ELSE good
      /\ kept' = IF gone THEN kept ELSE [kept EXCEPT ![c] = now]
      /\ UNCHANGED <<now, led>>
  BY <1>0, <1>1 DEF Record
<1>6. /\ call'[i].ok = ok /\ call'[i].expires = now + Memory /\ call'[i].credential = c
      /\ \A j \in Calls : j # i => call'[j] = call[j]
  BY <1>0, <1>5 DEF IInv, TypeOK
<1>7. \A d \in Credentials : d # c =>
        entry'[d] = entry[d] /\ good'[d] = good[d] /\ kept'[d] = kept[d]
  BY <1>5 DEF IInv, TypeOK
<1>8. /\ entry'[c] = IF gone THEN None ELSE i
      /\ good'[c] = IF ok THEN now ELSE good[c]
      /\ kept'[c] = IF gone THEN kept[c] ELSE now
  BY <1>0, <1>5 DEF IInv, TypeOK
<1>9. Remembered(entry') \subseteq Remembered(entry)
  BY <1>5 DEF IInv, TypeOK, Remembered
<1>10. IsFiniteSet(Remembered(entry')) /\ Cardinality(Remembered(entry')) <= MaxCalls
  <2>1. /\ IsFiniteSet(Remembered(entry'))
        /\ Cardinality(Remembered(entry')) <= Cardinality(Remembered(entry))
        /\ Cardinality(Remembered(entry')) \in Nat /\ Cardinality(Remembered(entry)) \in Nat
    BY <1>9, FS_Subset, FS_CardinalityType DEF IInv
  <2>2. Cardinality(Remembered(entry)) <= MaxCalls /\ MaxCalls \in Nat
    BY RecoveryAssumption DEF IInv, TypeOK
  <2>3. QED
    BY <2>1, <2>2
<1>11. TypeOK'
  <2>1. handler' \in [Handlers -> HandlerStates]
    BY <1>3 DEF IInv, TypeOK, HandlerStates
  <2>2. entry' \in [Credentials -> Calls \cup {None}]
    BY <1>5 DEF IInv, TypeOK
  <2>3. call' \in [Calls -> [credential : Credentials \cup {None}, ok : BOOLEAN,
                             expires : Nat \cup {None}]]
    <3> DEFINE T == [credential : Credentials \cup {None}, ok : BOOLEAN,
                     expires : Nat \cup {None}]
               s == [call[i] EXCEPT !.ok = ok, !.expires = now + Memory]
    <3>1. call \in [Calls -> T]
      BY DEF IInv, TypeOK
    <3>2. s \in T
      BY <1>2, <3>1
    <3>3. call' = [call EXCEPT ![i] = s]
      BY <1>5, <3>1
    <3>4. QED
      BY <3>1, <3>2, <3>3
  <2>4. good' \in [Credentials -> Nat \cup {None}] /\ kept' \in [Credentials -> Nat \cup {None}]
    BY <1>2, <1>5 DEF IInv, TypeOK
  <2>5. QED
    BY <1>5, <1>10, <2>1, <2>2, <2>3, <2>4 DEF IInv, TypeOK, HandlerStates, Remembered
<1>12. CallInv'
  <2>1. \A j \in Calls : j > led' => ~Done(j)'
    <3> SUFFICES ASSUME NEW j \in Calls, j > led' PROVE call'[j].expires = None
      BY DEF Done
    <3>1. j > led /\ j # i
      BY <1>0, <1>2, <1>5
    <3>2. QED
      BY <1>6, <3>1 DEF IInv, CallInv, Done
  <2>2. \A j \in 1..led' : call'[j].credential \in Credentials
    BY <1>5, <1>6, CallNumbers DEF IInv, CallInv
  <2>3. ASSUME NEW j \in Calls, Done(j)', call'[j].ok
        PROVE  /\ good'[call'[j].credential] # None
               /\ good'[call'[j].credential] + Memory >= call'[j].expires
    <3>1. CASE j = i
      BY <1>2, <1>6, <1>8, <2>3, <3>1
    <3>2. CASE j # i
      <4> DEFINE d == call[j].credential
      <4>1. Done(j) /\ call[j].ok /\ call'[j] = call[j]
        BY <1>6, <2>3, <3>2 DEF Done
      <4>2. good[d] # None /\ good[d] + Memory >= call[j].expires
        BY <4>1 DEF IInv, CallInv
      <4>3. d \in Credentials
        BY <4>1, CallNumbers DEF IInv, CallInv, Calls
      <4>4. good[d] \in Nat /\ good[d] <= now /\ call[j].expires \in Nat
        BY <4>1, <4>2, <4>3, DoneType DEF IInv, TypeOK, GoodInv
      <4>5. good'[d] = good[d] \/ good'[d] = now
        BY <1>7, <1>8, <4>3
      <4>6. QED
        BY <1>2, <4>1, <4>2, <4>4, <4>5
    <3>3. QED
      BY <3>1, <3>2
  <2>4. QED
    BY <2>1, <2>2, <2>3 DEF CallInv
<1>13. EntryInv'
  <2>1. \A d \in Credentials : entry'[d] # None => entry'[d] = entry[d]
    BY <1>0, <1>7, <1>8
  <2>2. \A j \in 1..led : call'[j].credential = call[j].credential
    BY <1>0, <1>6, CallNumbers DEF IInv
  <2>3. QED
    BY <1>5, <2>1, <2>2, ZenonT(40) DEF IInv, EntryInv
<1>14. GoodInv'
  BY <1>2, <1>5, <1>7, <1>8 DEF IInv, GoodInv
<1>15. KeptInv'
  <2> SUFFICES ASSUME NEW d \in Credentials, kept'[d] # None, now <= kept'[d] + Memory
               PROVE  /\ entry'[d] # None /\ call'[entry'[d]].expires # None
                      /\ call'[entry'[d]].expires >= kept'[d] + Memory
    BY <1>5 DEF KeptInv, Done
  <2>1. CASE d # c
    <3>1. entry'[d] = entry[d] /\ kept'[d] = kept[d]
      BY <1>7, <2>1
    <3>2. entry[d] # None /\ Done(entry[d]) /\ call[entry[d]].expires >= kept[d] + Memory
      BY <3>1 DEF IInv, KeptInv
    <3>3. entry[d] \in Calls /\ entry[d] # i
      BY <1>0, <2>1, <3>2, CallNumbers DEF IInv, EntryInv
    <3>4. QED
      BY <1>6, <3>1, <3>2, <3>3 DEF Done
  <2>2. CASE d = c
    <3>1. ~gone
      BY <1>0, <1>8, <2>2 DEF IInv, KeptInv
    <3>2. entry'[c] = i /\ kept'[c] = now
      BY <1>8, <3>1
    <3>3. i # None
      BY CallNumbers DEF IInv
    <3>4. QED
      BY <1>2, <1>6, <2>2, <3>2, <3>3 DEF Done
  <2>3. QED
    BY <2>1, <2>2
<1>16. ASSUME NEW g \in Handlers \ {h} PROVE HandlerOK(g)'
  <2>1. HandlerOK(g)
    BY DEF IInv, HandlerInv
  <2>2. handler[g].entered \in Nat /\ handler[g].entered <= now
    BY <2>1 DEF HandlerOK, IInv, TypeOK
  <2>3. CASE handler[g].stage \in Leaders
    <3>1. handler[g].credential # c /\ handler[g].call # i
      BY <1>0, <2>3, LeadersDiffer DEF Leaders
    <3>2. handler[g].credential \in Credentials /\ handler[g].call \in 1..led
          /\ handler[g].call \in Calls
      BY <2>1, <2>3, CallNumbers DEF HandlerOK, Leaders, IInv
    <3>3. /\ call'[handler[g].call] = call[handler[g].call]
          /\ entry'[handler[g].credential] = entry[handler[g].credential]
      BY <1>6, <1>7, <3>1, <3>2
    <3>4. QED
      BY <1>4, <1>5, <2>1, <2>3, <3>3 DEF HandlerOK, Done, Leaders
  <2>4. CASE handler[g].stage = "follow"
    <3>1. handler[g].call \in 1..led /\ handler[g].call \in Calls
      BY <2>1, <2>4, CallNumbers DEF HandlerOK, IInv
    <3>2. call'[handler[g].call].credential = call[handler[g].call].credential
      BY <1>0, <1>6, <3>1
    <3>3. Done(handler[g].call)' => call'[handler[g].call].expires >= handler[g].entered
      <4>1. CASE handler[g].call = i
        BY <1>2, <1>6, <2>2, <4>1
      <4>2. CASE handler[g].call # i
        <5>1. call'[handler[g].call] = call[handler[g].call]
          BY <1>6, <3>1, <4>2
        <5>2. QED
          BY <1>4, <2>1, <2>4, <5>1 DEF HandlerOK, Done
      <4>3. QED
        BY <4>1, <4>2
    <3>4. QED
      BY <1>4, <1>5, <2>1, <2>4, <3>1, <3>2, <3>3 DEF HandlerOK, Leaders, Done
  <2>5. CASE handler[g].stage \notin Leaders \cup {"follow"}
    BY <1>4, <1>5, <2>1, <2>5 DEF HandlerOK, Leaders
  <2>6. QED
    BY <2>3, <2>4, <2>5
<1>17. HandlerOK(h)'
  BY <1>0, <1>2, <1>3, <1>4, <1>5 DEF HandlerOK, Leaders
<1>18. Coalesced'
  <2>1. r.stage \notin Leaders
    BY <1>3 DEF Leaders
  <2>2. QED
    BY <1>4, <2>1 DEF IInv, Coalesced, Leading, Leaders
<1>19. FreshEvidence'
  <2> SUFFICES ASSUME NEW g \in Handlers PROVE Fresh(g)'
    BY DEF FreshEvidence, Fresh
  <2>1. CASE g = h
    BY <1>0, <1>1, <1>2, <1>3, <1>4, <1>8, <2>1 DEF Fresh
  <2>2. CASE g # h
    <3>1. SUFFICES ASSUME handler[g].stage = "resend"
                   PROVE  /\ good'[handler[g].credential] # None
                          /\ good'[handler[g].credential] + Memory >= handler[g].entered
      BY <1>4, <2>2 DEF Fresh
    <3> DEFINE d == handler[g].credential
    <3>2. d \in Credentials /\ handler[g].entered \in Nat
      BY <3>1 DEF IInv, HandlerInv, HandlerOK, TypeOK
    <3>3. good[d] # None /\ good[d] + Memory >= handler[g].entered
      BY <3>1 DEF IInv, FreshEvidence
    <3>4. good[d] \in Nat /\ good[d] <= now
      BY <3>2, <3>3 DEF IInv, TypeOK, GoodInv
    <3>5. good'[d] = good[d] \/ good'[d] = now
      BY <1>7, <1>8, <3>2
    <3>6. QED
      BY <1>2, <3>2, <3>3, <3>4, <3>5
  <2>3. QED
    BY <2>1, <2>2
<1>20. QED
  BY <1>10, <1>11, <1>12, <1>13, <1>14, <1>15, <1>16, <1>17, <1>18, <1>19
  DEF IInv, HandlerInv, Remembered

\* Time passes.
LEMMA TickInv == ASSUME IInv, Tick PROVE IInv'
<1>1. now \in Nat /\ now' = now + 1 /\ Memory \in Nat
      /\ UNCHANGED <<entry, call, led, handler, good, kept>>
  BY RecoveryAssumption DEF IInv, TypeOK, Tick
<1>2. TypeOK' /\ IsFiniteSet(Remembered(entry))'
  BY <1>1 DEF IInv, TypeOK, Remembered
<1>3. HandlerInv'
  <2>1. \A h \in Handlers : handler[h].entered \in Nat /\ handler[h].entered <= now
    BY DEF IInv, TypeOK, HandlerInv, HandlerOK
  <2>2. \A h \in Handlers : handler[h].entered <= now'
    BY <1>1, <2>1
  <2>3. QED
    BY <1>1, <2>2 DEF IInv, HandlerInv, HandlerOK, Done
<1>4. GoodInv'
  BY <1>1 DEF IInv, TypeOK, GoodInv
<1>5. CallInv' /\ EntryInv'
  BY <1>1 DEF IInv, CallInv, EntryInv, Done
<1>6. KeptInv'
  <2>1. \A c \in Credentials : kept[c] # None /\ now' <= kept[c] + Memory =>
          now <= kept[c] + Memory
    BY <1>1 DEF IInv, TypeOK
  <2>2. QED
    BY <1>1, <2>1 DEF IInv, KeptInv, Done
<1>7. Coalesced' /\ FreshEvidence'
  BY <1>1 DEF IInv, Coalesced, Leading, FreshEvidence
<1>8. QED
  BY <1>2, <1>3, <1>4, <1>5, <1>6, <1>7 DEF IInv

\* Every step preserves the invariant.
LEMMA NextInv == IInv /\ [Next]_vars => IInv'
<1> SUFFICES ASSUME IInv, [Next]_vars PROVE IInv'
  OBVIOUS
<1>1. CASE Tick
  BY <1>1, TickInv
<1>2. ASSUME NEW h \in Handlers,
             \/ \E c \in Credentials : Ask(h, c)
             \/ ClientLeaves(h)
             \/ \E ok \in BOOLEAN : RefreshEnds(h, ok)
             \/ Proceed(h)
      PROVE  IInv'
  BY <1>2, AloneInv
<1>3. ASSUME NEW h \in Handlers, Learn(h) PROVE IInv'
  BY <1>3, LearnInv
<1>4. ASSUME NEW h \in Handlers, Follow(h) PROVE IInv'
  BY <1>4, FollowInv
<1>5. ASSUME NEW h \in Handlers, Decline(h) PROVE IInv'
  BY <1>5, DeclineInv
<1>6. ASSUME NEW h \in Handlers, Lead(h) PROVE IInv'
  BY <1>6, LeadInv
<1>7. ASSUME NEW h \in Handlers, Record(h) PROVE IInv'
  BY <1>7, RecordInv
<1>8. CASE UNCHANGED vars
  BY <1>8 DEF vars, IInv, TypeOK, Remembered, HandlerInv, HandlerOK, Done, CallInv, EntryInv,
              GoodInv, KeptInv, Coalesced, Leading, FreshEvidence
<1>9. QED
  BY <1>1, <1>2, <1>3, <1>4, <1>5, <1>6, <1>7, <1>8 DEF Next, Coordinate

\* The inductive invariant holds in every reachable state.
LEMMA SpecInv == Spec => []IInv
  BY InitInv, NextInv, PTL DEF Spec

-----------------------------------------------------------------------------
(* The properties.                                                         *)

\* One request refreshes a credential at a time, whoever leaves; a request is
\* submitted again only on a recent success; and the memory stays bounded.
THEOREM SpecCallsShared == Spec => []CallsShared
<1>1. IInv => CallsShared
  BY DEF IInv, CallsShared
<1>2. QED
  BY <1>1, SpecInv, PTL

\* A credential is not refreshed while a result for it is remembered: only Lead
\* begins a refresh, and it finds no call that is not expired.
THEOREM SpecThrottled == Spec => Throttled
<1>1. IInv /\ [Next]_vars => [BackedOff]_vars
  <2> SUFFICES ASSUME IInv, Next, NEW h \in Handlers,
                      handler[h].stage = "ask", handler'[h].stage = "refresh"
               PROVE  LET c == handler[h].credential IN
                      kept[c] = None \/ now > kept[c] + Memory
    BY DEF BackedOff
  <2> DEFINE c == handler[h].credential
  <2>1. handler \in [Handlers -> HandlerStates]
    BY DEF IInv, TypeOK, HandlerStates
  <2>2. PICK g \in Handlers : Lead(g) /\ g = h
    <3>1. ~Tick
      BY DEF Tick
    <3>2. ASSUME NEW g \in Handlers, NEW d \in Credentials PROVE ~Ask(g, d)
      BY <2>1 DEF Ask, Idle
    <3>3. ASSUME NEW g \in Handlers PROVE ~ClientLeaves(g)
      BY <2>1 DEF ClientLeaves, HandlerStates
    <3>4. ASSUME NEW g \in Handlers PROVE ~Follow(g)
      BY <2>1 DEF Follow, HandlerStates
    <3>5. ASSUME NEW g \in Handlers, NEW a \in BOOLEAN PROVE ~Answer(g, a)
      BY <2>1 DEF Answer, Idle
    <3>6. ASSUME NEW g \in Handlers PROVE ~Decline(g)
      BY <3>5 DEF Decline
    <3>7. ASSUME NEW g \in Handlers PROVE ~Learn(g)
      <4>1. ASSUME Learn(g)
            PROVE  \E a \in BOOLEAN : Answer(g, a)
        BY <4>1 DEF Learn
      <4>2. QED
        BY <3>5, <4>1
    <3>8. ASSUME NEW g \in Handlers PROVE ~Record(g)
      <4>1. ASSUME Record(g)
            PROVE  \E a \in BOOLEAN : Answer(g, a)
        BY <4>1 DEF Record
      <4>2. QED
        BY <3>5, <4>1
    <3>9. ASSUME NEW g \in Handlers, NEW ok \in BOOLEAN PROVE ~RefreshEnds(g, ok)
      BY <2>1 DEF RefreshEnds, HandlerStates
    <3>10. ASSUME NEW g \in Handlers PROVE ~Proceed(g)
      BY <2>1 DEF Proceed, Idle
    <3>11. PICK g \in Handlers : Lead(g)
      BY <3>1, <3>2, <3>3, <3>4, <3>6, <3>7, <3>8, <3>9, <3>10 DEF Next, Coordinate
    <3>12. g = h
      BY <2>1, <3>11 DEF Lead
    <3>13. QED
      BY <3>11, <3>12
  <2>3. Sweep[c] = None /\ c \in Credentials
    BY <2>2 DEF Lead, IInv, HandlerInv, HandlerOK
  <2>4. now \in Nat /\ Memory \in Nat /\ kept[c] \in Nat \cup {None}
    BY <2>3, RecoveryAssumption DEF IInv, TypeOK
  <2>5. ASSUME kept[c] # None, now <= kept[c] + Memory PROVE FALSE
    <3>1. entry[c] # None /\ Done(entry[c]) /\ call[entry[c]].expires >= kept[c] + Memory
      BY <2>3, <2>5 DEF IInv, KeptInv
    <3>2. entry[c] \in Calls
      BY <2>3, <3>1, CallNumbers DEF IInv, EntryInv
    <3>3. call[entry[c]].expires \in Nat
      BY <3>1, <3>2, DoneType DEF IInv
    <3>4. now > call[entry[c]].expires
      BY <2>3, <3>1, SweepForgets
    <3>5. QED
      BY <2>4, <2>5, <3>1, <3>3, <3>4
  <2>6. QED
    BY <2>4, <2>5
<1>2. QED
  BY <1>1, SpecInv, PTL DEF Spec, Throttled

-----------------------------------------------------------------------------
(* Changes of credentials and the configuration: the inductive invariant.  *)

\* Stages in which a job still goes forward, and those of its compensation.
Forward == {"apply", "catalog", "save", "inspect", "snapshot", "upload", "ensure"}
Backward == {"restore", "status", "verify", "config"}

\* A file is as it was, but for what a refresh or an authorization changes.
Alike(value, was) ==
  IF was = Absent THEN value = Absent
  ELSE value # Absent /\ value.content = was.content /\ value.disabled = was.disabled

JobTypeInv(j) ==
  j \in [kind : {"change", "login", "import"},
         stage : Forward \cup Backward \cup {"ended"},
         doc : {j.doc}, was : {j.was}, providers : {j.providers},
         before : [Files -> FileStates \cup {Absent}],
         stored : [Files -> FileStates \cup {Absent}],
         order : Seq(Files), todo : Seq(Files),
         wanted : {Absent, "deleted", "disabled", "enabled"},
         failed : BOOLEAN,
         touched : SUBSET Files,
         verdict : {Absent, "done", "restored", "incomplete", "failed"}]

\* Which stages a job goes through, and what it has in hand there.
StagesInv(j) ==
  /\ j.stage = "ended" <=> j.verdict # Absent
  /\ j.stage \in Forward \/ j.verdict = "restored" => ~j.failed
  /\ j.stage \in {"restore", "status", "verify"} => j.order # <<>>
  /\ j.stage \in {"inspect", "config"} \/ j.verdict = "restored" => j.order = <<>>
  /\ j.stage \in {"inspect", "snapshot", "upload"} => j.todo # <<>>
  /\ j.stage = "upload" => Head(j.todo) \in ToSet(j.order)
  /\ j.stage = "restore" => j.wanted \in {Absent, "deleted"}
  /\ j.stage \in {"status", "verify"} => j.stored[Last(j.order)] # Absent
  /\ j.wanted \in {"disabled", "enabled"} => \A f \in ToSet(j.order) : j.stored[f] # Absent
  /\ j.kind = "change" =>
       /\ j.stage \in {"apply", "catalog", "save", "ended"} \cup Backward
       /\ j.wanted # Absent
       /\ j.stage \in Forward \/ j.verdict = "done" => j.order # <<>> /\ j.order = <<Head(j.order)>>
  /\ j.kind = "login" => j.stage \in {"save", "ended"} /\ j.order = <<>> /\ j.verdict # "restored"
  /\ j.kind = "import" => j.wanted = Absent /\ j.stage \notin {"apply", "catalog", "config"}
  /\ j.kind # "change" => j.wanted = Absent

\* The change of a credential has been made.
Applied(j, value) ==
  IF j.wanted = "deleted" THEN value = Absent
  ELSE value # Absent /\ value.disabled = (j.wanted = "disabled")

\* What the adapter's files are at each stage, but for those it changed itself.
AdapterInv(j, fs) ==
  /\ j.stage \in {"inspect", "snapshot", "upload"} =>
       \A f \in Files : j.stored[f] # Absent => fs[f] # Absent
  /\ j.stage = "apply" => fs[Head(j.order)] # Absent
  /\ \A f \in Files \ j.touched :
       /\ Alike(j.stored[f], j.before[f])
       /\ f \notin ToSet(j.order) => j.failed \/ Alike(fs[f], j.before[f])
       /\ f \in ToSet(j.order) /\ j.wanted \in {"disabled", "enabled"} =>
            fs[f] # Absent /\ fs[f].content = j.before[f].content
       /\ j.stage \in {"status", "verify"} /\ f = Last(j.order) =>
            fs[f] # Absent /\ fs[f].content = j.before[f].content
       /\ f \in ToSet(j.order) /\ (j.stage \in {"catalog", "save"} \/ j.verdict = "done") =>
            IF j.kind = "change" THEN Applied(j, fs[f]) ELSE Alike(fs[f], File("imported"))
       /\ f \in ToSet(j.order) /\ j.stage \in {"snapshot", "ensure"} =>
            Alike(fs[f], File("imported"))
       /\ f \in ToSet(j.order) /\ j.stage = "upload" /\ f # Head(j.todo) =>
            Alike(fs[f], File("imported"))

\* The published configuration and the file of a job.
DocumentsInv(j, cfg, dsk) ==
  /\ j.stage # "ended" => cfg = j.was
  /\ j.stage \in Forward => dsk = j.was
  /\ j.verdict = "done" => dsk = cfg /\ ~j.failed
  /\ j.verdict = "restored" => cfg = j.was /\ (j.kind = "change" => dsk = j.was)

JobInv(j, fs, cfg, dsk) ==
  JobTypeInv(j) /\ StagesInv(j) /\ AdapterInv(j, fs) /\ DocumentsInv(j, cfg, dsk)

ChangesInv ==
  /\ files \in [Files -> FileStates \cup {Absent}]
  /\ job = Free \/ JobInv(job, files, published, disk)

-----------------------------------------------------------------------------
(* Lists of files.                                                         *)

\* The last file of a list and the ones before it.
LEMMA LastAndFront ==
  ASSUME NEW S, NEW s \in Seq(S), s # <<>>
  PROVE  /\ Front(s) \in Seq(S) /\ Last(s) \in S /\ Last(s) \in ToSet(s)
         /\ ToSet(Front(s)) \subseteq ToSet(s) /\ ToSet(s) \subseteq S
         /\ \A f \in ToSet(s) : f = Last(s) \/ f \in ToSet(Front(s))
<1>1. Len(s) \in Nat /\ Len(s) > 0 /\ Len(s) \in DOMAIN s /\ DOMAIN s = 1..Len(s)
  OBVIOUS
<1>2. Front(s) = [i \in 1..(Len(s) - 1) |-> s[i]]
  BY <1>1 DEF Front
<1>3. Front(s) \in Seq(S) /\ Len(Front(s)) = Len(s) - 1 /\ DOMAIN Front(s) = 1..(Len(s) - 1)
  BY <1>1, <1>2
<1>4. Last(s) = s[Len(s)]
  BY DEF Last
<1>5. \A i \in DOMAIN s : s[i] \in S /\ (i = Len(s) \/ i \in DOMAIN Front(s))
  BY <1>1, <1>3
<1>6. \A i \in DOMAIN Front(s) : i \in DOMAIN s /\ Front(s)[i] = s[i]
  BY <1>1, <1>2, <1>3
<1> QED
  BY <1>1, <1>3, <1>4, <1>5, <1>6, Zenon DEF ToSet

\* The first file of a list and the ones after it.
LEMMA HeadAndTail ==
  ASSUME NEW S, NEW s \in Seq(S), s # <<>>
  PROVE  /\ Tail(s) \in Seq(S) /\ Head(s) \in S /\ Head(s) \in ToSet(s)
         /\ ToSet(s) \subseteq S
<1>1. Len(s) > 0 /\ 1 \in DOMAIN s /\ Head(s) = s[1] /\ Tail(s) \in Seq(S)
  OBVIOUS
<1>2. \A i \in DOMAIN s : s[i] \in S
  OBVIOUS
<1> QED
  BY <1>1, <1>2, Zenon DEF ToSet

\* The files of an import, and Absent, which is neither a file nor a verdict.
LEMMA JobConstants ==
  /\ ImportFiles \in Seq(Files) /\ ImportFiles # <<>>
  /\ FirstFiles \subseteq [Files -> FileStates \cup {Absent}]
  /\ Absent \notin FileStates
  /\ Absent \notin {"deleted", "disabled", "enabled", "done", "restored", "incomplete", "failed"}
BY ChangesAssumption

\* A list with one file more.
LEMMA AppendedFile ==
  ASSUME NEW S, NEW s \in Seq(S), NEW f \in S
  PROVE  /\ Append(s, f) \in Seq(S) /\ Append(s, f) # <<>>
         /\ ToSet(Append(s, f)) = ToSet(s) \cup {f}
<1>1. /\ Append(s, f) \in Seq(S) /\ Append(s, f) # <<>> /\ DOMAIN Append(s, f) = 1..(Len(s) + 1)
      /\ DOMAIN s = 1..Len(s) /\ Len(s) \in Nat /\ Append(s, f)[Len(s) + 1] = f
      /\ \A i \in 1..Len(s) : Append(s, f)[i] = s[i]
  OBVIOUS
<1>2. \A i \in DOMAIN Append(s, f) : i \in DOMAIN s \/ i = Len(s) + 1
  BY <1>1
<1>3. Len(s) + 1 \in DOMAIN Append(s, f) /\ \A i \in DOMAIN s : i \in DOMAIN Append(s, f)
  BY <1>1
<1>4. ASSUME NEW x PROVE x \in ToSet(Append(s, f)) <=> x \in ToSet(s) \cup {f}
  BY <1>1, <1>2, <1>3, Zenon DEF ToSet
<1> QED
  BY <1>1, <1>4

\* Lists of no file and of one.
LEMMA ShortLists ==
  /\ ToSet(<<>>) = {}
  /\ \A f : ToSet(<<f>>) = {f} /\ Head(<<f>>) = f /\ Last(<<f>>) = f
  /\ \A S : <<>> \in Seq(S)
  /\ \A S : \A f \in S : <<f>> \in Seq(S) /\ <<f>> # <<>>
<1>1. DOMAIN <<>> = {}
  OBVIOUS
<1>2. ASSUME NEW f PROVE DOMAIN <<f>> = {1} /\ <<f>>[1] = f /\ Head(<<f>>) = f /\ Len(<<f>>) = 1
  OBVIOUS
<1>3. ASSUME NEW f PROVE ToSet(<<f>>) = {f} /\ Last(<<f>>) = f
  BY <1>2 DEF ToSet, Last
<1>4. ToSet(<<>>) = {}
  BY <1>1 DEF ToSet
<1>5. \A S : <<>> \in Seq(S)
  OBVIOUS
<1>6. \A S : \A f \in S : <<f>> \in Seq(S) /\ <<f>> # <<>>
  OBVIOUS
<1> QED
  BY <1>2, <1>3, <1>4, <1>5, <1>6

\* What a file is alike to.
LEMMA AlikeFacts ==
  /\ \A v : Alike(v, v)
  /\ \A u, v, w : Alike(u, v) /\ Alike(v, w) => Alike(u, w)
BY DEF Alike

-----------------------------------------------------------------------------
(* The compensation.                                                       *)

\* A job can begin, or go on with, its compensation.
Undoable(j, fs, cfg) ==
  /\ JobTypeInv(j)
  /\ j.verdict = Absent /\ cfg = j.was
  /\ j.kind = "change" => j.wanted # Absent
  /\ j.kind # "change" => j.wanted = Absent
  /\ j.wanted \in {"disabled", "enabled"} => \A f \in ToSet(j.order) : j.stored[f] # Absent
  /\ \A f \in Files \ j.touched :
       /\ Alike(j.stored[f], j.before[f])
       /\ f \notin ToSet(j.order) => j.failed \/ Alike(fs[f], j.before[f])
       /\ f \in ToSet(j.order) /\ j.wanted \in {"disabled", "enabled"} =>
            fs[f] # Absent /\ fs[f].content = j.before[f].content

\* A job that has not ended can.
LEMMA JobUndoable ==
  ASSUME NEW j, NEW fs, NEW cfg, NEW dsk, JobInv(j, fs, cfg, dsk), j.stage # "ended"
  PROVE  Undoable(j, fs, cfg)
BY DEF JobInv, StagesInv, AdapterInv, DocumentsInv, Undoable

\* The end of a job, whichever it is.
LEMMA EndedFields ==
  ASSUME NEW j, JobTypeInv(j), NEW v \in {"done", "restored", "incomplete", "failed"}
  PROVE  /\ JobTypeInv(Ended(j, v)) /\ Ended(j, v).stage = "ended" /\ Ended(j, v).verdict = v
         /\ Ended(j, v).kind = j.kind /\ Ended(j, v).was = j.was /\ Ended(j, v).before = j.before
         /\ Ended(j, v).stored = j.stored /\ Ended(j, v).order = j.order
         /\ Ended(j, v).wanted = j.wanted /\ Ended(j, v).failed = j.failed
         /\ Ended(j, v).touched = j.touched /\ Ended(j, v).todo = j.todo
BY DEF Ended, JobTypeInv

\* A job that moves to another stage.
LEMMA StageFields ==
  ASSUME NEW j, JobTypeInv(j), NEW s \in Forward \cup Backward,
         NEW k, k = [j EXCEPT !.stage = s]
  PROVE  /\ JobTypeInv(k) /\ k.stage = s /\ k.verdict = j.verdict
         /\ k.kind = j.kind /\ k.was = j.was /\ k.before = j.before
         /\ k.stored = j.stored /\ k.order = j.order
         /\ k.wanted = j.wanted /\ k.failed = j.failed
         /\ k.touched = j.touched /\ k.todo = j.todo
         /\ k.doc = j.doc /\ k.providers = j.providers
BY DEF JobTypeInv

\* The compensation goes on with the last file, or ends.
LEMMA UndoInv ==
  ASSUME NEW j, NEW fs, NEW cfg, NEW dsk, Undoable(j, fs, cfg), j.kind # "login"
  PROVE  JobInv(Undo(j), fs, cfg, dsk)
<1> USE JobConstants
<1>0. /\ JobTypeInv(j) /\ j.order \in Seq(Files) /\ j.failed \in BOOLEAN
      /\ j.kind \in {"change", "import"} /\ j.touched \subseteq Files
      /\ j.wanted \in {Absent, "deleted", "disabled", "enabled"}
      /\ j.stored \in [Files -> FileStates \cup {Absent}]
  BY DEF Undoable, JobTypeInv
<1>1. CASE j.order # <<>>
  <2>1. /\ Last(j.order) \in ToSet(j.order) /\ Last(j.order) \in Files
    BY <1>0, <1>1, LastAndFront
  <2>2. PICK s \in {"status", "restore"} :
          /\ s = "status" <=> j.wanted \in {"disabled", "enabled"}
          /\ Undo(j) = [j EXCEPT !.stage = s]
    BY <1>1 DEF Undo
  <2>3. PICK k : k = Undo(j)
    OBVIOUS
  <2>4. /\ JobTypeInv(k) /\ k.stage = s /\ k.verdict = j.verdict
        /\ k.kind = j.kind /\ k.was = j.was /\ k.before = j.before
        /\ k.stored = j.stored /\ k.order = j.order
        /\ k.wanted = j.wanted /\ k.failed = j.failed /\ k.touched = j.touched
    <3>1. s \in Forward \cup Backward
      BY <2>2 DEF Backward
    <3> QED
      BY <1>0, <2>2, <2>3, <3>1, StageFields
  <2>5. StagesInv(k)
    BY <1>0, <1>1, <2>1, <2>2, <2>4 DEF StagesInv, Undoable, Forward, Backward
  <2>6. AdapterInv(k, fs)
    BY <1>0, <1>1, <2>1, <2>2, <2>4 DEF AdapterInv, Undoable
  <2>7. DocumentsInv(k, cfg, dsk)
    BY <2>2, <2>4 DEF DocumentsInv, Undoable, Forward
  <2> QED
    BY <2>3, <2>4, <2>5, <2>6, <2>7 DEF JobInv
<1>2. CASE j.order = <<>> /\ j.kind = "change"
  <2>1. PICK k : k = [j EXCEPT !.stage = "config"]
    OBVIOUS
  <2>2. /\ JobTypeInv(k) /\ k.stage = "config" /\ k.verdict = j.verdict
        /\ k.kind = j.kind /\ k.was = j.was /\ k.before = j.before
        /\ k.stored = j.stored /\ k.order = j.order
        /\ k.wanted = j.wanted /\ k.failed = j.failed /\ k.touched = j.touched
    <3>1. "config" \in Forward \cup Backward
      BY DEF Backward
    <3> QED
      BY <1>0, <2>1, <3>1, StageFields
  <2>3. StagesInv(k)
    BY <1>0, <1>2, <2>2 DEF StagesInv, Undoable, Forward, Backward
  <2>4. AdapterInv(k, fs)
    BY <1>0, <1>2, <2>2 DEF AdapterInv, Undoable
  <2>5. DocumentsInv(k, cfg, dsk)
    BY <2>2 DEF DocumentsInv, Undoable, Forward
  <2> QED
    BY <1>2, <2>1, <2>2, <2>3, <2>4, <2>5 DEF JobInv, Undo
<1>3. CASE j.order = <<>> /\ j.kind = "import"
  <2>1. PICK v \in {"incomplete", "restored"} :
          (v = "restored" => ~j.failed) /\ Undo(j) = Ended(j, v)
    BY <1>3 DEF Undo
  <2>2. PICK k : k = Undo(j)
    OBVIOUS
  <2>3. /\ JobTypeInv(k) /\ k.stage = "ended" /\ k.verdict = v
        /\ k.kind = j.kind /\ k.was = j.was /\ k.before = j.before
        /\ k.stored = j.stored /\ k.order = j.order
        /\ k.wanted = j.wanted /\ k.failed = j.failed /\ k.touched = j.touched
    BY <1>0, <2>1, <2>2, EndedFields
  <2>4. StagesInv(k)
    BY <1>0, <1>3, <2>1, <2>3 DEF StagesInv, Undoable, Forward, Backward
  <2>5. AdapterInv(k, fs)
    BY <1>0, <1>3, <2>1, <2>3 DEF AdapterInv, Undoable
  <2>6. DocumentsInv(k, cfg, dsk)
    BY <1>3, <2>1, <2>3 DEF DocumentsInv, Undoable, Forward
  <2> QED
    BY <2>2, <2>3, <2>4, <2>5, <2>6 DEF JobInv
<1> QED
  BY <1>0, <1>1, <1>2, <1>3

\* A file is restored: on to the one before it.
LEMMA RestoredInv ==
  ASSUME NEW j, NEW fs, NEW cfg, NEW dsk, Undoable(j, fs, cfg), j.kind # "login", j.order # <<>>,
         Last(j.order) \notin j.touched =>
           j.failed \/ Alike(fs[Last(j.order)], j.before[Last(j.order)])
  PROVE  JobInv(Restored(j), fs, cfg, dsk)
<1>1. JobTypeInv(j) /\ j.order \in Seq(Files)
  BY DEF Undoable, JobTypeInv
<1>2. PICK front : front = Front(j.order)
  OBVIOUS
<1>3. /\ front \in Seq(Files) /\ ToSet(front) \subseteq ToSet(j.order)
      /\ \A f \in ToSet(j.order) : f = Last(j.order) \/ f \in ToSet(front)
  BY <1>1, <1>2, LastAndFront
<1>4. PICK k : k = [j EXCEPT !.order = front]
  OBVIOUS
<1>5. /\ JobTypeInv(k) /\ k.order = front /\ k.verdict = j.verdict /\ k.was = j.was
      /\ k.kind = j.kind /\ k.before = j.before /\ k.stored = j.stored
      /\ k.wanted = j.wanted /\ k.failed = j.failed /\ k.touched = j.touched
  BY <1>1, <1>3, <1>4 DEF JobTypeInv
<1>6. Undoable(k, fs, cfg)
  BY <1>3, <1>5 DEF Undoable
<1>7. Restored(j) = Undo(k)
  BY <1>1, <1>2, <1>4 DEF Restored, JobTypeInv
<1> QED
  BY <1>5, <1>6, <1>7, UndoInv

\* A file could not be restored: on to the one before it.
LEMMA NotRestoredInv ==
  ASSUME NEW j, NEW fs, NEW cfg, NEW dsk, Undoable(j, fs, cfg), j.kind # "login", j.order # <<>>
  PROVE  JobInv(NotRestored(j), fs, cfg, dsk)
<1>1. JobTypeInv(j) /\ j.order \in Seq(Files)
  BY DEF Undoable, JobTypeInv
<1>2. PICK front : front = Front(j.order)
  OBVIOUS
<1>3. /\ front \in Seq(Files) /\ ToSet(front) \subseteq ToSet(j.order)
  BY <1>1, <1>2, LastAndFront
<1>4. PICK k : k = [j EXCEPT !.order = front, !.failed = TRUE]
  OBVIOUS
<1>5. /\ JobTypeInv(k) /\ k.order = front /\ k.verdict = j.verdict /\ k.was = j.was
      /\ k.kind = j.kind /\ k.before = j.before /\ k.stored = j.stored
      /\ k.wanted = j.wanted /\ k.failed = TRUE /\ k.touched = j.touched
  BY <1>1, <1>3, <1>4 DEF JobTypeInv
<1>6. Undoable(k, fs, cfg)
  BY <1>3, <1>5 DEF Undoable
<1>7. NotRestored(j) = Undo(k)
  BY <1>1, <1>2, <1>4 DEF NotRestored, JobTypeInv
<1> QED
  BY <1>5, <1>6, <1>7, UndoInv

\* A job gives up what it was doing.
LEMMA AbortInv ==
  ASSUME NEW j, NEW fs, NEW cfg, NEW dsk, Undoable(j, fs, cfg),
         j.kind = "login" => j.order = <<>>
  PROVE  JobInv(Abort(j), fs, cfg, dsk)
<1> USE JobConstants
<1>1. CASE j.kind = "login"
  <2>1. PICK k : k = Ended(j, "failed")
    OBVIOUS
  <2>2. /\ JobTypeInv(k) /\ k.stage = "ended" /\ k.verdict = "failed"
        /\ k.kind = j.kind /\ k.was = j.was /\ k.before = j.before
        /\ k.stored = j.stored /\ k.order = j.order
        /\ k.wanted = j.wanted /\ k.failed = j.failed /\ k.touched = j.touched
    BY <2>1, EndedFields DEF Undoable
  <2>3. StagesInv(k)
    BY <1>1, <2>2 DEF StagesInv, Undoable, Forward, Backward
  <2>4. AdapterInv(k, fs)
    BY <1>1, <2>2, ShortLists DEF AdapterInv, Undoable
  <2>5. DocumentsInv(k, cfg, dsk)
    BY <2>2 DEF DocumentsInv, Undoable, Forward
  <2> QED
    BY <1>1, <2>1, <2>2, <2>3, <2>4, <2>5 DEF JobInv, Abort
<1>2. CASE j.kind # "login"
  BY <1>2, UndoInv DEF Abort
<1> QED
  BY <1>1, <1>2

\* A job whose files are dealt with saves its configuration, or is done.
LEMMA SettledInv ==
  ASSUME NEW j, NEW fs, NEW cfg, NEW dsk, JobTypeInv(j),
         JobInv([j EXCEPT !.stage = "save"], fs, cfg, dsk)
  PROVE  JobInv(Settled(j), fs, cfg, dsk)
<1> USE JobConstants
<1>1. CASE j.doc = j.was
  <2>1. PICK k : k = Ended(j, "done")
    OBVIOUS
  <2>2. /\ JobTypeInv(k) /\ k.stage = "ended" /\ k.verdict = "done"
        /\ k.kind = j.kind /\ k.was = j.was /\ k.before = j.before
        /\ k.stored = j.stored /\ k.order = j.order
        /\ k.wanted = j.wanted /\ k.failed = j.failed /\ k.touched = j.touched
    BY <2>1, EndedFields
  <2>3. PICK i : i = [j EXCEPT !.stage = "save"]
    OBVIOUS
  <2>4. "save" \in Forward \cup Backward
    BY DEF Forward
  <2>5. /\ i.stage = "save" /\ i.verdict = j.verdict
        /\ i.kind = j.kind /\ i.was = j.was /\ i.before = j.before
        /\ i.stored = j.stored /\ i.order = j.order
        /\ i.wanted = j.wanted /\ i.failed = j.failed /\ i.touched = j.touched
    BY <2>3, <2>4, StageFields
  <2>6. StagesInv(i) /\ AdapterInv(i, fs) /\ DocumentsInv(i, cfg, dsk)
    BY <2>3 DEF JobInv
  <2>7. StagesInv(k)
    BY <2>2, <2>5, <2>6 DEF StagesInv, Forward, Backward
  <2>8. AdapterInv(k, fs)
    <3>1. /\ k.stage \notin {"inspect", "snapshot", "upload", "apply", "status", "verify",
                          "snapshot", "ensure"}
          /\ i.stage \in {"catalog", "save"} /\ k.touched = i.touched
      BY <2>2, <2>5
    <3>2. ASSUME NEW f \in Files \ i.touched
          PROVE  /\ Alike(i.stored[f], i.before[f])
                 /\ f \notin ToSet(i.order) => i.failed \/ Alike(fs[f], i.before[f])
                 /\ f \in ToSet(i.order) /\ i.wanted \in {"disabled", "enabled"} =>
                      fs[f] # Absent /\ fs[f].content = i.before[f].content
                 /\ f \in ToSet(i.order) =>
                      IF i.kind = "change" THEN Applied(i, fs[f])
                      ELSE Alike(fs[f], File("imported"))
      BY <2>6, <3>1, <3>2 DEF AdapterInv
    <3>3. \A f \in Files : Applied(k, fs[f]) = Applied(i, fs[f])
      BY <2>2, <2>5 DEF Applied
    <3> QED
      BY <2>2, <2>5, <3>1, <3>2, <3>3 DEF AdapterInv
  <2>9. DocumentsInv(k, cfg, dsk)
    BY <2>2, <2>5, <2>6 DEF DocumentsInv, StagesInv, Forward
  <2> QED
    BY <1>1, <2>1, <2>2, <2>7, <2>8, <2>9 DEF JobInv, Settled
<1>2. CASE j.doc # j.was
  BY <1>2 DEF Settled
<1> QED
  BY <1>1, <1>2

\* An import between two credentials: those of the list have been uploaded.
Importing(j, fs, cfg, dsk) ==
  /\ JobTypeInv(j)
  /\ j.kind = "import" /\ j.verdict = Absent /\ j.wanted = Absent /\ ~j.failed
  /\ cfg = j.was /\ dsk = j.was
  /\ \A f \in Files : j.stored[f] # Absent => fs[f] # Absent
  /\ \A f \in Files \ j.touched :
       /\ Alike(j.stored[f], j.before[f])
       /\ f \notin ToSet(j.order) => Alike(fs[f], j.before[f])
       /\ f \in ToSet(j.order) => Alike(fs[f], File("imported"))

\* It goes on with the next one, or with the configuration.
LEMMA NextItemInv ==
  ASSUME NEW j, NEW fs, NEW cfg, NEW dsk, NEW s \in {"inspect", "snapshot"},
         Importing(j, fs, cfg, dsk), j.todo # <<>>, s = "inspect" => j.order = <<>>
  PROVE  JobInv(NextItem(j, s), fs, cfg, dsk)
<1> USE JobConstants
<1>1. JobTypeInv(j) /\ j.todo \in Seq(Files)
  BY DEF Importing, JobTypeInv
<1>2. PICK rest \in Seq(Files) : rest = Tail(j.todo)
  BY <1>1, HeadAndTail
<1>3. PICK n : n = [j EXCEPT !.todo = rest]
  OBVIOUS
<1>4. /\ JobTypeInv(n) /\ n.todo = rest /\ n.verdict = j.verdict
      /\ n.kind = j.kind /\ n.was = j.was /\ n.before = j.before
      /\ n.stored = j.stored /\ n.order = j.order
      /\ n.wanted = j.wanted /\ n.failed = j.failed /\ n.touched = j.touched
  BY <1>1, <1>2, <1>3 DEF JobTypeInv
<1>5. ASSUME NEW t \in {"inspect", "snapshot", "ensure", "save"}, NEW k,
             k = [n EXCEPT !.stage = t],
             t \in {"inspect", "snapshot"} => rest # <<>>, t = "inspect" => s = "inspect"
      PROVE  JobInv(k, fs, cfg, dsk)
  <2>1. t \in Forward \cup Backward
    BY <1>5 DEF Forward
  <2>2. /\ JobTypeInv(k) /\ k.stage = t /\ k.verdict = j.verdict
        /\ k.kind = j.kind /\ k.was = j.was /\ k.before = j.before
        /\ k.stored = j.stored /\ k.order = j.order /\ k.todo = rest
        /\ k.wanted = j.wanted /\ k.failed = j.failed /\ k.touched = j.touched
    BY <1>4, <1>5, <2>1, StageFields
  <2>3. StagesInv(k)
    BY <1>5, <2>2 DEF StagesInv, Importing, Forward, Backward
  <2>4. AdapterInv(k, fs)
    BY <1>5, <2>2 DEF AdapterInv, Importing
  <2>5. DocumentsInv(k, cfg, dsk)
    BY <2>2 DEF DocumentsInv, Importing, Forward
  <2> QED
    BY <2>2, <2>3, <2>4, <2>5 DEF JobInv
<1>6. NextItem(j, s) = IF rest # <<>> THEN [n EXCEPT !.stage = s]
                       ELSE IF n.providers # {} THEN [n EXCEPT !.stage = "ensure"]
                       ELSE Settled(n)
  <2>1. [j EXCEPT !.todo = Tail(@)] = n
    BY <1>1, <1>2, <1>3 DEF JobTypeInv
  <2> QED
    BY <1>4, <2>1 DEF NextItem
<1>7. CASE rest # <<>>
  BY <1>5, <1>6, <1>7
<1>8. CASE rest = <<>> /\ n.providers # {}
  BY <1>5, <1>6, <1>8
<1>9. CASE rest = <<>> /\ n.providers = {}
  <2>1. JobInv([n EXCEPT !.stage = "save"], fs, cfg, dsk)
    BY <1>5
  <2> QED
    BY <1>4, <1>6, <1>9, <2>1, SettledInv
<1> QED
  BY <1>7, <1>8, <1>9

-----------------------------------------------------------------------------
(* The steps of a job keep the invariant.                                  *)

\* What holds while a job holds the lock.
LEMMA JobHeld ==
  ASSUME ChangesInv, job.stage # "free"
  PROVE  /\ JobInv(job, files, published, disk) /\ JobTypeInv(job)
         /\ job.order \in Seq(Files) /\ job.todo \in Seq(Files)
         /\ job.stored \in [Files -> FileStates \cup {Absent}]
         /\ files \in [Files -> FileStates \cup {Absent}]
BY DEF ChangesInv, Free, JobInv, JobTypeInv

\* A file restored, or deleted again, is followed by its flag or by the next file.
LEMMA RestoreInv ==
  ASSUME ChangesInv, NEW outcome \in Outcomes, Restore(outcome)
  PROVE  ChangesInv'
<1> USE JobConstants
<1>0. PICK f : f = Last(job.order)
  OBVIOUS
<1>1. job.stage = "restore" /\ UNCHANGED <<disk, published>>
  BY DEF Restore
<1>2. /\ JobInv(job, files, published, disk) /\ JobTypeInv(job)
      /\ job.stored \in [Files -> FileStates \cup {Absent}]
      /\ files \in [Files -> FileStates \cup {Absent}]
      /\ Undoable(job, files, published) /\ job.order \in Seq(Files)
  BY <1>1, JobHeld, JobUndoable
<1>3. /\ job.order # <<>> /\ job.wanted \in {Absent, "deleted"} /\ job.kind # "login"
  BY <1>1, <1>2 DEF JobInv, StagesInv
<1>4. f \in Files /\ f \in ToSet(job.order)
  BY <1>0, <1>2, <1>3, LastAndFront
<1>5. /\ files' \in [Files -> FileStates \cup {Absent}]
      /\ \A g \in Files : g # f => files'[g] = files[g]
      /\ outcome = "answered" /\ job.stored[f] = Absent => files'[f] = Absent
      /\ outcome = "answered" /\ job.stored[f] # Absent =>
           files'[f] # Absent /\ files'[f].content = job.stored[f].content
  <2>1. PICK value : value = IF job.stored[f] = Absent THEN Absent ELSE File(job.stored[f].content)
    OBVIOUS
  <2>2. /\ value \in FileStates \cup {Absent}
        /\ job.stored[f] # Absent => value # Absent /\ value.content = job.stored[f].content
    <3>1. CASE job.stored[f] = Absent
      BY <2>1, <3>1
    <3>2. CASE job.stored[f] # Absent
      <4>1. job.stored[f] \in FileStates
        BY <1>2, <1>4, <3>2
      <4>2. File(job.stored[f].content) \in FileStates
        BY <4>1 DEF File, FileStates
      <4> QED
        BY <2>1, <3>2, <4>2 DEF File
    <3> QED
      BY <3>1, <3>2
  <2>3. files' = IF outcome = "failed" THEN files ELSE [files EXCEPT ![f] = value]
    BY <1>0, <2>1 DEF Restore, Stored
  <2> QED
    BY <1>2, <1>4, <2>1, <2>2, <2>3
<1>6. Undoable(job, files', published)
  BY <1>2, <1>3, <1>4, <1>5 DEF Undoable
<1>7. CASE outcome # "answered"
  <2>1. job' = NotRestored(job)
    BY <1>7 DEF Restore
  <2> QED
    BY <1>1, <1>3, <1>5, <1>6, <2>1, NotRestoredInv DEF ChangesInv
<1>8. CASE outcome = "answered" /\ job.stored[f] = Absent
  <2>1. job' = Restored(job)
    BY <1>0, <1>8 DEF Restore
  <2>2. f \notin job.touched => Alike(files'[f], job.before[f])
    BY <1>2, <1>4, <1>5, <1>8 DEF Undoable, Alike
  <2> QED
    BY <1>0, <1>1, <1>3, <1>5, <1>6, <2>1, <2>2, RestoredInv DEF ChangesInv
<1>9. CASE outcome = "answered" /\ job.stored[f] # Absent
  <2>1. job' = [job EXCEPT !.stage = "status"]
    BY <1>0, <1>9 DEF Restore
  <2>2. "status" \in Forward \cup Backward
    BY DEF Backward
  <2>3. PICK k : k = job'
    OBVIOUS
  <2>4. /\ JobTypeInv(k) /\ k.stage = "status" /\ k.verdict = job.verdict
        /\ k.kind = job.kind /\ k.was = job.was /\ k.before = job.before
        /\ k.stored = job.stored /\ k.order = job.order
        /\ k.wanted = job.wanted /\ k.failed = job.failed /\ k.touched = job.touched
    BY <1>2, <2>1, <2>2, <2>3, StageFields
  <2>5. StagesInv(k)
    BY <1>0, <1>1, <1>2, <1>3, <1>9, <2>4 DEF JobInv, StagesInv, Forward, Backward
  <2>6. f \notin job.touched => files'[f] # Absent /\ files'[f].content = job.before[f].content
    BY <1>2, <1>4, <1>5, <1>9 DEF Undoable, Alike
  <2>7. AdapterInv(k, files')
    BY <1>0, <1>3, <1>6, <2>4, <2>6 DEF AdapterInv, Undoable
  <2>8. DocumentsInv(k, published', disk')
    BY <1>1, <1>2, <2>4 DEF JobInv, DocumentsInv, Forward
  <2> QED
    BY <1>5, <2>3, <2>4, <2>5, <2>7, <2>8 DEF ChangesInv, JobInv
<1> QED
  BY <1>7, <1>8, <1>9

\* The flag set back is followed by a look at it, or by the next file.
LEMMA RestoreStatusInv ==
  ASSUME ChangesInv, NEW outcome \in Outcomes, RestoreStatus(outcome)
  PROVE  ChangesInv'
<1> USE JobConstants
<1>0. PICK f : f = Last(job.order)
  OBVIOUS
<1>1. job.stage = "status" /\ UNCHANGED <<disk, published>> /\ files[f] # Absent
  BY <1>0 DEF RestoreStatus
<1>2. /\ JobInv(job, files, published, disk) /\ JobTypeInv(job)
      /\ job.stored \in [Files -> FileStates \cup {Absent}]
      /\ files \in [Files -> FileStates \cup {Absent}]
      /\ Undoable(job, files, published) /\ job.order \in Seq(Files)
  BY <1>1, JobHeld, JobUndoable
<1>3. /\ job.order # <<>> /\ job.kind # "login" /\ job.stored[f] # Absent
  BY <1>0, <1>1, <1>2 DEF JobInv, StagesInv
<1>4. f \in Files /\ f \in ToSet(job.order)
  BY <1>0, <1>2, <1>3, LastAndFront
<1>5. /\ files' \in [Files -> FileStates \cup {Absent}]
      /\ \A g \in Files : g # f => files'[g] = files[g]
      /\ files'[f] # Absent /\ files'[f].content = files[f].content
  <2>1. files[f] \in FileStates /\ job.stored[f] \in FileStates
    BY <1>1, <1>2, <1>3, <1>4
  <2>2. PICK value : value = [files[f] EXCEPT !.disabled = job.stored[f].disabled]
    OBVIOUS
  <2>3. value \in FileStates /\ value.content = files[f].content
    BY <2>1, <2>2 DEF FileStates
  <2>4. files' = IF outcome = "failed" THEN files ELSE [files EXCEPT ![f] = value]
    BY <1>0, <2>2 DEF RestoreStatus, Stored
  <2> QED
    BY <1>1, <1>2, <1>4, <2>3, <2>4
<1>6. Undoable(job, files', published)
  BY <1>2, <1>3, <1>4, <1>5 DEF Undoable
<1>7. CASE outcome # "answered"
  <2>1. job' = NotRestored(job)
    BY <1>7 DEF RestoreStatus
  <2> QED
    BY <1>1, <1>3, <1>5, <1>6, <2>1, NotRestoredInv DEF ChangesInv
<1>8. CASE outcome = "answered"
  <2>1. job' = [job EXCEPT !.stage = "verify"]
    BY <1>8 DEF RestoreStatus
  <2>2. "verify" \in Forward \cup Backward
    BY DEF Backward
  <2>3. PICK k : k = job'
    OBVIOUS
  <2>4. /\ JobTypeInv(k) /\ k.stage = "verify" /\ k.verdict = job.verdict
        /\ k.kind = job.kind /\ k.was = job.was /\ k.before = job.before
        /\ k.stored = job.stored /\ k.order = job.order
        /\ k.wanted = job.wanted /\ k.failed = job.failed /\ k.touched = job.touched
    BY <1>2, <2>1, <2>2, <2>3, StageFields
  <2>5. StagesInv(k)
    BY <1>0, <1>1, <1>2, <1>3, <2>4 DEF JobInv, StagesInv, Forward, Backward
  <2>6. f \notin job.touched => files'[f] # Absent /\ files'[f].content = job.before[f].content
    BY <1>0, <1>1, <1>2, <1>4, <1>5 DEF JobInv, AdapterInv
  <2>7. AdapterInv(k, files')
    BY <1>0, <1>3, <1>6, <2>4, <2>6 DEF AdapterInv, Undoable
  <2>8. DocumentsInv(k, published', disk')
    BY <1>1, <1>2, <2>4 DEF JobInv, DocumentsInv, Forward
  <2> QED
    BY <1>5, <2>3, <2>4, <2>5, <2>7, <2>8 DEF ChangesInv, JobInv
<1> QED
  BY <1>7, <1>8

\* A flag that is confirmed makes the file restored.
LEMMA VerifyInv ==
  ASSUME ChangesInv, NEW outcome \in Outcomes, Verify(outcome)
  PROVE  ChangesInv'
<1> USE JobConstants
<1>0. PICK f : f = Last(job.order)
  OBVIOUS
<1>1. job.stage = "verify" /\ UNCHANGED <<files, disk, published>>
  BY DEF Verify
<1>2. /\ JobInv(job, files, published, disk)
      /\ files \in [Files -> FileStates \cup {Absent}]
      /\ Undoable(job, files, published) /\ job.order \in Seq(Files)
  BY <1>1, JobHeld, JobUndoable
<1>3. /\ job.order # <<>> /\ job.kind # "login" /\ job.stored[f] # Absent
  BY <1>0, <1>1, <1>2 DEF JobInv, StagesInv
<1>4. f \in Files
  BY <1>0, <1>2, <1>3, LastAndFront
<1>5. CASE job' = NotRestored(job)
  BY <1>1, <1>2, <1>3, <1>5, NotRestoredInv DEF ChangesInv
<1>6. CASE job' = Restored(job) /\ files[f].disabled = job.stored[f].disabled
  <2>1. f \notin job.touched => Alike(files[f], job.before[f])
    BY <1>0, <1>1, <1>2, <1>3, <1>4, <1>6 DEF JobInv, AdapterInv, Alike
  <2> QED
    BY <1>0, <1>1, <1>2, <1>3, <1>6, <2>1, RestoredInv DEF ChangesInv
<1> QED
  BY <1>0, <1>5, <1>6 DEF Verify

\* The configuration that was published is written back, or it is not.
LEMMA RestoreConfigInv ==
  ASSUME ChangesInv, NEW outcome \in Outcomes, RestoreConfig(outcome)
  PROVE  ChangesInv'
<1> USE JobConstants
<1>1. job.stage = "config" /\ UNCHANGED <<files, published>>
      /\ disk' = IF outcome = "failed" THEN disk ELSE job.was
  BY DEF RestoreConfig
<1>2. /\ JobInv(job, files, published, disk) /\ JobTypeInv(job)
      /\ files \in [Files -> FileStates \cup {Absent}]
      /\ Undoable(job, files, published)
  BY <1>1, JobHeld, JobUndoable
<1>3. PICK v \in {"incomplete", "restored"} :
        /\ job' = Ended(job, v)
        /\ v = "restored" => ~job.failed /\ outcome = "answered"
  BY DEF RestoreConfig
<1>4. PICK k : k = job'
  OBVIOUS
<1>5. /\ JobTypeInv(k) /\ k.stage = "ended" /\ k.verdict = v
      /\ k.kind = job.kind /\ k.was = job.was /\ k.before = job.before
      /\ k.stored = job.stored /\ k.order = job.order
      /\ k.wanted = job.wanted /\ k.failed = job.failed /\ k.touched = job.touched
  BY <1>2, <1>3, <1>4, EndedFields
<1>6. StagesInv(k)
  BY <1>1, <1>2, <1>3, <1>5 DEF JobInv, StagesInv, Forward, Backward
<1>7. AdapterInv(k, files')
  BY <1>1, <1>2, <1>3, <1>5 DEF AdapterInv, Undoable
<1>8. DocumentsInv(k, published', disk')
  BY <1>1, <1>2, <1>3, <1>5 DEF JobInv, DocumentsInv, Forward
<1> QED
  BY <1>1, <1>2, <1>4, <1>5, <1>6, <1>7, <1>8 DEF ChangesInv, JobInv

\* A deadline that passes turns the job back.
LEMMA ExpireInv ==
  ASSUME ChangesInv, Expire
  PROVE  ChangesInv'
<1>1. /\ job.stage \in {"catalog", "ensure"} /\ job' = Abort(job)
      /\ UNCHANGED <<files, disk, published>>
  BY DEF Expire
<1>2. /\ JobInv(job, files, published, disk)
      /\ files \in [Files -> FileStates \cup {Absent}]
      /\ Undoable(job, files, published)
  BY <1>1, JobHeld, JobUndoable
<1>3. job.kind # "login"
  BY <1>1, <1>2 DEF JobInv, StagesInv
<1> QED
  BY <1>1, <1>2, <1>3, AbortInv DEF ChangesInv

\* A configuration that is saved ends the job; one that is not turns it back.
LEMMA SaveInv ==
  ASSUME ChangesInv, NEW outcome \in Outcomes, Save(outcome)
  PROVE  ChangesInv'
<1> USE JobConstants
<1>1. job.stage = "save" /\ UNCHANGED files
  BY DEF Save
<1>2. /\ JobInv(job, files, published, disk) /\ JobTypeInv(job)
      /\ files \in [Files -> FileStates \cup {Absent}]
      /\ Undoable(job, files, published)
  BY <1>1, JobHeld, JobUndoable
<1>3. CASE /\ disk' = Normalized(job.doc) /\ published' = Normalized(job.doc)
           /\ job' = Ended(job, "done")
  <2>1. PICK k : k = job'
    OBVIOUS
  <2>2. /\ JobTypeInv(k) /\ k.stage = "ended" /\ k.verdict = "done"
        /\ k.kind = job.kind /\ k.was = job.was /\ k.before = job.before
        /\ k.stored = job.stored /\ k.order = job.order
        /\ k.wanted = job.wanted /\ k.failed = job.failed /\ k.touched = job.touched
    BY <1>2, <1>3, <2>1, EndedFields
  <2>3. StagesInv(k)
    BY <1>1, <1>2, <2>2 DEF JobInv, StagesInv, Forward, Backward
  <2>4. AdapterInv(k, files')
    <3>1. \A f \in Files : Applied(k, files[f]) = Applied(job, files[f])
      BY <2>2 DEF Applied
    <3> QED
      BY <1>1, <1>2, <2>2, <3>1 DEF JobInv, AdapterInv
  <2>5. DocumentsInv(k, published', disk')
    BY <1>1, <1>2, <1>3, <2>2 DEF JobInv, StagesInv, DocumentsInv, Forward
  <2> QED
    BY <1>1, <1>2, <2>1, <2>2, <2>3, <2>4, <2>5 DEF ChangesInv, JobInv
<1>4. CASE job' = Abort(job) /\ published' = published
  <2>1. job.kind = "login" => job.order = <<>>
    BY <1>2 DEF JobInv, StagesInv
  <2> QED
    BY <1>1, <1>2, <1>4, <2>1, AbortInv DEF ChangesInv
<1> QED
  BY <1>3, <1>4 DEF Save, Publish

\* A credential that is there is about to be changed.
LEMMA ChangeInv ==
  ASSUME ChangesInv, NEW f \in Files, NEW wanted \in {"deleted", "disabled", "enabled"},
         Change(f, wanted)
  PROVE  ChangesInv'
<1> USE JobConstants
<1>1. /\ disk = published /\ files[f] # Absent /\ UNCHANGED <<files, disk, published>>
      /\ job' = [Job("change", "apply", published) EXCEPT !.wanted = wanted, !.order = <<f>>]
  BY DEF Change, MayChange
<1>2. files \in [Files -> FileStates \cup {Absent}]
  BY DEF ChangesInv
<1>3. PICK k : k = job'
  OBVIOUS
<1>4. PICK i : i = Job("change", "apply", published)
  OBVIOUS
<1>5. <<f>> \in Seq(Files) /\ <<>> \in Seq(Files) /\ <<f>> # <<>>
  OBVIOUS
<1>6. /\ JobTypeInv(k) /\ k.stage = "apply" /\ k.verdict = Absent
      /\ k.kind = "change" /\ k.was = published /\ k.before = files
      /\ k.stored = files /\ k.order = <<f>> /\ k.todo = <<>>
      /\ k.wanted = wanted /\ k.failed = FALSE /\ k.touched = {}
  <2>1. /\ JobTypeInv(i) /\ i.stage = "apply" /\ i.verdict = Absent
        /\ i.kind = "change" /\ i.was = published /\ i.before = files
        /\ i.stored = files /\ i.order = <<>> /\ i.todo = <<>>
        /\ i.wanted = Absent /\ i.failed = FALSE /\ i.touched = {}
    BY <1>2, <1>4, <1>5 DEF Job, JobTypeInv, Forward
  <2>2. k = [i EXCEPT !.wanted = wanted, !.order = <<f>>]
    BY <1>1, <1>3, <1>4
  <2> QED
    BY <1>5, <2>1, <2>2 DEF JobTypeInv
<1>7. ToSet(<<f>>) = {f} /\ Head(<<f>>) = f
  BY ShortLists
<1>8. StagesInv(k)
  BY <1>1, <1>5, <1>6, <1>7 DEF StagesInv, Forward
<1>9. AdapterInv(k, files)
  BY <1>1, <1>6, <1>7 DEF AdapterInv, Alike
<1>10. DocumentsInv(k, published, disk)
  BY <1>1, <1>6 DEF DocumentsInv, Forward
<1> QED
  BY <1>1, <1>2, <1>3, <1>6, <1>8, <1>9, <1>10 DEF ChangesInv, JobInv

\* After a login there is only the configuration to change.
LEMMA LoginInv ==
  ASSUME ChangesInv, NEW provider, NEW models, Login(provider, models)
  PROVE  ChangesInv'
<1> USE JobConstants
<1>1. /\ disk = published /\ UNCHANGED <<files, disk, published>>
      /\ job' = Job("login", "save", Ensured(published, provider, models))
  BY DEF Login, MayChange
<1>2. files \in [Files -> FileStates \cup {Absent}]
  BY DEF ChangesInv
<1>3. PICK k : k = job'
  OBVIOUS
<1>4. <<>> \in Seq(Files)
  OBVIOUS
<1>5. /\ JobTypeInv(k) /\ k.stage = "save" /\ k.verdict = Absent
      /\ k.kind = "login" /\ k.was = published /\ k.before = files
      /\ k.stored = files /\ k.order = <<>> /\ k.todo = <<>>
      /\ k.wanted = Absent /\ k.failed = FALSE /\ k.touched = {}
  BY <1>1, <1>2, <1>3, <1>4 DEF Job, JobTypeInv, Forward
<1>6. ToSet(<<>>) = {}
  BY ShortLists
<1>7. StagesInv(k)
  BY <1>5, <1>6 DEF StagesInv, Forward
<1>8. AdapterInv(k, files)
  BY <1>5, <1>6 DEF AdapterInv, Alike
<1>9. DocumentsInv(k, published, disk)
  BY <1>1, <1>5 DEF DocumentsInv, Forward
<1> QED
  BY <1>1, <1>2, <1>3, <1>5, <1>7, <1>8, <1>9 DEF ChangesInv, JobInv

\* An import begins with its list of credentials.
LEMMA ImportInv ==
  ASSUME ChangesInv, NEW upsert, Import(upsert)
  PROVE  ChangesInv'
<1> USE JobConstants
<1>1. /\ disk = published /\ UNCHANGED <<files, disk, published>>
      /\ job' = [Job("import", "inspect", WithImport(published, upsert))
                   EXCEPT !.todo = ImportFiles]
  BY DEF Import, MayChange
<1>2. files \in [Files -> FileStates \cup {Absent}]
  BY DEF ChangesInv
<1>3. PICK k : k = job'
  OBVIOUS
<1>4. PICK i : i = Job("import", "inspect", WithImport(published, upsert))
  OBVIOUS
<1>5. <<>> \in Seq(Files)
  OBVIOUS
<1>6. /\ JobTypeInv(k) /\ k.stage = "inspect" /\ k.verdict = Absent
      /\ k.kind = "import" /\ k.was = published /\ k.before = files
      /\ k.stored = files /\ k.order = <<>> /\ k.todo = ImportFiles
      /\ k.wanted = Absent /\ k.failed = FALSE /\ k.touched = {}
  <2>1. /\ JobTypeInv(i) /\ i.stage = "inspect" /\ i.verdict = Absent
        /\ i.kind = "import" /\ i.was = published /\ i.before = files
        /\ i.stored = files /\ i.order = <<>> /\ i.todo = <<>>
        /\ i.wanted = Absent /\ i.failed = FALSE /\ i.touched = {}
    BY <1>2, <1>4, <1>5 DEF Job, JobTypeInv, Forward
  <2>2. k = [i EXCEPT !.todo = ImportFiles]
    BY <1>1, <1>3, <1>4
  <2> QED
    BY <1>5, <2>1, <2>2 DEF JobTypeInv
<1>7. ToSet(<<>>) = {}
  BY ShortLists
<1>8. StagesInv(k)
  BY <1>6, <1>7 DEF StagesInv, Forward
<1>9. AdapterInv(k, files)
  BY <1>6, <1>7 DEF AdapterInv, Alike
<1>10. DocumentsInv(k, published, disk)
  BY <1>1, <1>6 DEF DocumentsInv, Forward
<1> QED
  BY <1>1, <1>2, <1>3, <1>6, <1>8, <1>9, <1>10 DEF ChangesInv, JobInv

\* The credential is changed, or the job turns back whatever the call did.
LEMMA ApplyInv ==
  ASSUME ChangesInv, NEW outcome \in Outcomes, Apply(outcome)
  PROVE  ChangesInv'
<1> USE JobConstants
<1>0. PICK f : f = Head(job.order)
  OBVIOUS
<1>1. job.stage = "apply" /\ UNCHANGED <<disk, published>>
  BY DEF Apply
<1>2. /\ JobInv(job, files, published, disk) /\ JobTypeInv(job)
      /\ files \in [Files -> FileStates \cup {Absent}]
      /\ Undoable(job, files, published) /\ job.order \in Seq(Files)
  BY <1>1, JobHeld, JobUndoable
<1>3. /\ job.order # <<>> /\ job.order = <<f>> /\ job.kind = "change"
      /\ job.wanted \in {"deleted", "disabled", "enabled"} /\ files[f] # Absent
      /\ job.failed = FALSE
  BY <1>0, <1>1, <1>2 DEF JobInv, JobTypeInv, StagesInv, AdapterInv, Forward
<1>4. f \in Files /\ ToSet(job.order) = {f}
  BY <1>0, <1>2, <1>3, HeadAndTail, ShortLists
<1>5. /\ files' \in [Files -> FileStates \cup {Absent}]
      /\ \A g \in Files : g # f => files'[g] = files[g]
      /\ job.wanted # "deleted" => files'[f] # Absent /\ files'[f].content = files[f].content
      /\ outcome = "answered" => Applied(job, files'[f])
  <2>1. files[f] \in FileStates
    BY <1>2, <1>3, <1>4
  <2>2. PICK value : value = IF job.wanted = "deleted" THEN Absent
                             ELSE [files[f] EXCEPT !.disabled = job.wanted = "disabled"]
    OBVIOUS
  <2>3. files' = IF outcome = "failed" THEN files ELSE [files EXCEPT ![f] = value]
    BY <1>0, <2>2 DEF Apply, Stored
  <2>4. /\ value \in FileStates \cup {Absent} /\ Applied(job, value)
        /\ job.wanted # "deleted" => value # Absent /\ value.content = files[f].content
    <3>1. CASE job.wanted = "deleted"
      BY <2>2, <3>1 DEF Applied
    <3>2. CASE job.wanted = "disabled"
      <4>1. value = [files[f] EXCEPT !.disabled = TRUE]
        BY <2>2, <3>2
      <4>2. value \in FileStates /\ value.content = files[f].content /\ value.disabled = TRUE
        BY <2>1, <4>1 DEF FileStates
      <4> QED
        BY <3>2, <4>2 DEF Applied
    <3>3. CASE job.wanted = "enabled"
      <4>1. value = [files[f] EXCEPT !.disabled = FALSE]
        BY <2>2, <3>3
      <4>2. value \in FileStates /\ value.content = files[f].content /\ value.disabled = FALSE
        BY <2>1, <4>1 DEF FileStates
      <4> QED
        BY <3>3, <4>2 DEF Applied
    <3> QED
      BY <1>3, <3>1, <3>2, <3>3
  <2> QED
    BY <1>2, <1>3, <1>4, <2>3, <2>4
<1>6. Undoable(job, files', published)
  BY <1>2, <1>3, <1>4, <1>5 DEF Undoable
<1>7. CASE outcome # "answered"
  <2>1. job' = Abort(job) /\ job.kind # "login"
    BY <1>3, <1>7 DEF Apply
  <2> QED
    BY <1>1, <1>5, <1>6, <2>1, AbortInv DEF ChangesInv
<1>8. CASE outcome = "answered"
  <2>1. job' = [job EXCEPT !.stage = "catalog"]
    BY <1>8 DEF Apply
  <2>2. "catalog" \in Forward \cup Backward
    BY DEF Forward
  <2>3. PICK k : k = job'
    OBVIOUS
  <2>4. /\ JobTypeInv(k) /\ k.stage = "catalog" /\ k.verdict = job.verdict
        /\ k.kind = job.kind /\ k.was = job.was /\ k.before = job.before
        /\ k.stored = job.stored /\ k.order = job.order
        /\ k.wanted = job.wanted /\ k.failed = job.failed /\ k.touched = job.touched
    BY <1>2, <2>1, <2>2, <2>3, StageFields
  <2>5. StagesInv(k)
    BY <1>0, <1>1, <1>2, <1>3, <2>4 DEF JobInv, StagesInv, Forward, Backward
  <2>6. Applied(k, files'[f]) = Applied(job, files'[f])
    BY <2>4 DEF Applied
  <2>7. AdapterInv(k, files')
    BY <1>3, <1>4, <1>5, <1>6, <1>8, <2>4, <2>6, ZenonT(40) DEF AdapterInv, Undoable
  <2>8. DocumentsInv(k, published', disk')
    BY <1>1, <1>2, <2>4 DEF JobInv, DocumentsInv, StagesInv, Forward
  <2> QED
    BY <1>5, <2>3, <2>4, <2>5, <2>7, <2>8 DEF ChangesInv, JobInv
<1> QED
  BY <1>7, <1>8

\* The pools are worked out from what the adapter announces now.
LEMMA ReadCatalogInv ==
  ASSUME ChangesInv, NEW available, NEW models, ReadCatalog(available, models)
  PROVE  ChangesInv'
<1> USE JobConstants
<1>1. job.stage = "catalog" /\ UNCHANGED <<files, disk, published>>
  BY DEF ReadCatalog
<1>2. /\ JobInv(job, files, published, disk) /\ JobTypeInv(job)
      /\ files \in [Files -> FileStates \cup {Absent}]
  BY <1>1, JobHeld
<1>3. PICK i : i = [job EXCEPT !.doc = Reconciliation(published, available, models)]
  OBVIOUS
<1>4. /\ JobTypeInv(i) /\ i.stage = job.stage /\ i.verdict = job.verdict
      /\ i.kind = job.kind /\ i.was = job.was /\ i.before = job.before
      /\ i.stored = job.stored /\ i.order = job.order /\ i.todo = job.todo
      /\ i.wanted = job.wanted /\ i.failed = job.failed /\ i.touched = job.touched
  BY <1>2, <1>3 DEF JobTypeInv
<1>5. PICK k : k = [i EXCEPT !.stage = "save"]
  OBVIOUS
<1>6. "save" \in Forward \cup Backward
  BY DEF Forward
<1>7. /\ JobTypeInv(k) /\ k.stage = "save" /\ k.verdict = job.verdict
      /\ k.kind = job.kind /\ k.was = job.was /\ k.before = job.before
      /\ k.stored = job.stored /\ k.order = job.order /\ k.todo = job.todo
      /\ k.wanted = job.wanted /\ k.failed = job.failed /\ k.touched = job.touched
  BY <1>4, <1>5, <1>6, StageFields
<1>8. StagesInv(k)
  BY <1>1, <1>2, <1>7 DEF JobInv, StagesInv, Forward, Backward
<1>9. AdapterInv(k, files)
  <2>1. \A f \in Files : Applied(k, files[f]) = Applied(job, files[f])
    BY <1>7 DEF Applied
  <2> QED
    BY <1>1, <1>2, <1>7, <2>1 DEF JobInv, AdapterInv
<1>10. DocumentsInv(k, published, disk)
  BY <1>1, <1>2, <1>7 DEF JobInv, DocumentsInv, StagesInv, Forward
<1>11. JobInv(Settled(i), files, published, disk)
  <2>1. JobInv([i EXCEPT !.stage = "save"], files, published, disk)
    BY <1>5, <1>7, <1>8, <1>9, <1>10 DEF JobInv
  <2> QED
    BY <1>4, <2>1, SettledInv
<1> QED
  BY <1>1, <1>2, <1>3, <1>11 DEF ChangesInv, ReadCatalog

\* An import that lists or snapshots is between two credentials.
LEMMA ImportingJob ==
  ASSUME ChangesInv, job.stage \in {"inspect", "snapshot"}
  PROVE  /\ Importing(job, files, published, disk) /\ job.todo # <<>>
         /\ job.stage = "inspect" => job.order = <<>>
<1> USE JobConstants
<1>1. JobInv(job, files, published, disk) /\ JobTypeInv(job)
  BY JobHeld
<1>2. /\ job.kind = "import" /\ job.verdict = Absent /\ job.wanted = Absent /\ ~job.failed
      /\ job.todo # <<>> /\ (job.stage = "inspect" => job.order = <<>>)
  BY <1>1 DEF JobInv, JobTypeInv, StagesInv, Forward, Backward
<1>3. published = job.was /\ disk = job.was
  BY <1>1 DEF JobInv, DocumentsInv, Forward
<1>4. /\ \A f \in Files : job.stored[f] # Absent => files[f] # Absent
      /\ \A f \in Files \ job.touched :
           /\ Alike(job.stored[f], job.before[f])
           /\ f \notin ToSet(job.order) => Alike(files[f], job.before[f])
           /\ f \in ToSet(job.order) /\ job.stage = "snapshot" => Alike(files[f], File("imported"))
  BY <1>1, <1>2 DEF JobInv, AdapterInv
<1>5. job.order = <<>> => ToSet(job.order) = {}
  BY ShortLists
<1> QED
  BY <1>1, <1>2, <1>3, <1>4, <1>5 DEF Importing

\* The listing is taken, or the credential is given up.
LEMMA InspectInv ==
  ASSUME ChangesInv, NEW outcome \in Outcomes, Inspect(outcome)
  PROVE  ChangesInv'
<1> USE JobConstants
<1>1. job.stage = "inspect" /\ UNCHANGED <<files, disk, published>>
  BY DEF Inspect
<1>2. /\ files \in [Files -> FileStates \cup {Absent}] /\ JobTypeInv(job)
      /\ Importing(job, files, published, disk) /\ job.todo # <<>> /\ job.order = <<>>
  BY <1>1, JobHeld, ImportingJob
<1>3. CASE job' = NextItem(job, "inspect")
  BY <1>1, <1>2, <1>3, NextItemInv DEF ChangesInv
<1>4. CASE job' = [job EXCEPT !.stage = "snapshot", !.stored = files]
  <2>1. PICK k : k = job'
    OBVIOUS
  <2>2. /\ JobTypeInv(k) /\ k.stage = "snapshot" /\ k.verdict = job.verdict
        /\ k.kind = job.kind /\ k.was = job.was /\ k.before = job.before
        /\ k.stored = files /\ k.order = job.order /\ k.todo = job.todo
        /\ k.wanted = job.wanted /\ k.failed = job.failed /\ k.touched = job.touched
    BY <1>2, <1>4, <2>1 DEF JobTypeInv, Forward
  <2>3. ToSet(k.order) = {}
    BY <1>2, <2>2, ShortLists
  <2>4. StagesInv(k)
    BY <1>2, <2>2, <2>3 DEF StagesInv, Importing, Forward, Backward
  <2>5. AdapterInv(k, files)
    BY <1>2, <2>2, <2>3 DEF AdapterInv, Importing
  <2>6. DocumentsInv(k, published, disk)
    BY <1>2, <2>2 DEF DocumentsInv, Importing, Forward
  <2> QED
    BY <1>1, <1>2, <2>1, <2>2, <2>4, <2>5, <2>6 DEF ChangesInv, JobInv
<1> QED
  BY <1>3, <1>4 DEF Inspect

\* The file is read before it is replaced, once; without its content it is given
\* up when nothing was replaced yet, and the import is when something was.
LEMMA SnapshotInv ==
  ASSUME ChangesInv, NEW outcome \in Outcomes, Snapshot(outcome)
  PROVE  ChangesInv'
<1> USE JobConstants
<1>0. PICK f : f = Head(job.todo)
  OBVIOUS
<1>1. job.stage = "snapshot" /\ UNCHANGED <<files, disk, published>>
  BY DEF Snapshot
<1>2. /\ files \in [Files -> FileStates \cup {Absent}] /\ JobTypeInv(job)
      /\ JobInv(job, files, published, disk)
      /\ Undoable(job, files, published) /\ job.order \in Seq(Files) /\ job.todo \in Seq(Files)
      /\ job.stored \in [Files -> FileStates \cup {Absent}]
      /\ Importing(job, files, published, disk) /\ job.todo # <<>>
  BY <1>1, JobHeld, JobUndoable, ImportingJob
<1>3. f \in Files
  BY <1>0, <1>2, HeadAndTail
<1>4. job.kind = "import"
  BY <1>2 DEF Importing
<1>5. CASE job' = NextItem(job, "snapshot")
  BY <1>1, <1>2, <1>5, NextItemInv DEF ChangesInv
<1>6. CASE job' = Abort(job)
  BY <1>1, <1>2, <1>4, <1>6, AbortInv DEF ChangesInv
<1>7. CASE f \in ToSet(job.order) /\ job' = [job EXCEPT !.stage = "upload"]
  <2>1. PICK k : k = job'
    OBVIOUS
  <2>2. "upload" \in Forward \cup Backward
    BY DEF Forward
  <2>3. /\ JobTypeInv(k) /\ k.stage = "upload" /\ k.verdict = job.verdict
        /\ k.kind = job.kind /\ k.was = job.was /\ k.before = job.before
        /\ k.stored = job.stored /\ k.order = job.order /\ k.todo = job.todo
        /\ k.wanted = job.wanted /\ k.failed = job.failed /\ k.touched = job.touched
    BY <1>2, <1>7, <2>1, <2>2, StageFields
  <2>4. StagesInv(k)
    BY <1>0, <1>2, <1>7, <2>3 DEF StagesInv, Importing, Forward, Backward
  <2>5. AdapterInv(k, files)
    BY <1>2, <2>3 DEF AdapterInv, Importing
  <2>6. DocumentsInv(k, published, disk)
    BY <1>2, <2>3 DEF DocumentsInv, Importing, Forward
  <2> QED
    BY <1>1, <1>2, <2>1, <2>3, <2>4, <2>5, <2>6 DEF ChangesInv, JobInv
<1>8. CASE /\ f \notin ToSet(job.order)
           /\ job' = [job EXCEPT !.stage = "upload", !.order = Append(@, f),
                        !.stored[f] = IF @ = Absent THEN Absent
                                      ELSE [files[f] EXCEPT !.disabled = job.stored[f].disabled]]
  <2>1. PICK value : value = IF job.stored[f] = Absent THEN Absent
                             ELSE [files[f] EXCEPT !.disabled = job.stored[f].disabled]
    OBVIOUS
  <2>2. /\ value \in FileStates \cup {Absent}
        /\ f \notin job.touched => Alike(value, job.before[f])
        /\ value # Absent => files[f] # Absent
    <3>1. CASE job.stored[f] = Absent
      BY <1>2, <1>3, <2>1, <3>1 DEF Importing
    <3>2. CASE job.stored[f] # Absent
      <4>1. job.stored[f] \in FileStates /\ files[f] \in FileStates /\ files[f] # Absent
        BY <1>2, <1>3, <3>2 DEF Importing
      <4>2. /\ value \in FileStates /\ value.content = files[f].content
            /\ value.disabled = job.stored[f].disabled
        BY <2>1, <3>2, <4>1 DEF FileStates
      <4>3. f \notin job.touched =>
              Alike(files[f], job.before[f]) /\ Alike(job.stored[f], job.before[f])
        BY <1>2, <1>3, <1>8 DEF Importing
      <4> QED
        BY <3>2, <4>1, <4>2, <4>3 DEF Alike
    <3> QED
      BY <3>1, <3>2
  <2>3. PICK order : order = Append(job.order, f)
    OBVIOUS
  <2>4. order \in Seq(Files) /\ order # <<>> /\ ToSet(order) = ToSet(job.order) \cup {f}
    <3>1. job.order \in Seq(Files) /\ f \in Files
      BY <1>2, <1>3
    <3>2. /\ Append(job.order, f) \in Seq(Files) /\ Append(job.order, f) # <<>>
          /\ ToSet(Append(job.order, f)) = ToSet(job.order) \cup {f}
      BY <3>1, AppendedFile
    <3> QED
      BY <2>3, <3>2
  <2>5. PICK stored : stored = [job.stored EXCEPT ![f] = value]
    OBVIOUS
  <2>6. /\ stored \in [Files -> FileStates \cup {Absent}] /\ stored[f] = value
        /\ \A g \in Files : g # f => stored[g] = job.stored[g]
    BY <1>2, <1>3, <2>2, <2>5
  <2>7. PICK k : k = job'
    OBVIOUS
  <2>8. k = [job EXCEPT !.stage = "upload", !.order = order, !.stored = stored]
    BY <1>2, <1>3, <1>8, <2>1, <2>3, <2>5, <2>7 DEF JobTypeInv
  <2>9. /\ JobTypeInv(k) /\ k.stage = "upload" /\ k.verdict = job.verdict
        /\ k.kind = job.kind /\ k.was = job.was /\ k.before = job.before
        /\ k.stored = stored /\ k.order = order /\ k.todo = job.todo
        /\ k.wanted = job.wanted /\ k.failed = job.failed /\ k.touched = job.touched
    BY <1>2, <2>4, <2>6, <2>8 DEF JobTypeInv, Forward
  <2>10. StagesInv(k)
    BY <1>0, <1>2, <2>4, <2>9 DEF StagesInv, Importing, Forward, Backward
  <2>11. AdapterInv(k, files)
    BY <1>0, <1>2, <2>2, <2>4, <2>6, <2>9 DEF AdapterInv, Importing
  <2>12. DocumentsInv(k, published, disk)
    BY <1>2, <2>9 DEF DocumentsInv, Importing, Forward
  <2> QED
    BY <1>1, <1>2, <2>7, <2>9, <2>10, <2>11, <2>12 DEF ChangesInv, JobInv
<1> QED
  BY <1>0, <1>5, <1>6, <1>7, <1>8 DEF Snapshot

\* The file is replaced, or the import turns back whatever the call did.
LEMMA UploadInv ==
  ASSUME ChangesInv, NEW outcome \in Outcomes, Upload(outcome)
  PROVE  ChangesInv'
<1> USE JobConstants
<1>0. PICK f : f = Head(job.todo)
  OBVIOUS
<1>1. job.stage = "upload" /\ UNCHANGED <<disk, published>>
  BY DEF Upload
<1>2. /\ files \in [Files -> FileStates \cup {Absent}] /\ JobTypeInv(job)
      /\ JobInv(job, files, published, disk)
      /\ Undoable(job, files, published) /\ job.todo \in Seq(Files)
  BY <1>1, JobHeld, JobUndoable
<1>3. /\ job.kind = "import" /\ job.verdict = Absent /\ job.wanted = Absent /\ ~job.failed
      /\ job.todo # <<>> /\ f \in ToSet(job.order)
  BY <1>0, <1>1, <1>2 DEF JobInv, JobTypeInv, StagesInv, Forward, Backward
<1>4. f \in Files
  BY <1>0, <1>2, <1>3, HeadAndTail
<1>5. File("imported") \in FileStates /\ File("imported") # Absent
  <2>1. File("imported") \in FileStates
    BY DEF File, FileStates
  <2> QED
    BY <2>1
<1>6. /\ files' \in [Files -> FileStates \cup {Absent}]
      /\ \A g \in Files : g # f => files'[g] = files[g]
      /\ outcome # "failed" => files'[f] = File("imported")
      /\ outcome = "failed" => files' = files
  <2>1. files' = IF outcome = "failed" THEN files ELSE [files EXCEPT ![f] = File("imported")]
    BY <1>0 DEF Upload, Stored
  <2> QED
    BY <1>2, <1>4, <1>5, <2>1
<1>7. CASE outcome # "answered"
  <2>1. job' = Abort(job)
    BY <1>7 DEF Upload
  <2>2. Undoable(job, files', published)
    BY <1>2, <1>3, <1>4, <1>6 DEF Undoable
  <2> QED
    BY <1>1, <1>3, <1>6, <2>1, <2>2, AbortInv DEF ChangesInv
<1>8. CASE outcome = "answered"
  <2>1. PICK k : k = [job EXCEPT !.providers = @ \cup {FileProvider[f]}]
    OBVIOUS
  <2>2. job' = NextItem(k, "snapshot")
    BY <1>0, <1>8, <2>1 DEF Upload
  <2>3. /\ JobTypeInv(k) /\ k.stage = job.stage /\ k.verdict = job.verdict
        /\ k.kind = job.kind /\ k.was = job.was /\ k.before = job.before
        /\ k.stored = job.stored /\ k.order = job.order /\ k.todo = job.todo
        /\ k.wanted = job.wanted /\ k.failed = job.failed /\ k.touched = job.touched
    BY <1>2, <2>1 DEF JobTypeInv
  <2>4. published' = job.was /\ disk' = job.was
    BY <1>1, <1>2 DEF JobInv, DocumentsInv, Forward
  <2>5. files'[f] = File("imported") /\ files'[f] # Absent /\ Alike(files'[f], File("imported"))
    BY <1>5, <1>6, <1>8, AlikeFacts
  <2>6. \A g \in Files : job.stored[g] # Absent => files'[g] # Absent
    BY <1>1, <1>2, <1>6, <2>5 DEF JobInv, AdapterInv
  <2>7. \A g \in Files \ job.touched :
          /\ Alike(job.stored[g], job.before[g])
          /\ g \notin ToSet(job.order) => Alike(files'[g], job.before[g])
          /\ g \in ToSet(job.order) => Alike(files'[g], File("imported"))
    BY <1>0, <1>1, <1>2, <1>3, <1>6, <2>5 DEF JobInv, AdapterInv
  <2>8. Importing(k, files', published', disk')
    BY <1>3, <2>3, <2>4, <2>6, <2>7 DEF Importing
  <2> QED
    BY <1>3, <1>6, <2>2, <2>3, <2>8, NextItemInv DEF ChangesInv
<1> QED
  BY <1>7, <1>8

\* The providers of the imported credentials are announced one after the other.
LEMMA EnsureInv ==
  ASSUME ChangesInv, NEW models, Ensure(models)
  PROVE  ChangesInv'
<1> USE JobConstants
<1>1. job.stage = "ensure" /\ UNCHANGED <<files, disk, published>>
  BY DEF Ensure
<1>2. /\ JobInv(job, files, published, disk) /\ JobTypeInv(job)
      /\ files \in [Files -> FileStates \cup {Absent}]
  BY <1>1, JobHeld
<1>3. PICK providers, doc, i :
        /\ i = [job EXCEPT !.providers = providers, !.doc = doc]
        /\ job' = i \/ job' = Settled(i)
  <2>1. PICK provider, d :
          job' = LET next == [job EXCEPT !.providers = @ \ {provider},
                                         !.doc = IF d = Absent THEN @ ELSE d]
                 IN  IF next.providers = {} THEN Settled(next) ELSE next
    BY Zenon DEF Ensure
  <2>2. [job EXCEPT !.providers = @ \ {provider}, !.doc = IF d = Absent THEN @ ELSE d]
          = [job EXCEPT !.providers = job.providers \ {provider},
                        !.doc = IF d = Absent THEN job.doc ELSE d]
    BY <1>2 DEF JobTypeInv
  <2> QED
    BY <2>1, <2>2
<1>4. /\ JobTypeInv(i) /\ i.stage = job.stage /\ i.verdict = job.verdict
      /\ i.kind = job.kind /\ i.was = job.was /\ i.before = job.before
      /\ i.stored = job.stored /\ i.order = job.order /\ i.todo = job.todo
      /\ i.wanted = job.wanted /\ i.failed = job.failed /\ i.touched = job.touched
  BY <1>2, <1>3 DEF JobTypeInv
<1>5. job.kind = "import" /\ job.verdict = Absent
  BY <1>1, <1>2 DEF JobInv, JobTypeInv, StagesInv, Backward
<1>6. ASSUME NEW t \in {"ensure", "save"}, NEW k, JobTypeInv(k), k.stage = t,
             k.verdict = job.verdict, k.kind = job.kind, k.was = job.was, k.before = job.before,
             k.stored = job.stored, k.order = job.order, k.todo = job.todo,
             k.wanted = job.wanted, k.failed = job.failed, k.touched = job.touched
      PROVE  JobInv(k, files, published, disk)
  <2>1. StagesInv(k)
    BY <1>1, <1>2, <1>5, <1>6 DEF JobInv, StagesInv, Forward, Backward
  <2>2. AdapterInv(k, files)
    BY <1>1, <1>2, <1>5, <1>6 DEF JobInv, AdapterInv
  <2>3. DocumentsInv(k, published, disk)
    BY <1>1, <1>2, <1>5, <1>6 DEF JobInv, DocumentsInv, Forward
  <2> QED
    BY <1>6, <2>1, <2>2, <2>3 DEF JobInv
<1>7. CASE job' = i
  <2>1. JobInv(i, files, published, disk)
    BY <1>1, <1>4, <1>6
  <2> QED
    BY <1>1, <1>2, <1>7, <2>1 DEF ChangesInv
<1>8. CASE job' = Settled(i)
  <2>1. PICK k : k = [i EXCEPT !.stage = "save"]
    OBVIOUS
  <2>2. "save" \in Forward \cup Backward
    BY DEF Forward
  <2>3. /\ JobTypeInv(k) /\ k.stage = "save" /\ k.verdict = job.verdict
        /\ k.kind = job.kind /\ k.was = job.was /\ k.before = job.before
        /\ k.stored = job.stored /\ k.order = job.order /\ k.todo = job.todo
        /\ k.wanted = job.wanted /\ k.failed = job.failed /\ k.touched = job.touched
    BY <1>4, <2>1, <2>2, StageFields
  <2>4. JobInv(k, files, published, disk)
    BY <1>6, <2>3
  <2>5. JobInv(Settled(i), files, published, disk)
    BY <1>4, <2>1, <2>4, SettledInv
  <2> QED
    BY <1>1, <1>2, <1>8, <2>5 DEF ChangesInv
<1> QED
  BY <1>3, <1>7, <1>8

\* What the adapter does by itself is no one's fault.
LEMMA AdapterStepInv ==
  ASSUME ChangesInv, NEW f \in Files, Adapter(f)
  PROVE  ChangesInv'
<1> USE JobConstants
<1>1. /\ files \in [Files -> FileStates \cup {Absent}]
      /\ UNCHANGED <<disk, published>>
  BY DEF ChangesInv, Adapter
<1>2. PICK value : value \in FileStates /\ files' = [files EXCEPT ![f] = value]
  <2>1. CASE files[f] # Absent /\ files' = [files EXCEPT ![f].content = "renewed"]
    <3>1. [files[f] EXCEPT !.content = "renewed"] \in FileStates
      BY <1>1, <2>1 DEF FileStates
    <3>2. files' = [files EXCEPT ![f] = [files[f] EXCEPT !.content = "renewed"]]
      BY <1>1, <2>1
    <3> QED
      BY <3>1, <3>2
  <2>2. CASE files[f] # Absent /\ files' = [files EXCEPT ![f].usable = FALSE]
    <3>1. [files[f] EXCEPT !.usable = FALSE] \in FileStates
      BY <1>1, <2>2 DEF FileStates
    <3>2. files' = [files EXCEPT ![f] = [files[f] EXCEPT !.usable = FALSE]]
      BY <1>1, <2>2
    <3> QED
      BY <3>1, <3>2
  <2>3. CASE files' = [files EXCEPT ![f] = File("login")]
    <3>1. File("login") \in FileStates
      BY DEF File, FileStates
    <3> QED
      BY <2>3, <3>1
  <2> QED
    BY <2>1, <2>2, <2>3 DEF Adapter
<1>3. /\ files' \in [Files -> FileStates \cup {Absent}] /\ files'[f] # Absent
      /\ \A g \in Files : g # f => files'[g] = files[g]
  BY <1>1, <1>2
<1>4. CASE Unlocked
  <2>1. job = Free
    BY <1>4 DEF ChangesInv, JobInv, JobTypeInv, Unlocked, Forward, Backward
  <2> QED
    BY <1>3, <1>4, <2>1 DEF ChangesInv, Adapter
<1>5. CASE ~Unlocked
  <2>1. job.stage # "free"
    BY <1>5 DEF Unlocked
  <2>2. /\ JobInv(job, files, published, disk) /\ JobTypeInv(job) /\ job.order \in Seq(Files)
    BY <2>1, JobHeld
  <2>3. PICK k : k = job'
    OBVIOUS
  <2>4. /\ JobTypeInv(k) /\ k.stage = job.stage /\ k.verdict = job.verdict
        /\ k.kind = job.kind /\ k.was = job.was /\ k.before = job.before
        /\ k.stored = job.stored /\ k.order = job.order /\ k.todo = job.todo
        /\ k.wanted = job.wanted /\ k.failed = job.failed
        /\ k.touched = job.touched \cup {f}
    BY <1>5, <2>2, <2>3 DEF Adapter, JobTypeInv
  <2>5. StagesInv(k)
    BY <2>2, <2>4 DEF JobInv, StagesInv
  <2>6. job.stage = "apply" => Head(job.order) \in Files
    <3>1. job.stage = "apply" => job.order # <<>>
      BY <2>2 DEF JobInv, JobTypeInv, StagesInv, Forward
    <3> QED
      BY <2>2, <3>1, HeadAndTail
  <2>7. \A g \in Files : Applied(k, files[g]) = Applied(job, files[g])
    BY <2>4 DEF Applied
  <2>8. AdapterInv(k, files')
    <3>1. AdapterInv(job, files)
      BY <2>2 DEF JobInv
    <3>2. \A g \in Files \ k.touched : g \in Files \ job.touched /\ files'[g] = files[g]
      BY <1>3, <2>4
    <3>3. \A g \in Files : files[g] # Absent => files'[g] # Absent
      BY <1>3
    <3> QED
      BY <2>4, <2>6, <2>7, <3>1, <3>2, <3>3 DEF AdapterInv
  <2>9. DocumentsInv(k, published', disk')
    BY <1>1, <2>2, <2>4 DEF JobInv, DocumentsInv
  <2> QED
    BY <1>3, <2>3, <2>4, <2>5, <2>8, <2>9 DEF ChangesInv, JobInv
<1> QED
  BY <1>4, <1>5

\* Nobody changes a configuration while a job holds the lock.
LEMMA LockedOut ==
  ASSUME ChangesInv, files' = files, job' = job,
         job.stage = "free" \/ UNCHANGED <<published, disk>>
  PROVE  ChangesInv'
<1>1. CASE job.stage = "free"
  <2>1. job = Free
    BY <1>1 DEF ChangesInv, JobInv, JobTypeInv, Forward, Backward
  <2> QED
    BY <2>1 DEF ChangesInv
<1>2. CASE UNCHANGED <<published, disk>>
  BY <1>2 DEF ChangesInv
<1> QED
  BY <1>1, <1>2

\* A job is free to end; the administrator's changes of the configuration wait
\* for the lock.
LEMMA AdministrationInv ==
  ASSUME ChangesInv, Administration
  PROVE  ChangesInv'
<1>1. CASE \E f \in Files, wanted \in {"deleted", "disabled", "enabled"} : Change(f, wanted)
  BY <1>1, ChangeInv
<1>2. CASE \E p \in Providers, models \in SUBSET Servable : Login(p, models)
  BY <1>2, LoginInv
<1>3. CASE \E upsert \in BOOLEAN : Import(upsert)
  BY <1>3, ImportInv
<1>4. ASSUME NEW doc, Edited(doc)
      PROVE  ChangesInv'
  BY <1>4, LockedOut DEF Edited, MayChange, Unlocked
<1>5. CASE \E a \in Accounts : Switch(a)
  BY <1>4, <1>5 DEF Switch
<1>6. CASE \E a \in Accounts, key \in Keys : RotateKey(a, key)
  BY <1>4, <1>6 DEF RotateKey
<1>7. ASSUME NEW a \in Accounts, NEW key \in Connections, NEW i \in Positions(a),
             ExcludeModel(a, i, key) \/ \E credential \in Scopes : Exclude(a, i, credential, key)
      PROVE  ChangesInv'
  BY <1>4, <1>7 DEF Exclude, ExcludeModel
<1>8. CASE Reload
  BY <1>8, LockedOut DEF Reload, Unlocked
<1> QED
  BY <1>1, <1>2, <1>3, <1>5, <1>6, <1>7, <1>8 DEF Administration

\* The poll and the check commit under the lock.
LEMMA ObserverInv ==
  ASSUME ChangesInv, PollStep \/ CheckStep
  PROVE  ChangesInv'
<1>1. CASE PollStep
  <2>1. files' = files /\ job' = job
    BY <1>1 DEF PollStep, Poll, ReadAny, Read, PollCommit
  <2>2. job.stage = "free" \/ UNCHANGED <<published, disk>>
    BY <1>1 DEF PollStep, Poll, ReadAny, Read, PollCommit, Unlocked
  <2> QED
    BY <2>1, <2>2, LockedOut
<1>2. CASE CheckStep
  <2>1. files' = files /\ job' = job
    BY <1>2 DEF CheckStep, Check, Probed, Abandon, CheckCommit
  <2>2. job.stage = "free" \/ UNCHANGED <<published, disk>>
    BY <1>2 DEF CheckStep, Check, Probed, Abandon, CheckCommit, Unlocked
  <2> QED
    BY <2>1, <2>2, LockedOut
<1> QED
  BY <1>1, <1>2

\* Every step of a job.
LEMMA JobStepInv ==
  ASSUME ChangesInv, JobStep
  PROVE  ChangesInv'
<1>1. CASE \E outcome \in Outcomes : Apply(outcome)
  BY <1>1, ApplyInv
<1>2. CASE \E outcome \in Outcomes : Save(outcome)
  BY <1>2, SaveInv
<1>3. CASE \E outcome \in Outcomes : Inspect(outcome)
  BY <1>3, InspectInv
<1>4. CASE \E outcome \in Outcomes : Snapshot(outcome)
  BY <1>4, SnapshotInv
<1>5. CASE \E outcome \in Outcomes : Upload(outcome)
  BY <1>5, UploadInv
<1>6. CASE \E outcome \in Outcomes : Restore(outcome)
  BY <1>6, RestoreInv
<1>7. CASE \E outcome \in Outcomes : RestoreStatus(outcome)
  BY <1>7, RestoreStatusInv
<1>8. CASE \E outcome \in Outcomes : Verify(outcome)
  BY <1>8, VerifyInv
<1>9. CASE \E outcome \in Outcomes : RestoreConfig(outcome)
  BY <1>9, RestoreConfigInv
<1>10. CASE \E available \in SUBSET Providers, models \in SUBSET Models :
              ReadCatalog(available, models)
  BY <1>10, ReadCatalogInv
<1>11. CASE \E models \in SUBSET Models : Ensure(models)
  BY <1>11, EnsureInv
<1>12. CASE Expire
  BY <1>12, ExpireInv
<1>13. CASE Return
  BY <1>13 DEF Return, ChangesInv
<1> QED
  BY <1>1, <1>2, <1>3, <1>4, <1>5, <1>6, <1>7, <1>8, <1>9, <1>10, <1>11, <1>12, <1>13
     DEF JobStep

\* The invariant of jobs holds in every state.
THEOREM SpecChangesInv == ChangesSpec => []ChangesInv
<1>1. ChangesInit => ChangesInv
  BY ChangesAssumption DEF ChangesInit, ChangesInv
<1>2. ChangesInv /\ [ChangesNext]_changesVars => ChangesInv'
  <2> SUFFICES ASSUME ChangesInv, [ChangesNext]_changesVars
               PROVE  ChangesInv'
    OBVIOUS
  <2>1. CASE \E f \in Files : Adapter(f)
    BY <2>1, AdapterStepInv
  <2>2. CASE Administration
    BY <2>2, AdministrationInv
  <2>3. CASE JobStep
    BY <2>3, JobStepInv
  <2>4. CASE PollStep \/ CheckStep
    BY <2>4, ObserverInv
  <2>5. CASE UNCHANGED changesVars
    BY <2>5, LockedOut DEF changesVars
  <2> QED
    BY <2>1, <2>2, <2>3, <2>4, <2>5 DEF ChangesNext
<1> QED
  BY <1>1, <1>2, PTL DEF ChangesSpec

\* Whatever calls to the adapter and saves fail or lose their answer, and
\* whatever the adapter does meanwhile: a job that reports success did all it
\* was asked for, and one that reports that the prior state was restored left
\* no trace, in the adapter's files and the configuration alike.
THEOREM SpecChangesAreWhole == ChangesSpec => []ChangesAreWhole
<1> USE JobConstants
<1>1. ChangesInv => ChangesAreWhole
  <2> SUFFICES ASSUME ChangesInv, job.verdict \in {"done", "restored"}
               PROVE  ChangesAreWhole
    BY DEF ChangesAreWhole, DoneIsDone, RestoredIsRestored
  <2>1. /\ JobInv(job, files, published, disk) /\ JobTypeInv(job)
    BY JobHeld DEF ChangesInv, Free, JobInv
  <2>2. job.verdict # Absent /\ job.stage = "ended"
    BY <2>1 DEF JobInv, StagesInv
  <2>3. DoneIsDone
    <3> SUFFICES ASSUME job.verdict = "done"
                 PROVE  DoneIsDone
      BY DEF DoneIsDone
    <3>1. disk = published /\ ~job.failed
      BY <2>1 DEF JobInv, DocumentsInv
    <3>2. ASSUME NEW f \in Files \ job.touched
          PROVE  IF job.kind = "change" /\ f = Head(job.order)
                 THEN IF job.wanted = "deleted" THEN files[f] = Absent
                      ELSE files[f].disabled = (job.wanted = "disabled")
                 ELSE IF f \in ToSet(job.order) THEN Same(f, File("imported"))
                 ELSE Same(f, job.before[f])
      <4>1. job.kind = "change" => ToSet(job.order) = {Head(job.order)}
        <5>1. job.kind = "change" => job.order = <<Head(job.order)>>
          BY <2>1 DEF JobInv, StagesInv
        <5> QED
          BY <5>1, ShortLists
      <4>2. /\ f \notin ToSet(job.order) => Alike(files[f], job.before[f])
            /\ f \in ToSet(job.order) =>
                 IF job.kind = "change" THEN Applied(job, files[f])
                 ELSE Alike(files[f], File("imported"))
        BY <2>1, <3>1, <3>2 DEF JobInv, AdapterInv
      <4>3. File("imported") # Absent
        <5>1. File("imported") \in FileStates
          BY DEF File, FileStates
        <5> QED
          BY <5>1
      <4>4. CASE job.kind = "change" /\ f = Head(job.order)
        BY <4>1, <4>2, <4>4 DEF Applied
      <4>5. CASE job.kind # "change" /\ f \in ToSet(job.order)
        BY <4>2, <4>3, <4>5 DEF Alike, Same
      <4>6. CASE f \notin ToSet(job.order)
        BY <4>1, <4>2, <4>6 DEF Alike, Same
      <4> QED
        BY <4>1, <4>4, <4>5, <4>6
    <3> QED
      BY <3>1, <3>2, Zenon DEF DoneIsDone
  <2>4. RestoredIsRestored
    <3> SUFFICES ASSUME job.verdict = "restored"
                 PROVE  RestoredIsRestored
      BY DEF RestoredIsRestored
    <3>1. ~job.failed /\ job.order = <<>>
      BY <2>1 DEF JobInv, StagesInv
    <3>2. published = job.was /\ (job.kind = "change" => disk = job.was)
      BY <2>1 DEF JobInv, DocumentsInv
    <3>3. ASSUME NEW f \in Files \ job.touched
          PROVE  Same(f, job.before[f])
      <4>1. f \notin ToSet(job.order)
        BY <3>1, ShortLists
      <4>2. Alike(files[f], job.before[f])
        BY <2>1, <3>1, <3>3, <4>1 DEF JobInv, AdapterInv
      <4> QED
        BY <4>2 DEF Alike, Same
    <3> QED
      BY <3>2, <3>3, Zenon DEF RestoredIsRestored
  <2> QED
    BY <2>3, <2>4 DEF ChangesAreWhole
<1> QED
  BY <1>1, SpecChangesInv, PTL

-----------------------------------------------------------------------------
(* Folds.  A fold over a list is a recursive function on the sets of its   *)
(* positions, which takes the largest one first.                           *)

\* Among the parts of a finite set with a property there is a smallest one.
LEMMA SmallestPart ==
  ASSUME NEW S, IsFiniteSet(S), NEW T, T \subseteq SUBSET S, T # {}
  PROVE  \E s \in T : \A t \in T : t \subseteq s => t = s
<1>1. IsWellFoundedOn(StrictSubsetOrdering(S), SUBSET S)
  BY FS_StrictSubsetOrderingWellFounded, FS_FiniteSubsetsOfFinite
<1>2. \E s \in T : \A t \in T : <<t, s>> \notin StrictSubsetOrdering(S)
  BY <1>1, WFMin
<1> QED
  BY <1>2 DEF StrictSubsetOrdering

\* There are finitely many positions.
LEMMA PositionsFinite == \A n \in Nat : IsFiniteSet(1..n)
BY FS_Interval

\* A set of positions has a largest one.
LEMMA LargestPosition ==
  ASSUME NEW n \in Nat, NEW s \in SUBSET (1..n), s # {}
  PROVE  /\ Max(s) \in s /\ \A i \in s : Max(s) >= i
         /\ s \ {Max(s)} \in SUBSET s /\ s \ {Max(s)} # s
<1> DEFINE T == {t \in SUBSET (1..n) : s \subseteq t /\ \E k \in 0..n : t = 1..k}
<1>1. T \subseteq SUBSET (1..n) /\ 1..n \in T
  OBVIOUS
<1>2. PICK t \in T : \A u \in T : u \subseteq t => u = t
  <2> DEFINE N == 1..n
  <2>1. IsFiniteSet(N) /\ T \subseteq SUBSET N /\ T # {}
    BY <1>1, PositionsFinite
  <2> HIDE DEF T, N
  <2> QED
    BY <2>1, SmallestPart
<1>3. PICK k \in 0..n : t = 1..k
  OBVIOUS
<1>4. s \subseteq 1..k
  BY <1>3
<1>5. k \in s
  <2> SUFFICES ASSUME k \notin s PROVE FALSE
    OBVIOUS
  <2>1. PICK i \in s : i # k /\ i \in 1..k
    BY <1>4
  <2>2. k - 1 \in 0..n /\ s \subseteq 1..(k - 1) /\ 1..(k - 1) \subseteq 1..n
    BY <1>4, <2>1
  <2>3. 1..(k - 1) \in T
    BY <2>2
  <2>4. 1..(k - 1) \subseteq t /\ k \in t /\ k \notin 1..(k - 1)
    BY <1>3, <2>1
  <2> QED
    BY <1>2, <2>3, <2>4
<1>6. \A i \in s : k >= i
  BY <1>4
<1>7. Max(s) \in s /\ \A i \in s : Max(s) >= i
  BY <1>5, <1>6 DEF Max
<1> QED
  BY <1>7

\* g applies step[i] to the value so far, for the positions i of each part of U.
Iterates(U, base, step, g) ==
  \A s \in SUBSET U : g[s] = IF s = {} THEN base ELSE step[Max(s)][g[s \ {Max(s)}]]

\* What an iteration gives does not depend on the set it is defined for.
LEMMA IterationUnique ==
  ASSUME NEW n \in Nat, NEW U \in SUBSET (1..n), NEW W \in SUBSET (1..n), NEW base, NEW step,
         NEW g, NEW h, Iterates(U, base, step, g), Iterates(W, base, step, h)
  PROVE  \A s \in SUBSET (U \cap W) : g[s] = h[s]
<1> DEFINE T == {s \in SUBSET (U \cap W) : g[s] # h[s]}
<1>1. SUFFICES ASSUME T # {} PROVE FALSE
  OBVIOUS
<1>2. PICK s \in T : \A t \in T : t \subseteq s => t = s
  <2> DEFINE N == 1..n
  <2>1. IsFiniteSet(N) /\ T \subseteq SUBSET N
    BY PositionsFinite
  <2> HIDE DEF T, N
  <2> QED
    BY <1>1, <2>1, SmallestPart
<1>3. s \in SUBSET U /\ s \in SUBSET W /\ s \in SUBSET (1..n)
  OBVIOUS
<1>4. s # {}
  BY <1>3 DEF Iterates
<1>5. s \ {Max(s)} \notin T
  BY <1>2, <1>3, <1>4, LargestPosition
<1>6. g[s \ {Max(s)}] = h[s \ {Max(s)}]
  BY <1>5
<1> QED
  BY <1>2, <1>3, <1>4, <1>6 DEF Iterates

\* Every list can be iterated over.
LEMMA IterationExists ==
  ASSUME NEW n \in Nat, NEW base, NEW step
  PROVE  \E g : Iterates(1..n, base, step, g)
<1> DEFINE T == {U \in SUBSET (1..n) : ~\E g : Iterates(U, base, step, g)}
<1>1. SUFFICES ASSUME T # {} PROVE FALSE
  OBVIOUS
<1>2. PICK U \in T : \A W \in T : W \subseteq U => W = U
  <2> DEFINE N == 1..n
  <2>1. IsFiniteSet(N) /\ T \subseteq SUBSET N
    BY PositionsFinite
  <2> HIDE DEF T, N
  <2> QED
    BY <1>1, <2>1, SmallestPart
<1> DEFINE G(W) == CHOOSE g : Iterates(W, base, step, g)
<1>3. \A W \in SUBSET U : W # U => Iterates(W, base, step, G(W))
  BY <1>2
<1> DEFINE Rest0(s) == s \ {Max(s)}
           g == [s \in SUBSET U |->
                   IF s = {} THEN base ELSE step[Max(s)][G(Rest0(s))[Rest0(s)]]]
<1>4. \A s \in SUBSET U : s # {} => Rest0(s) \in SUBSET s /\ Rest0(s) \in SUBSET U /\ Rest0(s) # U
  BY LargestPosition
<1>5. \A W \in SUBSET U : W # U => G(W)[W] = g[W]
  <2> SUFFICES ASSUME NEW W \in SUBSET U, W # U PROVE G(W)[W] = g[W]
    OBVIOUS
  <2>1. Iterates(W, base, step, G(W))
    BY <1>3
  <2>2. CASE W = {}
    BY <2>1, <2>2 DEF Iterates
  <2>3. CASE W # {}
    <3>1. Rest0(W) \in SUBSET W /\ Rest0(W) \in SUBSET U /\ Rest0(W) # U
      BY <1>4, <2>3
    <3>2. Iterates(Rest0(W), base, step, G(Rest0(W)))
      BY <1>3, <3>1
    <3>3. G(W)[Rest0(W)] = G(Rest0(W))[Rest0(W)]
      <4>1. /\ Rest0(W) \in SUBSET (W \cap Rest0(W))
            /\ W \in SUBSET (1..n) /\ Rest0(W) \in SUBSET (1..n)
        BY <3>1
      <4> HIDE DEF Rest0, G
      <4> QED
        BY <2>1, <3>2, <4>1, IterationUnique, SMTT(40)
    <3>4. G(W)[W] = step[Max(W)][G(W)[Rest0(W)]]
      BY <2>1, <2>3 DEF Iterates
    <3>5. g[W] = step[Max(W)][G(Rest0(W))[Rest0(W)]]
      BY <2>3
    <3> QED
      BY <3>3, <3>4, <3>5
  <2> QED
    BY <2>2, <2>3
<1>6. Iterates(U, base, step, g)
  <2>1. g[{}] = base
    OBVIOUS
  <2>2. ASSUME NEW s \in SUBSET U, s # {}
        PROVE  g[s] = step[Max(s)][g[Rest0(s)]]
    <3>1. G(Rest0(s))[Rest0(s)] = g[Rest0(s)]
      BY <1>4, <1>5, <2>2
    <3>2. g[s] = step[Max(s)][G(Rest0(s))[Rest0(s)]]
      BY <2>2
    <3> QED
      BY <3>1, <3>2
  <2> HIDE DEF g
  <2> QED
    BY <2>1, <2>2 DEF Iterates
<1> QED
  BY <1>6

\* What every step keeps holds at the end.
LEMMA IterationStays ==
  ASSUME NEW n \in Nat, NEW V, NEW k, k[{}] \in V,
         \A s \in SUBSET (1..n) : s # {} /\ k[s \ {Max(s)}] \in V => k[s] \in V
  PROVE  \A s \in SUBSET (1..n) : k[s] \in V
<1> DEFINE T == {s \in SUBSET (1..n) : k[s] \notin V}
<1>1. SUFFICES ASSUME T # {} PROVE FALSE
  OBVIOUS
<1>2. PICK s \in T : \A t \in T : t \subseteq s => t = s
  <2> DEFINE N == 1..n
  <2>1. IsFiniteSet(N) /\ T \subseteq SUBSET N
    BY PositionsFinite
  <2> HIDE DEF T, N
  <2> QED
    BY <1>1, <2>1, SmallestPart
<1>3. s # {}
  OBVIOUS
<1>4. s \ {Max(s)} \notin T
  BY <1>2, <1>3, LargestPosition
<1> QED
  BY <1>2, <1>3, <1>4, LargestPosition

\* g goes through n steps, from base.
Goes(n, base, step, g) ==
  /\ g[{}] = base
  /\ \A s \in SUBSET (1..n) : s # {} =>
       /\ Max(s) \in 1..n /\ s \ {Max(s)} \in SUBSET (1..n)
       /\ g[s \ {Max(s)}] \in DOMAIN step[Max(s)]
       /\ g[s] = step[Max(s)][g[s \ {Max(s)}]]

\* A list of functions on V can be gone through.
LEMMA Iteration ==
  ASSUME NEW n \in Nat, NEW V, NEW base \in V, NEW step \in [1..n -> [V -> V]]
  PROVE  \E g \in [SUBSET (1..n) -> V] : Goes(n, base, step, g)
<1>1. PICK h : Iterates(1..n, base, step, h)
  BY IterationExists
<1>2. ASSUME NEW s \in SUBSET (1..n), s # {}
      PROVE  Max(s) \in 1..n /\ s \ {Max(s)} \in SUBSET (1..n)
  BY <1>2, LargestPosition
<1>3. \A s \in SUBSET (1..n) : h[s] \in V
  <2>1. h[{}] \in V
    BY <1>1 DEF Iterates
  <2>2. ASSUME NEW s \in SUBSET (1..n), s # {}, h[s \ {Max(s)}] \in V PROVE h[s] \in V
    BY <1>1, <1>2, <2>2 DEF Iterates
  <2> QED
    BY <2>1, <2>2, IterationStays
<1> DEFINE g == [s \in SUBSET (1..n) |-> h[s]]
<1>4. g \in [SUBSET (1..n) -> V]
  BY <1>3
<1>5. g[{}] = base /\ \A s \in SUBSET (1..n) : s # {} => g[s] = step[Max(s)][g[s \ {Max(s)}]]
  BY <1>1, <1>2 DEF Iterates
<1> HIDE DEF g
<1>6. Goes(n, base, step, g)
  BY <1>2, <1>4, <1>5 DEF Goes
<1> QED
  BY <1>4, <1>6

\* A set of positions has a smallest one.
LEMMA SmallestPosition ==
  ASSUME NEW n \in Nat, NEW s \in SUBSET (1..n), s # {}
  PROVE  Min(s) \in s
<1> DEFINE t == {n + 1 - i : i \in s}
<1>1. t \in SUBSET (1..n) /\ t # {}
  <2>1. \A i \in s : n + 1 - i \in 1..n
    OBVIOUS
  <2>2. PICK i \in s : TRUE
    OBVIOUS
  <2>3. n + 1 - i \in t
    OBVIOUS
  <2> QED
    BY <2>1, <2>3
<1>2. Max(t) \in t /\ \A j \in t : Max(t) >= j
  <2> HIDE DEF t
  <2> QED
    BY <1>1, LargestPosition
<1>3. PICK k \in s : Max(t) = n + 1 - k
  BY <1>2
<1>4. \A i \in s : n + 1 - k >= n + 1 - i
  <2> SUFFICES ASSUME NEW i \in s PROVE n + 1 - k >= n + 1 - i
    OBVIOUS
  <2>1. n + 1 - i \in t
    OBVIOUS
  <2> HIDE DEF t
  <2> QED
    BY <1>2, <1>3, <2>1
<1>5. \A i \in s : k <= i
  BY <1>4
<1> QED
  BY <1>5 DEF Min

-----------------------------------------------------------------------------
(* The folds of this project.  An operator cannot be a parameter of a      *)
(* lemma, so each of them has a rule of its own: what the step keeps in V, *)
(* the fold keeps in V.                                                    *)

\* A list is a function on its positions.
LEMMA ListShape ==
  ASSUME NEW S, NEW list \in Seq(S)
  PROVE  Len(list) \in Nat /\ DOMAIN list = 1..Len(list) /\ \A i \in 1..Len(list) : list[i] \in S
OBVIOUS

\* The elements of a list that are in a set are those both have, and all of them.
LEMMA AmongType ==
  ASSUME NEW S, NEW seq \in Seq(S), NEW set
  PROVE  /\ Among(seq, set) \in Seq(S \cap set)
         /\ \A i \in DOMAIN seq : seq[i] \in set =>
              \E k \in DOMAIN Among(seq, set) : Among(seq, set)[k] = seq[i]
<1> DEFINE V == Seq(S \cap set)
           Op(taken, x) == IF x \in set THEN Append(taken, x) ELSE taken
           n == Len(seq)
           step == [i \in 1..n |-> [v \in V |-> Op(v, seq[i])]]
           Rec(k) == k = [s \in SUBSET DOMAIN seq |->
                            IF s = {} THEN <<>> ELSE Op(k[s \ {Max(s)}], seq[Max(s)])]
<1>1. n \in Nat /\ DOMAIN seq = 1..n /\ <<>> \in V /\ \A i \in 1..n : seq[i] \in S
  OBVIOUS
<1> DEFINE Has(v, x) == \E m \in DOMAIN v : v[m] = x
<1>2. \A v \in V : \A i \in 1..n : /\ Op(v, seq[i]) \in V
                                   /\ seq[i] \in set => Has(Op(v, seq[i]), seq[i])
                                   /\ \A x : Has(v, x) => Has(Op(v, seq[i]), x)
  <2> SUFFICES ASSUME NEW v \in V, NEW i \in 1..n
               PROVE  /\ Op(v, seq[i]) \in V
                      /\ seq[i] \in set => Has(Op(v, seq[i]), seq[i])
                      /\ \A x : Has(v, x) => Has(Op(v, seq[i]), x)
    OBVIOUS
  <2>1. CASE seq[i] \notin set
    BY <2>1
  <2>2. CASE seq[i] \in set
    <3>1. seq[i] \in S \cap set /\ Op(v, seq[i]) = Append(v, seq[i])
      BY <1>1, <2>2
    <3>2. /\ Append(v, seq[i]) \in V /\ DOMAIN v \subseteq DOMAIN Append(v, seq[i])
          /\ Len(v) + 1 \in DOMAIN Append(v, seq[i]) /\ Append(v, seq[i])[Len(v) + 1] = seq[i]
          /\ \A m \in DOMAIN v : Append(v, seq[i])[m] = v[m]
      BY <3>1
    <3> QED
      BY <3>1, <3>2
  <2> QED
    BY <2>1, <2>2
<1>3. PICK k : k = (CHOOSE l : Rec(l))
  OBVIOUS
<1>4. Among(seq, set) = k[DOMAIN seq]
  BY <1>3 DEF Among, FoldLeft, MapThenFoldSet
<1> HIDE DEF Op, V, n, Has
<1>5. step \in [1..n -> [V -> V]]
  BY <1>2
<1>6. PICK g \in [SUBSET (1..n) -> V] : Goes(n, <<>>, step, g)
  <2> HIDE DEF step
  <2> QED
    BY <1>1, <1>5, Iteration
<1>7. Rec(g)
  BY <1>1, <1>6 DEF Goes
<1>8. Rec(k)
  <2> HIDE DEF Rec
  <2> QED
    BY <1>3, <1>7
<1> DEFINE P(s) == k[s] \in V /\ \A i \in s : seq[i] \in set => Has(k[s], seq[i])
           j == [s \in SUBSET (1..n) |-> P(s)]
           Yes == {TRUE}
<1>9. \A s \in SUBSET (1..n) : j[s] \in Yes
  <2>1. j[{}] \in Yes
    BY <1>1, <1>8
  <2>2. ASSUME NEW s \in SUBSET (1..n), s # {}, j[s \ {Max(s)}] \in Yes PROVE j[s] \in Yes
    <3>1. k[s] = Op(k[s \ {Max(s)}], seq[Max(s)])
      BY <1>1, <1>8, <2>2
    <3>2. Max(s) \in 1..n /\ s \ {Max(s)} \in SUBSET (1..n)
      BY <1>6, <2>2 DEF Goes
    <3> HIDE DEF Rec
    <3>3. P(s \ {Max(s)})
      BY <2>2, <3>2
    <3>4. k[s] \in V
      BY <1>2, <3>1, <3>2, <3>3
    <3>5. ASSUME NEW i \in s, seq[i] \in set PROVE Has(k[s], seq[i])
      <4>1. CASE i = Max(s)
        BY <1>2, <3>1, <3>2, <3>3, <3>5, <4>1
      <4>2. CASE i # Max(s)
        BY <1>2, <3>1, <3>2, <3>3, <3>5, <4>2
      <4> QED
        BY <4>1, <4>2
    <3> QED
      BY <3>4, <3>5
  <2> HIDE DEF j, Yes
  <2> QED
    BY <1>1, <2>1, <2>2, IterationStays
<1>10. P(1..n)
  BY <1>9
<1> QED
  BY <1>1, <1>4, <1>10 DEF V, Has

\* What is inferred from a catalog.
LEMMA InferredFold ==
  ASSUME NEW models, NEW at, NEW S, InOrder(models) \in Seq(S), NEW V, <<>> \in V,
         \A v \in V : \A x \in S : v \o Entries(x, at) \in V
  PROVE  Inferred(models, at) \in V
<1> DEFINE list == InOrder(models)
           n == Len(list)
<1>1. n \in Nat /\ DOMAIN list = 1..n /\ \A i \in 1..n : list[i] \in S
  BY ListShape, Zenon
<1> DEFINE first == <<>>
           Op(v, x) == v \o Entries(x, at)
           step == [i \in 1..n |-> [v \in V |-> Op(v, list[i])]]
           Rec(k) == k = [s \in SUBSET DOMAIN list |-> IF s = {} THEN first
                                                ELSE Op(k[s \ {Max(s)}], list[Max(s)])]
<1>2. \A v \in V : \A i \in 1..n : Op(v, list[i]) \in V
  BY <1>1
<1>2a. first \in V
  OBVIOUS
<1>3. PICK k : k = (CHOOSE l : Rec(l))
  OBVIOUS
<1>4. Inferred(models, at) = k[DOMAIN list]
  BY <1>3 DEF Inferred, FoldLeft, MapThenFoldSet
<1> HIDE DEF Op, n, list, first
<1>5. step \in [1..n -> [V -> V]]
  BY <1>2
<1>6. PICK g \in [SUBSET (1..n) -> V] : Goes(n, first, step, g)
  <2> HIDE DEF step
  <2> QED
    BY <1>1, <1>2a, <1>5, Iteration
<1>7. Rec(g)
  BY <1>1, <1>6 DEF Goes
<1>8. Rec(k)
  <2> HIDE DEF Rec
  <2> QED
    BY <1>3, <1>7
<1>9. \A s \in SUBSET (1..n) : k[s] \in V
  <2>1. k[{}] \in V
    BY <1>2a, <1>8
  <2>2. \A s \in SUBSET (1..n) : s # {} => k[s] = Op(k[s \ {Max(s)}], list[Max(s)])
    BY <1>1, <1>8
  <2> HIDE DEF Rec
  <2>3. ASSUME NEW s \in SUBSET (1..n), s # {}, k[s \ {Max(s)}] \in V PROVE k[s] \in V
    <3>1. Max(s) \in 1..n
      BY <1>6, <2>3 DEF Goes
    <3>2. k[s] = Op(k[s \ {Max(s)}], list[Max(s)])
      BY <2>2, <2>3
    <3> QED
      BY <1>2, <2>3, <3>1, <3>2
  <2> QED
    BY <1>1, <2>1, <2>3, IterationStays
<1> QED
  BY <1>1, <1>4, <1>9

\* What is inferred from models of the family.
LEMMA CodexFold ==
  ASSUME NEW models, NEW S, InOrder(models \cap Codex) \in Seq(S), NEW V, <<>> \in V,
         \A v \in V : \A x \in S : WithCodex(models, v, x) \in V
  PROVE  InferredCodex(models) \in V
<1> DEFINE list == InOrder(models \cap Codex)
           n == Len(list)
<1>1. n \in Nat /\ DOMAIN list = 1..n /\ \A i \in 1..n : list[i] \in S
  BY ListShape, Zenon
<1> DEFINE first == <<>>
           Op(v, x) == WithCodex(models, v, x)
           step == [i \in 1..n |-> [v \in V |-> Op(v, list[i])]]
           Rec(k) == k = [s \in SUBSET DOMAIN list |-> IF s = {} THEN first
                                                ELSE Op(k[s \ {Max(s)}], list[Max(s)])]
<1>2. \A v \in V : \A i \in 1..n : Op(v, list[i]) \in V
  BY <1>1
<1>2a. first \in V
  OBVIOUS
<1>3. PICK k : k = (CHOOSE l : Rec(l))
  OBVIOUS
<1>4. InferredCodex(models) = k[DOMAIN list]
  BY <1>3 DEF InferredCodex, FoldLeft, MapThenFoldSet
<1> HIDE DEF Op, n, list, first
<1>5. step \in [1..n -> [V -> V]]
  BY <1>2
<1>6. PICK g \in [SUBSET (1..n) -> V] : Goes(n, first, step, g)
  <2> HIDE DEF step
  <2> QED
    BY <1>1, <1>2a, <1>5, Iteration
<1>7. Rec(g)
  BY <1>1, <1>6 DEF Goes
<1>8. Rec(k)
  <2> HIDE DEF Rec
  <2> QED
    BY <1>3, <1>7
<1>9. \A s \in SUBSET (1..n) : k[s] \in V
  <2>1. k[{}] \in V
    BY <1>2a, <1>8
  <2>2. \A s \in SUBSET (1..n) : s # {} => k[s] = Op(k[s \ {Max(s)}], list[Max(s)])
    BY <1>1, <1>8
  <2> HIDE DEF Rec
  <2>3. ASSUME NEW s \in SUBSET (1..n), s # {}, k[s \ {Max(s)}] \in V PROVE k[s] \in V
    <3>1. Max(s) \in 1..n
      BY <1>6, <2>3 DEF Goes
    <3>2. k[s] = Op(k[s \ {Max(s)}], list[Max(s)])
      BY <2>2, <2>3
    <3> QED
      BY <1>2, <2>3, <3>1, <3>2
  <2> QED
    BY <1>1, <2>1, <2>3, IterationStays
<1> QED
  BY <1>1, <1>4, <1>9

\* What a pool declares after its catalog.
LEMMA ReconciledFold ==
  ASSUME NEW existing, NEW S, NEW inferred \in Seq(S), NEW V,
         [caps |-> existing, matched |-> {}, moves |-> <<>>] \in V,
         \A v \in V : \A x \in S : Reconciling(existing, v, x) \in V
  PROVE  Reconciled(existing, inferred) \in V
<1> DEFINE list == inferred
           n == Len(list)
<1>1. n \in Nat /\ DOMAIN list = 1..n /\ \A i \in 1..n : list[i] \in S
  BY ListShape, Zenon
<1> DEFINE first == [caps |-> existing, matched |-> {}, moves |-> <<>>]
           Op(v, x) == Reconciling(existing, v, x)
           step == [i \in 1..n |-> [v \in V |-> Op(v, list[i])]]
           Rec(k) == k = [s \in SUBSET DOMAIN list |-> IF s = {} THEN first
                                                ELSE Op(k[s \ {Max(s)}], list[Max(s)])]
<1>2. \A v \in V : \A i \in 1..n : Op(v, list[i]) \in V
  BY <1>1
<1>2a. first \in V
  OBVIOUS
<1>3. PICK k : k = (CHOOSE l : Rec(l))
  OBVIOUS
<1>4. Reconciled(existing, inferred) = k[DOMAIN list]
  BY <1>3 DEF Reconciled, FoldLeft, MapThenFoldSet
<1> HIDE DEF Op, n, list, first
<1>5. step \in [1..n -> [V -> V]]
  BY <1>2
<1>6. PICK g \in [SUBSET (1..n) -> V] : Goes(n, first, step, g)
  <2> HIDE DEF step
  <2> QED
    BY <1>1, <1>2a, <1>5, Iteration
<1>7. Rec(g)
  BY <1>1, <1>6 DEF Goes
<1>8. Rec(k)
  <2> HIDE DEF Rec
  <2> QED
    BY <1>3, <1>7
<1>9. \A s \in SUBSET (1..n) : k[s] \in V
  <2>1. k[{}] \in V
    BY <1>2a, <1>8
  <2>2. \A s \in SUBSET (1..n) : s # {} => k[s] = Op(k[s \ {Max(s)}], list[Max(s)])
    BY <1>1, <1>8
  <2> HIDE DEF Rec
  <2>3. ASSUME NEW s \in SUBSET (1..n), s # {}, k[s \ {Max(s)}] \in V PROVE k[s] \in V
    <3>1. Max(s) \in 1..n
      BY <1>6, <2>3 DEF Goes
    <3>2. k[s] = Op(k[s \ {Max(s)}], list[Max(s)])
      BY <2>2, <2>3
    <3> QED
      BY <1>2, <2>3, <3>1, <3>2
  <2> QED
    BY <1>1, <2>1, <2>3, IterationStays
<1> QED
  BY <1>1, <1>4, <1>9

\* What any other source declares after its catalog.
LEMMA SyncedFold ==
  ASSUME NEW existing, NEW S, NEW inferred \in Seq(S), NEW V, existing \in V,
         \A v \in V : \A x \in S : Syncing(v, x) \in V
  PROVE  MergedSynced(existing, inferred) \in V
<1> DEFINE list == inferred
           n == Len(list)
<1>1. n \in Nat /\ DOMAIN list = 1..n /\ \A i \in 1..n : list[i] \in S
  BY ListShape, Zenon
<1> DEFINE first == existing
           Op(v, x) == Syncing(v, x)
           step == [i \in 1..n |-> [v \in V |-> Op(v, list[i])]]
           Rec(k) == k = [s \in SUBSET DOMAIN list |-> IF s = {} THEN first
                                                ELSE Op(k[s \ {Max(s)}], list[Max(s)])]
<1>2. \A v \in V : \A i \in 1..n : Op(v, list[i]) \in V
  BY <1>1
<1>2a. first \in V
  OBVIOUS
<1>3. PICK k : k = (CHOOSE l : Rec(l))
  OBVIOUS
<1>4. MergedSynced(existing, inferred) = k[DOMAIN list]
  BY <1>3 DEF MergedSynced, FoldLeft, MapThenFoldSet
<1> HIDE DEF Op, n, list, first
<1>5. step \in [1..n -> [V -> V]]
  BY <1>2
<1>6. PICK g \in [SUBSET (1..n) -> V] : Goes(n, first, step, g)
  <2> HIDE DEF step
  <2> QED
    BY <1>1, <1>2a, <1>5, Iteration
<1>7. Rec(g)
  BY <1>1, <1>6 DEF Goes
<1>8. Rec(k)
  <2> HIDE DEF Rec
  <2> QED
    BY <1>3, <1>7
<1>9. \A s \in SUBSET (1..n) : k[s] \in V
  <2>1. k[{}] \in V
    BY <1>2a, <1>8
  <2>2. \A s \in SUBSET (1..n) : s # {} => k[s] = Op(k[s \ {Max(s)}], list[Max(s)])
    BY <1>1, <1>8
  <2> HIDE DEF Rec
  <2>3. ASSUME NEW s \in SUBSET (1..n), s # {}, k[s \ {Max(s)}] \in V PROVE k[s] \in V
    <3>1. Max(s) \in 1..n
      BY <1>6, <2>3 DEF Goes
    <3>2. k[s] = Op(k[s \ {Max(s)}], list[Max(s)])
      BY <2>2, <2>3
    <3> QED
      BY <1>2, <2>3, <3>1, <3>2
  <2> QED
    BY <1>1, <2>1, <2>3, IterationStays
<1> QED
  BY <1>1, <1>4, <1>9

\* What a pool declares after its models changed.
LEMMA ChannelFold ==
  ASSUME NEW existing, NEW S, NEW inferred \in Seq(S), NEW V, existing \in V,
         \A v \in V : \A x \in S : Adding(v, x) \in V
  PROVE  MergedChannel(existing, inferred) \in V
<1> DEFINE list == inferred
           n == Len(list)
<1>1. n \in Nat /\ DOMAIN list = 1..n /\ \A i \in 1..n : list[i] \in S
  BY ListShape, Zenon
<1> DEFINE first == existing
           Op(v, x) == Adding(v, x)
           step == [i \in 1..n |-> [v \in V |-> Op(v, list[i])]]
           Rec(k) == k = [s \in SUBSET DOMAIN list |-> IF s = {} THEN first
                                                ELSE Op(k[s \ {Max(s)}], list[Max(s)])]
<1>2. \A v \in V : \A i \in 1..n : Op(v, list[i]) \in V
  BY <1>1
<1>2a. first \in V
  OBVIOUS
<1>3. PICK k : k = (CHOOSE l : Rec(l))
  OBVIOUS
<1>4. MergedChannel(existing, inferred) = k[DOMAIN list]
  BY <1>3 DEF MergedChannel, FoldLeft, MapThenFoldSet
<1> HIDE DEF Op, n, list, first
<1>5. step \in [1..n -> [V -> V]]
  BY <1>2
<1>6. PICK g \in [SUBSET (1..n) -> V] : Goes(n, first, step, g)
  <2> HIDE DEF step
  <2> QED
    BY <1>1, <1>2a, <1>5, Iteration
<1>7. Rec(g)
  BY <1>1, <1>6 DEF Goes
<1>8. Rec(k)
  <2> HIDE DEF Rec
  <2> QED
    BY <1>3, <1>7
<1>9. \A s \in SUBSET (1..n) : k[s] \in V
  <2>1. k[{}] \in V
    BY <1>2a, <1>8
  <2>2. \A s \in SUBSET (1..n) : s # {} => k[s] = Op(k[s \ {Max(s)}], list[Max(s)])
    BY <1>1, <1>8
  <2> HIDE DEF Rec
  <2>3. ASSUME NEW s \in SUBSET (1..n), s # {}, k[s \ {Max(s)}] \in V PROVE k[s] \in V
    <3>1. Max(s) \in 1..n
      BY <1>6, <2>3 DEF Goes
    <3>2. k[s] = Op(k[s \ {Max(s)}], list[Max(s)])
      BY <2>2, <2>3
    <3> QED
      BY <1>2, <2>3, <3>1, <3>2
  <2> QED
    BY <1>1, <2>1, <2>3, IterationStays
<1> QED
  BY <1>1, <1>4, <1>9

\* The pools after a credential went away.
LEMMA ReconciliationFold ==
  ASSUME NEW cfg, NEW available, NEW models, NEW S, AccountOrder \in Seq(S), NEW V, cfg \in V,
         \A v \in V : \A x \in S : Withdrawing(v, x, available, models) \in V
  PROVE  Reconciliation(cfg, available, models) \in V
<1> DEFINE list == AccountOrder
           n == Len(list)
<1>1. n \in Nat /\ DOMAIN list = 1..n /\ \A i \in 1..n : list[i] \in S
  BY ListShape, Zenon
<1> DEFINE first == cfg
           Op(v, x) == Withdrawing(v, x, available, models)
           step == [i \in 1..n |-> [v \in V |-> Op(v, list[i])]]
           Rec(k) == k = [s \in SUBSET DOMAIN list |-> IF s = {} THEN first
                                                ELSE Op(k[s \ {Max(s)}], list[Max(s)])]
<1>2. \A v \in V : \A i \in 1..n : Op(v, list[i]) \in V
  BY <1>1
<1>2a. first \in V
  OBVIOUS
<1>3. PICK k : k = (CHOOSE l : Rec(l))
  OBVIOUS
<1>4. Reconciliation(cfg, available, models) = k[DOMAIN list]
  BY <1>3 DEF Reconciliation, FoldLeft, MapThenFoldSet
<1> HIDE DEF Op, n, list, first
<1>5. step \in [1..n -> [V -> V]]
  BY <1>2
<1>6. PICK g \in [SUBSET (1..n) -> V] : Goes(n, first, step, g)
  <2> HIDE DEF step
  <2> QED
    BY <1>1, <1>2a, <1>5, Iteration
<1>7. Rec(g)
  BY <1>1, <1>6 DEF Goes
<1>8. Rec(k)
  <2> HIDE DEF Rec
  <2> QED
    BY <1>3, <1>7
<1>9. \A s \in SUBSET (1..n) : k[s] \in V
  <2>1. k[{}] \in V
    BY <1>2a, <1>8
  <2>2. \A s \in SUBSET (1..n) : s # {} => k[s] = Op(k[s \ {Max(s)}], list[Max(s)])
    BY <1>1, <1>8
  <2> HIDE DEF Rec
  <2>3. ASSUME NEW s \in SUBSET (1..n), s # {}, k[s \ {Max(s)}] \in V PROVE k[s] \in V
    <3>1. Max(s) \in 1..n
      BY <1>6, <2>3 DEF Goes
    <3>2. k[s] = Op(k[s \ {Max(s)}], list[Max(s)])
      BY <2>2, <2>3
    <3> QED
      BY <1>2, <2>3, <3>1, <3>2
  <2> QED
    BY <1>1, <2>1, <2>3, IterationStays
<1> QED
  BY <1>1, <1>4, <1>9

\* The accounts after their catalogs.
LEMMA UpdatedFold ==
  ASSUME NEW cfg, NEW catalogs, NEW at, NEW S, NEW read \in Seq(S), NEW V, cfg \in V,
         \A v \in V : \A x \in S : Updated(v, x, catalogs[x], at) \in V
  PROVE  AllUpdated(cfg, catalogs, at, read) \in V
<1> DEFINE list == read
           n == Len(list)
<1>1. n \in Nat /\ DOMAIN list = 1..n /\ \A i \in 1..n : list[i] \in S
  BY ListShape, Zenon
<1> DEFINE first == cfg
           Op(v, x) == Updated(v, x, catalogs[x], at)
           step == [i \in 1..n |-> [v \in V |-> Op(v, list[i])]]
           Rec(k) == k = [s \in SUBSET DOMAIN list |-> IF s = {} THEN first
                                                ELSE Op(k[s \ {Max(s)}], list[Max(s)])]
<1>2. \A v \in V : \A i \in 1..n : Op(v, list[i]) \in V
  BY <1>1
<1>2a. first \in V
  OBVIOUS
<1>3. PICK k : k = (CHOOSE l : Rec(l))
  OBVIOUS
<1>4. AllUpdated(cfg, catalogs, at, read) = k[DOMAIN list]
  BY <1>3 DEF AllUpdated, FoldLeft, MapThenFoldSet
<1> HIDE DEF Op, n, list, first
<1>5. step \in [1..n -> [V -> V]]
  BY <1>2
<1>6. PICK g \in [SUBSET (1..n) -> V] : Goes(n, first, step, g)
  <2> HIDE DEF step
  <2> QED
    BY <1>1, <1>2a, <1>5, Iteration
<1>7. Rec(g)
  BY <1>1, <1>6 DEF Goes
<1>8. Rec(k)
  <2> HIDE DEF Rec
  <2> QED
    BY <1>3, <1>7
<1>9. \A s \in SUBSET (1..n) : k[s] \in V
  <2>1. k[{}] \in V
    BY <1>2a, <1>8
  <2>2. \A s \in SUBSET (1..n) : s # {} => k[s] = Op(k[s \ {Max(s)}], list[Max(s)])
    BY <1>1, <1>8
  <2> HIDE DEF Rec
  <2>3. ASSUME NEW s \in SUBSET (1..n), s # {}, k[s \ {Max(s)}] \in V PROVE k[s] \in V
    <3>1. Max(s) \in 1..n
      BY <1>6, <2>3 DEF Goes
    <3>2. k[s] = Op(k[s \ {Max(s)}], list[Max(s)])
      BY <2>2, <2>3
    <3> QED
      BY <1>2, <2>3, <3>1, <3>2
  <2> QED
    BY <1>1, <2>1, <2>3, IterationStays
<1> QED
  BY <1>1, <1>4, <1>9

\* The changes of name that catalogs bring about.
LEMMA MovesFold ==
  ASSUME NEW cfg, NEW catalogs, NEW at, NEW S, NEW read \in Seq(S), NEW V, <<>> \in V,
         \A v \in V : \A x \in S : v \o Moves(x, cfg.accounts[x], catalogs[x], at) \in V
  PROVE  AllMoves(cfg, catalogs, at, read) \in V
<1> DEFINE list == read
           n == Len(list)
<1>1. n \in Nat /\ DOMAIN list = 1..n /\ \A i \in 1..n : list[i] \in S
  BY ListShape, Zenon
<1> DEFINE first == <<>>
           Op(v, x) == v \o Moves(x, cfg.accounts[x], catalogs[x], at)
           step == [i \in 1..n |-> [v \in V |-> Op(v, list[i])]]
           Rec(k) == k = [s \in SUBSET DOMAIN list |-> IF s = {} THEN first
                                                ELSE Op(k[s \ {Max(s)}], list[Max(s)])]
<1>2. \A v \in V : \A i \in 1..n : Op(v, list[i]) \in V
  BY <1>1
<1>2a. first \in V
  OBVIOUS
<1>3. PICK k : k = (CHOOSE l : Rec(l))
  OBVIOUS
<1>4. AllMoves(cfg, catalogs, at, read) = k[DOMAIN list]
  BY <1>3 DEF AllMoves, FoldLeft, MapThenFoldSet
<1> HIDE DEF Op, n, list, first
<1>5. step \in [1..n -> [V -> V]]
  BY <1>2
<1>6. PICK g \in [SUBSET (1..n) -> V] : Goes(n, first, step, g)
  <2> HIDE DEF step
  <2> QED
    BY <1>1, <1>2a, <1>5, Iteration
<1>7. Rec(g)
  BY <1>1, <1>6 DEF Goes
<1>8. Rec(k)
  <2> HIDE DEF Rec
  <2> QED
    BY <1>3, <1>7
<1>9. \A s \in SUBSET (1..n) : k[s] \in V
  <2>1. k[{}] \in V
    BY <1>2a, <1>8
  <2>2. \A s \in SUBSET (1..n) : s # {} => k[s] = Op(k[s \ {Max(s)}], list[Max(s)])
    BY <1>1, <1>8
  <2> HIDE DEF Rec
  <2>3. ASSUME NEW s \in SUBSET (1..n), s # {}, k[s \ {Max(s)}] \in V PROVE k[s] \in V
    <3>1. Max(s) \in 1..n
      BY <1>6, <2>3 DEF Goes
    <3>2. k[s] = Op(k[s \ {Max(s)}], list[Max(s)])
      BY <2>2, <2>3
    <3> QED
      BY <1>2, <2>3, <3>1, <3>2
  <2> QED
    BY <1>1, <2>1, <2>3, IterationStays
<1> QED
  BY <1>1, <1>4, <1>9

\* The configuration after changes of name.
LEMMA MovedFold ==
  ASSUME NEW cfg, NEW S, NEW moves \in Seq(S), NEW V, cfg \in V,
         \A v \in V : \A x \in S : Moved(v, x.account, x.move) \in V
  PROVE  AllMoved(cfg, moves) \in V
<1> DEFINE list == moves
           n == Len(list)
<1>1. n \in Nat /\ DOMAIN list = 1..n /\ \A i \in 1..n : list[i] \in S
  BY ListShape, Zenon
<1> DEFINE first == cfg
           Op(v, x) == Moved(v, x.account, x.move)
           step == [i \in 1..n |-> [v \in V |-> Op(v, list[i])]]
           Rec(k) == k = [s \in SUBSET DOMAIN list |-> IF s = {} THEN first
                                                ELSE Op(k[s \ {Max(s)}], list[Max(s)])]
<1>2. \A v \in V : \A i \in 1..n : Op(v, list[i]) \in V
  BY <1>1
<1>2a. first \in V
  OBVIOUS
<1>3. PICK k : k = (CHOOSE l : Rec(l))
  OBVIOUS
<1>4. AllMoved(cfg, moves) = k[DOMAIN list]
  BY <1>3 DEF AllMoved, FoldLeft, MapThenFoldSet
<1> HIDE DEF Op, n, list, first
<1>5. step \in [1..n -> [V -> V]]
  BY <1>2
<1>6. PICK g \in [SUBSET (1..n) -> V] : Goes(n, first, step, g)
  <2> HIDE DEF step
  <2> QED
    BY <1>1, <1>2a, <1>5, Iteration
<1>7. Rec(g)
  BY <1>1, <1>6 DEF Goes
<1>8. Rec(k)
  <2> HIDE DEF Rec
  <2> QED
    BY <1>3, <1>7
<1>9. \A s \in SUBSET (1..n) : k[s] \in V
  <2>1. k[{}] \in V
    BY <1>2a, <1>8
  <2>2. \A s \in SUBSET (1..n) : s # {} => k[s] = Op(k[s \ {Max(s)}], list[Max(s)])
    BY <1>1, <1>8
  <2> HIDE DEF Rec
  <2>3. ASSUME NEW s \in SUBSET (1..n), s # {}, k[s \ {Max(s)}] \in V PROVE k[s] \in V
    <3>1. Max(s) \in 1..n
      BY <1>6, <2>3 DEF Goes
    <3>2. k[s] = Op(k[s \ {Max(s)}], list[Max(s)])
      BY <2>2, <2>3
    <3> QED
      BY <1>2, <2>3, <3>1, <3>2
  <2> QED
    BY <1>1, <2>1, <2>3, IterationStays
<1> QED
  BY <1>1, <1>4, <1>9

-----------------------------------------------------------------------------
(* What settings claim to have been verified.                              *)

\* Declarations of an account whose verified facts are among those in P.
Backed(a, P) ==
  {c \in Declarations : \A f \in c.facts : f.status = "verified" =>
     [account |-> a, key |-> f.key, upstream |-> c.upstream, credential |-> f.credential] \in P}

BackedSources(a, P) == {s \in Sources : s.caps \in Seq(Backed(a, P))}

BackedSettings(aliases, P) ==
  {cfg \in Settings(aliases) :
     \A a \in Accounts : Configured(cfg, a) => cfg.accounts[a] \in BackedSources(a, P)}

\* Declarations of which nothing is known.
Blank == {c \in Declarations : c.facts = {} /\ Usable(c)}

\* What claims nothing is backed by any set of observations.
LEMMA BlankBacked == \A a, P : Blank \subseteq Backed(a, P)
BY DEF Blank, Backed

\* Lists of parts are lists.
LEMMA PartLists ==
  ASSUME NEW S, NEW T, S \subseteq T
  PROVE  Seq(S) \subseteq Seq(T)
BY SeqMonotonic

\* A list with one element exchanged is a list.
LEMMA ListsChange ==
  ASSUME NEW S, NEW s \in Seq(S), NEW i, NEW x \in S
  PROVE  [s EXCEPT ![i] = x] \in Seq(S)
<1>1. s \in [1..Len(s) -> S] /\ Len(s) \in Nat
  OBVIOUS
<1>2. [s EXCEPT ![i] = x] \in [1..Len(s) -> S]
  BY <1>1
<1> QED
  BY <1>1, <1>2, SeqDef

-----------------------------------------------------------------------------
(* Inference.                                                              *)

\* There are finitely many models.
LEMMA ModelsFinite == IsFiniteSet(Models)
<1>1. ModelOrder \in [1..Len(ModelOrder) -> Models] /\ Len(ModelOrder) \in Nat
  BY CapabilitiesAssumption
<1>2. \A m \in Models : \E i \in 1..Len(ModelOrder) : ModelOrder[i] = m
  BY <1>1 DEF Models, ToSet
<1>3. ModelOrder \in Surjection(1..Len(ModelOrder), Models)
  BY <1>1, <1>2 DEF Surjection
<1> QED
  BY <1>1, <1>3, FS_Surjection, FS_Interval

\* Some model of a family is preferred to no other less.
LEMMA PreferredExists ==
  ASSUME NEW F \in SUBSET (Models \cap Codex), F # {}
  PROVE  \E m \in F : \A o \in F : Preference[m] >= Preference[o]
<1> DEFINE Better(m) == {o \in F : ~(Preference[m] >= Preference[o])}
           T == {Better(m) : m \in F}
<1>1. IsFiniteSet(F)
  BY ModelsFinite, FS_Subset
<1>2. \A m \in F : Preference[m] \in Int
  BY CapabilitiesAssumption
<1>3. T \subseteq SUBSET F /\ T # {}
  OBVIOUS
<1>4. PICK s \in T : \A t \in T : t \subseteq s => t = s
  <2> HIDE DEF T
  <2> QED
    BY <1>1, <1>3, SmallestPart
<1>5. PICK m \in F : s = Better(m)
  BY <1>4
<1>6. ASSUME NEW o \in Better(m) PROVE FALSE
  <2>1. Better(o) \subseteq Better(m) /\ o \notin Better(o)
    BY <1>2, <1>6
  <2>2. Better(o) \in T
    BY <1>6
  <2> QED
    BY <1>4, <1>5, <1>6, <2>1, <2>2
<1> QED
  BY <1>6

\* The models of a set in the order of the catalog; none is left out.
LEMMA InOrderType ==
  ASSUME NEW models
  PROVE  /\ InOrder(models) \in Seq(Models \cap models)
         /\ \A m \in Models \cap models : InOrder(models) # <<>>
<1>1. ModelOrder \in Seq(Models)
  BY CapabilitiesAssumption
<1>2. \A m \in Models : \E i \in DOMAIN ModelOrder : ModelOrder[i] = m
  BY DEF Models, ToSet
<1> QED
  BY <1>1, <1>2, AmongType DEF InOrder

\* The canonical model of a family that has one is a model.
LEMMA CanonicalType ==
  ASSUME NEW models \in SUBSET Models, NEW m \in models \cap Codex
  PROVE  Canonical(models, LogicalOf[m]) \in Models
<1> DEFINE F == Family(models, LogicalOf[m])
           best == {o \in F : \A p \in F : Preference[o] >= Preference[p]}
<1>1. F \in SUBSET (Models \cap Codex) /\ F # {}
  BY DEF Family
<1>2. best \in SUBSET Models /\ best # {}
  <2> HIDE DEF F
  <2> QED
    BY <1>1, PreferredExists
<1> HIDE DEF best, F
<1>3. InOrder(best) \in Seq(Models \cap best) /\ InOrder(best) # <<>>
  BY <1>2, InOrderType
<1>4. Head(InOrder(best)) \in Models
  BY <1>3
<1> QED
  BY <1>4 DEF Canonical, best, F

\* A capability as it is first declared carries no fact.
LEMMA CapabilityType ==
  ASSUME NEW name \in Profiles, NEW m \in Models,
         NEW evidence \in Evidences, evidence.status # "unsupported"
  PROVE  Capability(name, m, evidence) \in Blank
BY DEF Capability, Blank, Declarations, Usable

\* Both names of a model are names.
LEMMA NamesAreProfiles ==
  ASSUME NEW m \in Models
  PROVE  Standard(LogicalOf[m]) \in Profiles /\ FastProfile(LogicalOf[m]) \in Profiles
BY CapabilitiesAssumption DEF Standard, FastProfile, Profiles

\* What is inferred from a catalog says nothing of checks.
LEMMA InferredType ==
  ASSUME NEW models, NEW at \in Int
  PROVE  Inferred(models, at) \in Seq(Blank)
<1> DEFINE V == Seq(Blank)
           S == Models \cap models
<1>1. InOrder(models) \in Seq(S)
  BY InOrderType
<1>2. ASSUME NEW m \in Models
      PROVE  Entries(m, at) \in V
  <2>1. Declared(at) \in Evidences /\ Declared(at).status # "unsupported"
    BY DEF Declared, Evidence, Evidences, Connections
  <2>2. /\ Capability(Standard(LogicalOf[m]), m, Declared(at)) \in Blank
        /\ Capability(FastProfile(LogicalOf[m]), m, Declared(at)) \in Blank
    BY <2>1, CapabilityType, NamesAreProfiles
  <2> QED
    BY <2>2 DEF Entries
<1>3. \A v \in V : \A x \in S : v \o Entries(x, at) \in V
  BY <1>2
<1>4. <<>> \in V
  OBVIOUS
<1> HIDE DEF V, S
<1>5. Inferred(models, at) \in V
  BY <1>1, <1>3, <1>4, InferredFold
<1> QED
  BY <1>5 DEF V

\* Nor does what is inferred for the Codex families.
LEMMA InferredCodexType ==
  ASSUME NEW models \in SUBSET Models
  PROVE  InferredCodex(models) \in Seq(Blank)
<1> DEFINE V == Seq(Blank)
           S == models \cap Codex
<1>1. InOrder(models \cap Codex) \in Seq(S)
  <2>1. InOrder(models \cap Codex) \in Seq(Models \cap (models \cap Codex))
    BY InOrderType
  <2>2. Models \cap (models \cap Codex) = S
    OBVIOUS
  <2> QED
    BY <2>1, <2>2
<1>2. ASSUME NEW v \in V, NEW m \in S
      PROVE  WithCodex(models, v, m) \in V
  <2>1. Authored \in Evidences /\ Authored.status # "unsupported"
    BY DEF Authored, Evidence, Evidences, Connections
  <2>2. Capability(Standard(LogicalOf[m]), Canonical(models, LogicalOf[m]), Authored) \in Blank
    BY <2>1, CapabilityType, CanonicalType, NamesAreProfiles
  <2> QED
    BY <2>2 DEF WithCodex
<1>3. <<>> \in V
  OBVIOUS
<1>2a. \A v \in V : \A m \in S : WithCodex(models, v, m) \in V
  BY <1>2
<1> HIDE DEF V, S
<1>4. InferredCodex(models) \in V
  BY <1>1, <1>2a, <1>3, CodexFold
<1> QED
  BY <1>4 DEF V

-----------------------------------------------------------------------------
(* Merging.                                                                *)

\* Declarations merged into a source are of the kind both lists are.
LEMMA MergedChannelType ==
  ASSUME NEW S, NEW existing \in Seq(S), NEW inferred \in Seq(S)
  PROVE  MergedChannel(existing, inferred) \in Seq(S)
<1> DEFINE V == Seq(S)
<1>1. \A v \in V : \A x \in S : Adding(v, x) \in V
  BY DEF Adding
<1> HIDE DEF V
<1>2. existing \in V
  BY DEF V
<1>3. MergedChannel(existing, inferred) \in V
  BY <1>1, <1>2, ChannelFold
<1> QED
  BY <1>3 DEF V

\* A declaration is its four fields.
LEMMA DeclarationFields ==
  ASSUME NEW c \in Declarations
  PROVE  /\ c = [model |-> c.model, upstream |-> c.upstream, facts |-> c.facts,
                 evidence |-> c.evidence]
         /\ c.model \in Profiles /\ c.upstream \in Models /\ c.facts \in SUBSET Facts
         /\ c.evidence \in Evidences
BY DEF Declarations

\* New evidence about a model leaves its facts alone.
LEMMA EvidenceKeepsFacts ==
  ASSUME NEW a, NEW P, NEW c \in Backed(a, P),
         NEW e \in Evidences
  PROVE  [c EXCEPT !.evidence = e] \in Backed(a, P)
<1>1. c \in Declarations
  BY DEF Backed
<1>2. /\ [c EXCEPT !.evidence = e] \in Declarations
      /\ [c EXCEPT !.evidence = e].facts = c.facts
      /\ [c EXCEPT !.evidence = e].upstream = c.upstream
  BY <1>1 DEF Declarations
<1> QED
  BY <1>2 DEF Backed

\* Evidence that outlives a sync does not change what is claimed.
LEMMA PreservedType ==
  ASSUME NEW a, NEW P, NEW previous \in Declarations, NEW current \in Backed(a, P)
  PROVE  Preserved(previous, current) \in Backed(a, P)
BY EvidenceKeepsFacts, DeclarationFields DEF Preserved

\* One entry of a catalog is taken into the declarations of a direct source.
LEMMA SyncingType ==
  ASSUME NEW a, NEW P, NEW v \in Seq(Backed(a, P)), NEW c \in Blank
  PROVE  Syncing(v, c) \in Seq(Backed(a, P))
<1> DEFINE C == Backed(a, P)
           same == {i \in DOMAIN v : v[i].model = c.model /\ v[i].upstream = c.upstream}
           i == Max(same)
           renewed == IF v[i].evidence.status = "authored" \/ v[i].evidence.source = "catalog"
                      THEN [v[i] EXCEPT !.evidence = c.evidence] ELSE v[i]
<1>1. CASE same = {}
  BY <1>1, BlankBacked DEF Syncing
<1>2. CASE same # {}
  <2>1. i \in DOMAIN v
    <3>1. Len(v) \in Nat /\ same \in SUBSET (1..Len(v))
      OBVIOUS
    <3> HIDE DEF same
    <3>2. i \in same
      BY <1>2, <3>1, LargestPosition
    <3> QED
      BY <3>2 DEF same
  <2> HIDE DEF i
  <2>2. v[i] \in C
    BY <2>1
  <2>3. v[i] \in Declarations /\ c \in Declarations
    BY <2>2 DEF Backed, Blank
  <2> HIDE DEF C
  <2>4. renewed \in C
    BY <2>2, <2>3, EvidenceKeepsFacts, DeclarationFields DEF C, renewed
  <2> HIDE DEF renewed
  <2>5. Preserved(v[i], renewed) \in C
    BY <2>3, <2>4, PreservedType DEF C
  <2>6. Syncing(v, c) = [v EXCEPT ![i] = Preserved(v[i], renewed)]
    BY <1>2 DEF Syncing, i, renewed
  <2> QED
    BY <2>1, <2>5, <2>6 DEF C
<1> QED
  BY <1>1, <1>2

\* A sync of a direct source claims nothing that was not claimed.
LEMMA MergedSyncedType ==
  ASSUME NEW a, NEW P, NEW existing \in Seq(Backed(a, P)), NEW inferred \in Seq(Blank)
  PROVE  MergedSynced(existing, inferred) \in Seq(Backed(a, P))
<1> DEFINE V == Seq(Backed(a, P))
<1>1. \A v \in V : \A c \in Blank : Syncing(v, c) \in V
  BY SyncingType
<1> HIDE DEF V
<1>2. existing \in V
  BY DEF V
<1>3. MergedSynced(existing, inferred) \in V
  BY <1>1, <1>2, SyncedFold
<1> QED
  BY <1>3 DEF V

\* A change of name, of a capability of an account.
MovesOf(a, P) == [from : Profiles, to : Profiles, legacy : Backed(a, P)]

\* A capability under a new name claims what it did under the old one.
LEMMA ReplacingType ==
  ASSUME NEW a, NEW P, NEW previous \in Backed(a, P), NEW c \in Blank,
         previous.upstream = c.upstream
  PROVE  Replacing(previous, c) \in Backed(a, P)
<1> DEFINE e == IF previous.evidence.status \in {"verified", "unsupported"}
                THEN previous.evidence ELSE c.evidence
           new == [c EXCEPT !.facts = previous.facts, !.evidence = e]
<1>1. previous \in Declarations /\ c \in Declarations
  BY DEF Backed, Blank
<1>2. new \in Declarations /\ new.facts = previous.facts /\ new.upstream = previous.upstream
  BY <1>1 DEF Declarations
<1>3. new \in Backed(a, P)
  BY <1>2 DEF Backed
<1>4. Replacing(previous, c) = Preserved(previous, new)
  BY <1>1 DEF Replacing, Declarations
<1> QED
  BY <1>1, <1>3, <1>4, PreservedType

\* The states of a sync of a pool.
Reconcilings(a, P, existing) ==
  [caps : Seq(Backed(a, P)), matched : SUBSET DOMAIN existing, moves : Seq(MovesOf(a, P))]

\* One entry of a catalog is taken into the declarations of a pool.
LEMMA ReconcilingType ==
  ASSUME NEW a, NEW P, NEW existing \in Seq(Backed(a, P)),
         NEW r \in Reconcilings(a, P, existing), NEW c \in Blank
  PROVE  Reconciling(existing, r, c) \in Reconcilings(a, P, existing)
<1> DEFINE C == Backed(a, P)
           M == MovesOf(a, P)
           matches == Matches(existing, r.matched, c)
           i == Min(matches)
<1>0. Reconcilings(a, P, existing) =
        [caps : Seq(C), matched : SUBSET DOMAIN existing, moves : Seq(M)]
  BY DEF Reconcilings
<1>1. CASE matches = {}
  <2>1. Reconciling(existing, r, c) = [r EXCEPT !.caps = Append(r.caps, c)]
    BY <1>1 DEF Reconciling
  <2>2. Append(r.caps, c) \in Seq(C)
    BY <1>0, BlankBacked
  <2> QED
    BY <1>0, <2>1, <2>2
<1>2. CASE matches # {}
  <2>1. matches \subseteq DOMAIN existing /\ \A j \in matches : existing[j].upstream = c.upstream
    BY DEF Matches
  <2>2. i \in matches
    <3>1. Len(existing) \in Nat /\ matches \in SUBSET (1..Len(existing))
      BY <2>1
    <3> HIDE DEF matches
    <3> QED
      BY <1>2, <3>1, SmallestPosition
  <2>3. /\ existing[i] \in C /\ existing[i].upstream = c.upstream
        /\ existing[i].model \in Profiles /\ c.model \in Profiles
    BY <2>1, <2>2, DeclarationFields DEF Backed, Blank
  <2>4. r.caps \in Seq(C) /\ r.matched \in SUBSET DOMAIN existing /\ r.moves \in Seq(M)
    BY <1>0
  <2> HIDE DEF i, matches, C
  <2>5. Replacing(existing[i], c) \in C
    BY <2>3, ReplacingType DEF C
  <2>6. [r.caps EXCEPT ![i] = Replacing(existing[i], c)] \in Seq(C)
    BY <2>4, <2>5, ListsChange
  <2>7. [from |-> existing[i].model, to |-> c.model, legacy |-> existing[i]] \in M
    BY <2>3 DEF MovesOf, C
  <2>8. r.matched \cup {i} \in SUBSET DOMAIN existing
    BY <2>1, <2>2, <2>4
  <2> DEFINE moves == IF existing[i].model = c.model THEN r.moves
                ELSE Append(r.moves, [from |-> existing[i].model, to |-> c.model,
                                      legacy |-> existing[i]])
  <2>9. moves \in Seq(M)
    <3> HIDE DEF M
    <3> QED
      BY <2>4, <2>7
  <2>10. Reconciling(existing, r, c) =
           [caps |-> [r.caps EXCEPT ![i] = Replacing(existing[i], c)],
            matched |-> r.matched \cup {i}, moves |-> moves]
    BY <1>2 DEF Reconciling, i, matches
  <2> HIDE DEF moves, M
  <2> QED
    BY <1>0, <2>6, <2>8, <2>9, <2>10
<1> QED
  BY <1>1, <1>2

\* A sync of a pool claims nothing that was not claimed, and neither do the
\* declarations set aside for the names that were in use.
LEMMA ReconciledType ==
  ASSUME NEW a, NEW P, NEW existing \in Seq(Backed(a, P)), NEW inferred \in Seq(Blank)
  PROVE  Reconciled(existing, inferred) \in Reconcilings(a, P, existing)
<1> DEFINE V == Reconcilings(a, P, existing)
<1>1. \A r \in V : \A c \in Blank : Reconciling(existing, r, c) \in V
  BY ReconcilingType
<1>2. [caps |-> existing, matched |-> {}, moves |-> <<>>] \in V
  BY DEF Reconcilings
<1> HIDE DEF V
<1>3. Reconciled(existing, inferred) \in V
  BY <1>1, <1>2, ReconciledFold
<1> QED
  BY <1>3 DEF V

-----------------------------------------------------------------------------
(* Operations on settings.                                                 *)

\* A source is not Absent, and its fields are of their types.
LEMMA SourceFields ==
  ASSUME NEW a, NEW P, NEW s \in BackedSources(a, P)
  PROVE  /\ s \in Sources /\ s # Absent
         /\ s.enabled \in BOOLEAN /\ s.key \in Keys /\ s.models \in SUBSET Models
         /\ s.caps \in Seq(Backed(a, P))
BY ChangesAssumption DEF BackedSources, Sources

\* A source is made of its fields.
LEMMA SourceMade ==
  ASSUME NEW a, NEW P, NEW enabled \in BOOLEAN, NEW key \in Keys, NEW models \in SUBSET Models,
         NEW caps \in Seq(Backed(a, P))
  PROVE  [enabled |-> enabled, key |-> key, models |-> models, caps |-> caps]
           \in BackedSources(a, P)
<1>1. caps \in Seq(Declarations)
  BY PartLists DEF Backed
<1> QED
  BY <1>1 DEF BackedSources, Sources

\* A source of which some fields are exchanged.
LEMMA CapsChanged ==
  ASSUME NEW a, NEW P, NEW s \in Sources, NEW caps \in Seq(Backed(a, P))
  PROVE  /\ [s EXCEPT !.caps = caps] \in BackedSources(a, P)
         /\ [s EXCEPT !.caps = caps].caps = caps /\ [s EXCEPT !.caps = caps].key = s.key
<1>1. caps \in Seq(Declarations)
  BY PartLists DEF Backed
<1>2. /\ [s EXCEPT !.caps = caps] \in Sources
      /\ [s EXCEPT !.caps = caps].caps = caps /\ [s EXCEPT !.caps = caps].key = s.key
  BY <1>1 DEF Sources
<1> QED
  BY <1>2 DEF BackedSources

\* A source of which the models and the declarations are exchanged, in either
\* order, with or without the switch.
LEMMA SourceChanged ==
  ASSUME NEW a, NEW P, NEW s \in Sources, NEW models \in SUBSET Models,
         NEW caps \in Seq(Backed(a, P))
  PROVE  /\ [s EXCEPT !.caps = caps, !.models = models] \in BackedSources(a, P)
         /\ [s EXCEPT !.models = models, !.caps = caps] \in BackedSources(a, P)
         /\ \A enabled \in BOOLEAN :
              [s EXCEPT !.models = models, !.enabled = enabled, !.caps = caps]
                \in BackedSources(a, P)
<1>1. caps \in Seq(Declarations)
  BY PartLists DEF Backed
<1>2. /\ [s EXCEPT !.caps = caps, !.models = models] \in Sources
      /\ [s EXCEPT !.caps = caps, !.models = models].caps = caps
  BY <1>1 DEF Sources
<1>3. /\ [s EXCEPT !.models = models, !.caps = caps] \in Sources
      /\ [s EXCEPT !.models = models, !.caps = caps].caps = caps
  BY <1>1 DEF Sources
<1>4. ASSUME NEW enabled \in BOOLEAN
      PROVE  /\ [s EXCEPT !.models = models, !.enabled = enabled, !.caps = caps] \in Sources
             /\ [s EXCEPT !.models = models, !.enabled = enabled, !.caps = caps].caps = caps
  BY <1>1 DEF Sources
<1> QED
  BY <1>2, <1>3, <1>4, Zenon DEF BackedSources

\* An account that is switched on or off, or gets another key.
LEMMA SourceSwitched ==
  ASSUME NEW a, NEW P, NEW s \in BackedSources(a, P), NEW enabled \in BOOLEAN
  PROVE  /\ [s EXCEPT !.enabled = enabled] \in BackedSources(a, P)
         /\ [s EXCEPT !.enabled = enabled].caps = s.caps
         /\ [s EXCEPT !.enabled = enabled].key = s.key
<1>1. s \in Sources
  BY SourceFields
<1>2. [s EXCEPT !.enabled = enabled] =
        [enabled |-> enabled, key |-> s.key, models |-> s.models, caps |-> s.caps]
  BY <1>1 DEF Sources
<1>3. [enabled |-> enabled, key |-> s.key, models |-> s.models, caps |-> s.caps]
        \in BackedSources(a, P)
  BY SourceFields, SourceMade
<1> QED
  BY <1>2, <1>3

\* A connection under another key keeps its shape.
LEMMA SourceRekeyed ==
  ASSUME NEW a, NEW P, NEW s \in BackedSources(a, P), NEW key \in Keys
  PROVE  [s EXCEPT !.key = key] \in BackedSources(a, P)
<1>1. s \in Sources
  BY SourceFields
<1>2. [s EXCEPT !.key = key] =
        [enabled |-> s.enabled, key |-> key, models |-> s.models, caps |-> s.caps]
  BY <1>1 DEF Sources
<1>3. [enabled |-> s.enabled, key |-> key, models |-> s.models, caps |-> s.caps]
        \in BackedSources(a, P)
  BY SourceFields, SourceMade
<1> QED
  BY <1>2, <1>3

\* One account is exchanged.
LEMMA AccountSet ==
  ASSUME NEW aliases, NEW P, NEW cfg \in BackedSettings(aliases, P), NEW a \in Accounts,
         NEW new \in BackedSources(a, P)
  PROVE  /\ [cfg EXCEPT !.accounts[a] = new] \in BackedSettings(aliases, P)
         /\ \A b \in Accounts : Configured(cfg, b) =>
              Configured([cfg EXCEPT !.accounts[a] = new], b)
<1> DEFINE next == [cfg EXCEPT !.accounts[a] = new]
<1>1. cfg \in Settings(aliases) /\ new \in Sources /\ new # Absent
  BY SourceFields DEF BackedSettings
<1>2. /\ next \in Settings(aliases)
      /\ next.accounts[a] = new
      /\ \A b \in Accounts : b # a => next.accounts[b] = cfg.accounts[b]
  BY <1>1 DEF Settings
<1> HIDE DEF next
<1>3. \A b \in Accounts : Configured(next, b) => next.accounts[b] \in BackedSources(b, P)
  BY <1>2 DEF BackedSettings, Configured
<1>4. \A b \in Accounts : Configured(cfg, b) => Configured(next, b)
  BY <1>1, <1>2 DEF Configured
<1> QED
  BY <1>2, <1>3, <1>4 DEF BackedSettings, next

\* Every verified fact was observed on the connection in use.
CurrentSource(s) ==
  \A i \in DOMAIN s.caps : \A f \in s.caps[i].facts : f.status = "verified" => f.key = s.key

CurrentFacts(cfg) == \A a \in Accounts : Configured(cfg, a) => CurrentSource(cfg.accounts[a])

\* After invalidation every verified fact is of the key in use and backed as
\* before.
LEMMA InvalidatedType ==
  ASSUME NEW a, NEW P, NEW s \in BackedSources(a, P)
  PROVE  Invalidated(s) \in BackedSources(a, P) /\ CurrentSource(Invalidated(s))
<1> DEFINE Known(e) == IF (e.status = "verified" \/ e.key # Absent) /\ e.key # s.key
                       THEN [e EXCEPT !.status = "unknown"] ELSE e
           Cap(c) == [c EXCEPT !.evidence = Known(c.evidence),
                               !.facts = {Known(f) : f \in c.facts}]
           caps == [i \in DOMAIN s.caps |-> Cap(s.caps[i])]
<1>1. s.caps \in Seq(Backed(a, P)) /\ s \in Sources
  BY SourceFields
<1>2. \A f \in Facts : /\ Known(f) \in Facts
                       /\ Known(f).status = "verified" => Known(f) = f /\ f.key = s.key
  BY DEF Facts
<1>2a. \A e \in Evidences : Known(e) \in Evidences
  BY DEF Evidences
<1>3. ASSUME NEW c \in Backed(a, P)
      PROVE  /\ Cap(c) \in Backed(a, P)
             /\ \A f \in Cap(c).facts : f.status = "verified" => f.key = s.key
  <2>1. c \in Declarations /\ c.facts \in SUBSET Facts
    BY DEF Backed, Declarations
  <2> DEFINE facts == {Known(f) : f \in c.facts}
             e == Known(c.evidence)
  <2>1a. e \in Evidences
    BY <1>2a, <2>1 DEF Declarations
  <2>2. /\ facts \in SUBSET Facts
        /\ \A g \in facts : g.status = "verified" => g \in c.facts /\ g.key = s.key
    BY <1>2, <2>1
  <2> HIDE DEF facts, e
  <2> DEFINE new == [c EXCEPT !.evidence = e, !.facts = facts]
  <2>3. new \in Declarations /\ new.facts = facts /\ new.upstream = c.upstream
    BY <2>1, <2>1a, <2>2 DEF Declarations
  <2>4. new \in Backed(a, P)
    BY <2>2, <2>3 DEF Backed
  <2> QED
    BY <2>2, <2>3, <2>4 DEF facts, e
<1> HIDE DEF Known
<1>4. Invalidated(s) = [s EXCEPT !.caps = caps]
  BY DEF Invalidated, Known
<1> HIDE DEF Cap
<1>5. caps \in Seq(Backed(a, P)) /\ DOMAIN caps = DOMAIN s.caps
  <2>1. s.caps \in [1..Len(s.caps) -> Backed(a, P)] /\ Len(s.caps) \in Nat
    BY <1>1
  <2>2. caps \in [1..Len(s.caps) -> Backed(a, P)]
    BY <1>3, <2>1
  <2> QED
    BY <2>1, <2>2, SeqDef
<1>6. \A i \in DOMAIN caps : \A f \in caps[i].facts : f.status = "verified" => f.key = s.key
  <2>1. \A i \in DOMAIN s.caps : s.caps[i] \in Backed(a, P)
    BY <1>1
  <2> QED
    BY <1>3, <2>1
<1> HIDE DEF caps
<1>7. /\ [s EXCEPT !.caps = caps] \in BackedSources(a, P)
      /\ [s EXCEPT !.caps = caps].caps = caps /\ [s EXCEPT !.caps = caps].key = s.key
  BY <1>1, <1>5, CapsChanged
<1> QED
  BY <1>4, <1>6, <1>7 DEF CurrentSource

\* A normalization forgets what was observed on another connection.
LEMMA NormalizedType ==
  ASSUME NEW aliases, NEW P, NEW cfg \in BackedSettings(aliases, P)
  PROVE  Normalized(cfg) \in BackedSettings(aliases, P) /\ CurrentFacts(Normalized(cfg))
<1> DEFINE Filled(a, s) == IF a \in Pools /\ s.caps = <<>>
                           THEN [s EXCEPT !.caps = InferredCodex(s.models)] ELSE s
           accounts == [a \in Accounts |-> IF cfg.accounts[a] = Absent THEN Absent
                                           ELSE Invalidated(Filled(a, cfg.accounts[a]))]
<1>1. cfg \in Settings(aliases)
  BY DEF BackedSettings
<1>2. ASSUME NEW a \in Accounts, cfg.accounts[a] # Absent
      PROVE  Filled(a, cfg.accounts[a]) \in BackedSources(a, P)
  <2> DEFINE s == cfg.accounts[a]
  <2>1. s \in BackedSources(a, P)
    BY <1>2 DEF BackedSettings, Configured
  <2> HIDE DEF s
  <2>2. InferredCodex(s.models) \in Seq(Backed(a, P))
    BY <2>1, SourceFields, InferredCodexType, BlankBacked, PartLists
  <2>3. s \in Sources /\ s.enabled \in BOOLEAN /\ s.models \in SUBSET Models
    BY <2>1, SourceFields
  <2>4. [s EXCEPT !.caps = InferredCodex(s.models)] \in BackedSources(a, P)
    BY <2>2, <2>3, CapsChanged
  <2> QED
    BY <2>1, <2>4 DEF s
<1> HIDE DEF Filled
<1>3. ASSUME NEW a \in Accounts, cfg.accounts[a] # Absent
      PROVE  /\ accounts[a] \in BackedSources(a, P) /\ CurrentSource(accounts[a])
             /\ accounts[a] \in Sources
  BY <1>2, <1>3, InvalidatedType, SourceFields
<1>4. \A a \in Accounts : cfg.accounts[a] = Absent => accounts[a] = Absent
  OBVIOUS
<1>5. Normalized(cfg) = [cfg EXCEPT !.accounts = accounts]
  BY DEF Normalized, Filled
<1>6. DOMAIN accounts = Accounts /\ accounts = [a \in Accounts |-> accounts[a]]
  OBVIOUS
<1> HIDE DEF accounts
<1>7. accounts \in [Accounts -> Sources \cup {Absent}]
  BY <1>3, <1>4, <1>6
<1>8. /\ [cfg EXCEPT !.accounts = accounts] \in Settings(aliases)
      /\ [cfg EXCEPT !.accounts = accounts].accounts = accounts
  BY <1>1, <1>7 DEF Settings
<1> QED
  BY <1>3, <1>4, <1>5, <1>8 DEF BackedSettings, Configured, CurrentFacts

\* The models in scope of an account are models.
LEMMA InScopeType == \A a : \A models \in SUBSET Models : InScope(a, models) \in SUBSET Models
BY DEF InScope

\* Withdrawing models from a pool.
LEMMA WithdrawnType ==
  ASSUME NEW aliases, NEW P, NEW cfg \in BackedSettings(aliases, P), NEW a \in Accounts,
         Configured(cfg, a), NEW models \in SUBSET Models
  PROVE  Withdrawn(cfg, a, models) \in BackedSources(a, P)
<1> DEFINE old == cfg.accounts[a]
           rest == Among(old.caps, {c \in ToSet(old.caps) : c.upstream \in models})
           caps == MergedChannel(rest, InferredCodex(models))
           enabled == old.enabled /\ models # {}
           new == [old EXCEPT !.models = models, !.enabled = enabled, !.caps = caps]
           off == [old EXCEPT !.enabled = FALSE]
<1>1. old \in BackedSources(a, P)
  BY DEF BackedSettings
<1>2. Withdrawn(cfg, a, models) \in {new, off}
  BY DEF Withdrawn
<1> HIDE DEF old
<1>3. old \in Sources /\ old.caps \in Seq(Backed(a, P)) /\ old.enabled \in BOOLEAN
  BY <1>1, SourceFields
<1>4. rest \in Seq(Backed(a, P))
  <2> DEFINE C == Backed(a, P)
             D == {c \in ToSet(old.caps) : c.upstream \in models}
  <2>1. Among(old.caps, D) \in Seq(C \cap D)
    BY <1>3, AmongType
  <2> HIDE DEF C, D
  <2>2. Among(old.caps, D) \in Seq(C)
    BY <2>1, PartLists
  <2> QED
    BY <2>2 DEF C, D
<1> HIDE DEF rest
<1>5. caps \in Seq(Backed(a, P))
  BY <1>4, InferredCodexType, BlankBacked, PartLists, MergedChannelType
<1> HIDE DEF caps
<1>6. enabled \in BOOLEAN
  BY <1>3
<1> HIDE DEF enabled
<1>7. new \in BackedSources(a, P)
  BY <1>3, <1>5, <1>6, SourceChanged, Zenon
<1>8. off \in BackedSources(a, P)
  BY <1>1, SourceSwitched
<1> QED
  BY <1>2, <1>7, <1>8

\* Withdrawing what has no credential left, account by account, claims nothing
\* new.
LEMMA ReconciliationType ==
  ASSUME NEW aliases, NEW P, NEW cfg \in BackedSettings(aliases, P), NEW available,
         NEW models \in SUBSET Models
  PROVE  Reconciliation(cfg, available, models) \in BackedSettings(aliases, P)
<1> DEFINE V == BackedSettings(aliases, P)
<1>1. ASSUME NEW v \in V, NEW a \in Accounts
      PROVE  Withdrawing(v, a, available, models) \in V
  <2>1. PoolCatalog(a, available, models) \in SUBSET Models
    BY InScopeType DEF PoolCatalog
  <2>2. CASE a \notin Pools \/ ~Configured(v, a)
    BY <2>2 DEF Withdrawing
  <2>3. CASE ~(a \notin Pools \/ ~Configured(v, a))
    <3> DEFINE new == Withdrawn(v, a, PoolCatalog(a, available, models))
    <3>1. new \in BackedSources(a, P)
      BY <2>1, <2>3, WithdrawnType
    <3>2. Withdrawing(v, a, available, models) = [v EXCEPT !.accounts[a] = new]
      BY <2>3 DEF Withdrawing
    <3> HIDE DEF new
    <3> QED
      BY <3>1, <3>2, AccountSet
  <2> QED
    BY <2>2, <2>3
<1>2. \A v \in V : \A a \in Accounts : Withdrawing(v, a, available, models) \in V
  BY <1>1
<1> HIDE DEF V
<1>3. cfg \in V /\ AccountOrder \in Seq(Accounts)
  BY SettingsAssumption DEF V
<1>4. Reconciliation(cfg, available, models) \in V
  BY <1>2, <1>3, ReconciliationFold
<1> QED
  BY <1>4 DEF V

\* The pool for a provider is a configured account.
LEMMA PoolForType ==
  ASSUME NEW cfg, NEW provider, PoolFor(cfg, provider) # Absent
  PROVE  PoolFor(cfg, provider) \in Accounts /\ Configured(cfg, PoolFor(cfg, provider))
<1> DEFINE I == {i \in 1..Len(AccountOrder) :
                   /\ AccountOrder[i] \in Pools /\ Configured(cfg, AccountOrder[i])
                   /\ Scope[AccountOrder[i]] \in {Absent, provider}}
<1>1. AccountOrder \in Seq(Accounts) /\ Len(AccountOrder) \in Nat
  BY SettingsAssumption
<1>2. I # {} => Min(I) \in I
  <2> DEFINE n == Len(AccountOrder)
  <2>1. n \in Nat /\ I \in SUBSET (1..n)
    BY <1>1
  <2> HIDE DEF I, n
  <2> QED
    BY <2>1, SmallestPosition
<1>3. PoolFor(cfg, provider) = IF I = {} THEN Absent ELSE AccountOrder[Min(I)]
  <2>1. I # {} => Min(I) # 0
    BY <1>2
  <2> QED
    BY <2>1 DEF PoolFor, SelectInSeq
<1> QED
  BY <1>1, <1>2, <1>3

\* Announcing the models of a provider.
LEMMA EnsuredType ==
  ASSUME NEW aliases, NEW P, NEW cfg \in BackedSettings(aliases, P), NEW provider,
         NEW models \in SUBSET Models, Ensured(cfg, provider, models) # Absent
  PROVE  Ensured(cfg, provider, models) \in BackedSettings(aliases, P)
<1> DEFINE a == PoolFor(cfg, provider)
           more == InScope(a, models)
           old == cfg.accounts[a]
           caps == MergedChannel(old.caps, InferredCodex(old.models \cup more))
           announced == [old EXCEPT !.models = old.models \cup more, !.caps = caps]
           first == [enabled |-> TRUE, key |-> NewKey, models |-> models,
                     caps |-> InferredCodex(models)]
<1>1. a # Absent => a \in Accounts /\ Configured(cfg, a)
  BY PoolForType
<1>2. Ensured(cfg, provider, models) \in
        {IF a # Absent THEN [cfg EXCEPT !.accounts[a] = announced]
         ELSE [cfg EXCEPT !.accounts[Shared] = first]}
  BY DEF Ensured
<1> HIDE DEF a
<1>3. CASE a # Absent
  <2>1. old \in BackedSources(a, P) /\ a \in Accounts
    BY <1>1, <1>3 DEF BackedSettings
  <2>2. old.models \cup more \in SUBSET Models
    BY <2>1, SourceFields, InScopeType
  <2> HIDE DEF old, more
  <2>3. caps \in Seq(Backed(a, P))
    BY <2>1, <2>2, SourceFields, InferredCodexType, BlankBacked, PartLists, MergedChannelType
  <2> HIDE DEF caps
  <2>4. old \in Sources /\ old.enabled \in BOOLEAN
    BY <2>1, SourceFields
  <2>5. announced \in BackedSources(a, P)
    BY <2>2, <2>3, <2>4, SourceChanged, Zenon
  <2> HIDE DEF announced
  <2> QED
    BY <1>2, <1>3, <2>1, <2>5, AccountSet
<1>4. CASE a = Absent
  <2>1. first \in BackedSources(Shared, P)
    BY InferredCodexType, BlankBacked, PartLists, SourceMade, ChangesAssumption
  <2> HIDE DEF first
  <2>2. Ensured(cfg, provider, models) = [cfg EXCEPT !.accounts[Shared] = first]
    BY <1>2, <1>4
  <2>3. [cfg EXCEPT !.accounts[Shared] = first] \in BackedSettings(aliases, P)
    BY <2>1, AccountSet, SettingsAssumption
  <2> QED
    BY <2>2, <2>3
<1> QED
  BY <1>3, <1>4

\* What an import makes of the configuration.
LEMMA WithImportType ==
  ASSUME NEW aliases, NEW P, NEW cfg \in BackedSettings(aliases, P), NEW upsert,
         Imported.caps \in Seq(Backed(Imported.account, P))
  PROVE  WithImport(cfg, upsert) \in BackedSettings(aliases, P)
<1> DEFINE a == Imported.account
           key == IF Configured(cfg, a) THEN cfg.accounts[a].key ELSE NewKey
           new == [enabled |-> TRUE, models |-> Imported.models, caps |-> Imported.caps,
                   key |-> key]
           trial == Normalized([cfg EXCEPT !.accounts[a] = new])
<1>1. a \in Accounts /\ Imported.models \in SUBSET Models
  BY ChangesAssumption
<1>2. WithImport(cfg, upsert) \in {cfg, trial}
  BY DEF WithImport
<1>3. key \in Keys
  BY <1>1, SourceFields, ChangesAssumption DEF BackedSettings
<1> HIDE DEF key
<1>4. new \in BackedSources(a, P)
  BY <1>1, <1>3, SourceMade
<1> HIDE DEF new, a
<1>5. trial \in BackedSettings(aliases, P)
  BY <1>1, <1>4, AccountSet, NormalizedType
<1> QED
  BY <1>2, <1>5

-----------------------------------------------------------------------------
(* Catalogs.                                                               *)

\* What an account declares after its catalog.
LEMMA SyncedType ==
  ASSUME NEW a, NEW P, NEW s \in BackedSources(a, P), NEW catalog \in SUBSET Models,
         NEW at \in Int
  PROVE  Synced(a, s, catalog, at) \in BackedSources(a, P)
<1> DEFINE inferred == Inferred(catalog, at)
           caps == IF a \in Pools THEN Reconciled(s.caps, inferred).caps
                   ELSE MergedSynced(s.caps, inferred)
           models == (IF a \in Pools THEN catalog ELSE s.models \cup catalog) \cup Upstreams(caps)
<1>1. s \in Sources /\ s.caps \in Seq(Backed(a, P)) /\ s.models \in SUBSET Models
      /\ s.enabled \in BOOLEAN
  BY SourceFields
<1>2. inferred \in Seq(Blank)
  BY InferredType
<1>3. Synced(a, s, catalog, at) = [s EXCEPT !.caps = caps, !.models = models]
  BY DEF Synced
<1> HIDE DEF inferred
<1>4. caps \in Seq(Backed(a, P))
  <2>1. MergedSynced(s.caps, inferred) \in Seq(Backed(a, P))
    BY <1>1, <1>2, MergedSyncedType
  <2>2. Reconciled(s.caps, inferred).caps \in Seq(Backed(a, P))
    BY <1>1, <1>2, ReconciledType DEF Reconcilings
  <2> QED
    BY <2>1, <2>2
<1> HIDE DEF caps
<1>5. Upstreams(caps) \in SUBSET Models
  <2>1. \A i \in DOMAIN caps : caps[i] \in Backed(a, P)
    BY <1>4
  <2>2. \A c \in Backed(a, P) : c.upstream \in Models
    BY DEF Backed, Declarations
  <2> QED
    BY <2>1, <2>2 DEF Upstreams
<1>6. models \in SUBSET Models
  BY <1>1, <1>5
<1> HIDE DEF models
<1>7. [s EXCEPT !.caps = caps, !.models = models] \in BackedSources(a, P)
  BY <1>1, <1>4, <1>6, SourceChanged, Zenon
<1> QED
  BY <1>3, <1>7

\* All catalogs that were read are taken over: no claim is new, and the accounts
\* they are of remain.
LEMMA AllUpdatedType ==
  ASSUME NEW aliases, NEW P, NEW cfg \in BackedSettings(aliases, P), NEW at \in Int,
         NEW Q \in SUBSET Accounts, \A a \in Q : Configured(cfg, a),
         NEW catalogs, \A a \in Q : catalogs[a] \in SUBSET Models, NEW read \in Seq(Q)
  PROVE  /\ AllUpdated(cfg, catalogs, at, read) \in BackedSettings(aliases, P)
         /\ \A a \in Q : Configured(AllUpdated(cfg, catalogs, at, read), a)
<1> DEFINE V == {c \in BackedSettings(aliases, P) : \A a \in Q : Configured(c, a)}
<1>1. ASSUME NEW v \in V, NEW a \in Q
      PROVE  Updated(v, a, catalogs[a], at) \in V
  <2> DEFINE new == Synced(a, v.accounts[a], catalogs[a], at)
  <2>1. v.accounts[a] \in BackedSources(a, P)
    BY DEF BackedSettings
  <2>2. new \in BackedSources(a, P)
    BY <2>1, SyncedType
  <2>3. Updated(v, a, catalogs[a], at) = [v EXCEPT !.accounts[a] = new]
    BY DEF Updated
  <2> HIDE DEF new
  <2>4. v \in BackedSettings(aliases, P) /\ \A b \in Q : Configured(v, b)
    OBVIOUS
  <2>5. /\ [v EXCEPT !.accounts[a] = new] \in BackedSettings(aliases, P)
        /\ \A b \in Accounts : Configured(v, b) => Configured([v EXCEPT !.accounts[a] = new], b)
    BY <2>2, <2>4, AccountSet
  <2> QED
    BY <2>3, <2>4, <2>5
<1>2. \A v \in V : \A a \in Q : Updated(v, a, catalogs[a], at) \in V
  BY <1>1
<1>3. cfg \in V
  OBVIOUS
<1> HIDE DEF V
<1>4. AllUpdated(cfg, catalogs, at, read) \in V
  BY <1>2, <1>3, UpdatedFold
<1> QED
  BY <1>4 DEF V

\* The changes of name of the accounts in Q.
AccountMoves(Q, P) ==
  {m \in [account : Q, move : [from : Profiles, to : Profiles, legacy : Declarations]] :
     m.move \in MovesOf(m.account, P)}

\* The changes of name that a discovery calls for, of all its accounts.
LEMMA AllMovesType ==
  ASSUME NEW aliases, NEW P, NEW cfg \in BackedSettings(aliases, P), NEW at \in Int,
         NEW Q \in SUBSET Accounts, \A a \in Q : Configured(cfg, a),
         NEW catalogs, NEW read \in Seq(Q)
  PROVE  AllMoves(cfg, catalogs, at, read) \in Seq(AccountMoves(Q, P))
<1> DEFINE M == AccountMoves(Q, P)
           V == Seq(M)
<1>1. ASSUME NEW a \in Q
      PROVE  Moves(a, cfg.accounts[a], catalogs[a], at) \in V
  <2> DEFINE s == cfg.accounts[a]
             moves == Reconciled(s.caps, Inferred(catalogs[a], at)).moves
             marked == [i \in DOMAIN moves |-> [account |-> a, move |-> moves[i]]]
  <2>1. s.caps \in Seq(Backed(a, P))
    BY SourceFields DEF BackedSettings
  <2>2. moves \in Seq(MovesOf(a, P))
    <3> HIDE DEF s
    <3> QED
      BY <2>1, InferredType, ReconciledType DEF Reconcilings
  <2>3. Moves(a, s, catalogs[a], at) \in {<<>>, marked}
    BY DEF Moves
  <2> HIDE DEF moves
  <2>4. marked \in Seq(M)
    <3>1. moves \in [1..Len(moves) -> MovesOf(a, P)] /\ Len(moves) \in Nat
      BY <2>2
    <3>2. \A mv \in MovesOf(a, P) : [account |-> a, move |-> mv] \in M
      BY DEF MovesOf, AccountMoves, Backed
    <3> HIDE DEF M
    <3>3. marked \in [1..Len(moves) -> M]
      BY <3>1, <3>2
    <3> QED
      BY <3>1, <3>3, SeqDef
  <2> HIDE DEF marked, M
  <2>5. <<>> \in V /\ marked \in V
    BY <2>4
  <2> HIDE DEF V
  <2> QED
    BY <2>3, <2>5
<1> HIDE DEF M
<1>2. \A v \in V : \A a \in Q : v \o Moves(a, cfg.accounts[a], catalogs[a], at) \in V
  BY <1>1
<1>3. <<>> \in V
  OBVIOUS
<1> HIDE DEF V
<1>4. AllMoves(cfg, catalogs, at, read) \in V
  BY <1>2, <1>3, MovesFold
<1> QED
  BY <1>4 DEF V, M

\* One change of name: routes follow it, or the old name stays.
LEMMA MovedType ==
  ASSUME NEW aliases, NEW P, NEW cfg \in BackedSettings(aliases, P), NEW a \in Accounts,
         Configured(cfg, a), NEW move \in MovesOf(a, P)
  PROVE  /\ Moved(cfg, a, move) \in BackedSettings(aliases, P)
         /\ \A b \in Accounts : Configured(cfg, b) => Configured(Moved(cfg, a, move), b)
<1> DEFINE follow == Following(cfg, a, move)
           old == cfg.accounts[a]
           routes == Rerouted(cfg.routes, follow, move)
           caps == IF \E i \in DOMAIN old.caps : old.caps[i].model = move.legacy.model THEN old.caps
                   ELSE Append(old.caps, move.legacy)
           models == old.models \cup {move.legacy.upstream}
           new == [old EXCEPT !.caps = caps, !.models = models]
<1>1. Moved(cfg, a, move) \in
        {[cfg EXCEPT !.routes = routes], cfg, [cfg EXCEPT !.accounts[a] = new]}
  <2>1. Following(cfg, a, move) # {} => Moved(cfg, a, move) = [cfg EXCEPT !.routes = routes]
    BY DEF Moved
  <2>2. Following(cfg, a, move) = {} => Moved(cfg, a, move) \in
          {cfg, [cfg EXCEPT !.accounts[a] = Aliased(old, move.legacy)]}
    BY DEF Moved
  <2>3. Aliased(old, move.legacy) = new
    BY DEF Aliased
  <2> HIDE DEF routes, new
  <2> QED
    BY <2>1, <2>2, <2>3
<1>2. cfg \in Settings(aliases) /\ move.to \in Profiles /\ move.legacy \in Backed(a, P)
  BY DEF BackedSettings, MovesOf
<1>3. /\ [cfg EXCEPT !.routes = routes] \in BackedSettings(aliases, P)
      /\ \A b \in Accounts : Configured(cfg, b) => Configured([cfg EXCEPT !.routes = routes], b)
  <2> HIDE DEF follow
  <2>1. \A name \in Profiles : Renamed(move, name) \in Profiles
    BY <1>2 DEF Renamed, FastProfile, Profiles
  <2>2. DOMAIN cfg.routes = aliases /\
        \A r \in aliases : cfg.routes[r] \in [model : Profiles, targets : SUBSET Accounts]
    BY <1>2 DEF Settings
  <2>3. routes \in [aliases -> [model : Profiles, targets : SUBSET Accounts]]
    BY <2>1, <2>2 DEF Rerouted
  <2> HIDE DEF routes
  <2>4. /\ [cfg EXCEPT !.routes = routes] \in Settings(aliases)
        /\ [cfg EXCEPT !.routes = routes].accounts = cfg.accounts
    BY <1>2, <2>3 DEF Settings
  <2> QED
    BY <2>4 DEF BackedSettings, Configured
<1> HIDE DEF follow, routes
<1>4. new \in BackedSources(a, P)
  <2>1. old \in BackedSources(a, P)
    BY DEF BackedSettings
  <2> HIDE DEF old
  <2>2. old \in Sources /\ old.enabled \in BOOLEAN /\ old.models \in SUBSET Models
        /\ old.caps \in Seq(Backed(a, P))
    BY <2>1, SourceFields
  <2>3. caps \in Seq(Backed(a, P))
    BY <1>2, <2>2
  <2>4. models \in SUBSET Models
    BY <1>2, <2>2 DEF Backed, Declarations
  <2> HIDE DEF caps, models
  <2> QED
    BY <2>2, <2>3, <2>4, SourceChanged, Zenon
<1> HIDE DEF new
<1>5. /\ [cfg EXCEPT !.accounts[a] = new] \in BackedSettings(aliases, P)
      /\ \A b \in Accounts : Configured(cfg, b) => Configured([cfg EXCEPT !.accounts[a] = new], b)
  BY <1>4, AccountSet
<1> QED
  BY <1>1, <1>3, <1>5

\* Routes and accounts that follow the changes of name claim nothing new.
LEMMA AllMovedType ==
  ASSUME NEW aliases, NEW P, NEW cfg \in BackedSettings(aliases, P),
         NEW Q \in SUBSET Accounts, \A a \in Q : Configured(cfg, a),
         NEW moves \in Seq(AccountMoves(Q, P))
  PROVE  AllMoved(cfg, moves) \in BackedSettings(aliases, P)
<1> DEFINE V == {c \in BackedSettings(aliases, P) : \A a \in Q : Configured(c, a)}
           M == AccountMoves(Q, P)
<1>1. ASSUME NEW v \in V, NEW m \in M
      PROVE  Moved(v, m.account, m.move) \in V
  <2>1. m.account \in Q /\ m.move \in MovesOf(m.account, P)
    BY DEF AccountMoves
  <2> HIDE DEF M
  <2> QED
    BY <2>1, MovedType
<1>2. \A v \in V : \A m \in M : Moved(v, m.account, m.move) \in V
  BY <1>1
<1>3. cfg \in V /\ moves \in Seq(M)
  OBVIOUS
<1> HIDE DEF V, M
<1>4. AllMoved(cfg, moves) \in V
  BY <1>2, <1>3, MovedFold
<1> QED
  BY <1>4 DEF V

\* What a poll makes of the configuration.
LEMMA DiscoveredType ==
  ASSUME NEW aliases, NEW P, NEW cfg \in BackedSettings(aliases, P), NEW at \in Int,
         NEW catalogs, DOMAIN catalogs \subseteq Accounts,
         \A a \in DOMAIN catalogs : Configured(cfg, a) /\ catalogs[a] \in SUBSET Models
  PROVE  Discovered(cfg, catalogs, at) \in BackedSettings(aliases, P)
<1> DEFINE Q == DOMAIN catalogs
           read == Among(AccountOrder, Q)
           updated == AllUpdated(cfg, catalogs, at, read)
           moves == AllMoves(cfg, catalogs, at, read)
<1>1. read \in Seq(Q)
  <2>1. read \in Seq(Accounts \cap Q)
    BY AmongType, SettingsAssumption
  <2>2. Accounts \cap Q = Q
    OBVIOUS
  <2> HIDE DEF read, Q
  <2> QED
    BY <2>1, <2>2
<1>2. Discovered(cfg, catalogs, at) \in {cfg, AllMoved(updated, moves)}
  BY DEF Discovered
<1>3. Q \in SUBSET Accounts /\ (\A a \in Q : Configured(cfg, a))
      /\ (\A a \in Q : catalogs[a] \in SUBSET Models)
  OBVIOUS
<1> HIDE DEF read, Q
<1>4. updated \in BackedSettings(aliases, P) /\ \A a \in Q : Configured(updated, a)
  BY <1>1, <1>3, AllUpdatedType
<1>5. moves \in Seq(AccountMoves(Q, P))
  BY <1>1, <1>3, AllMovesType
<1> HIDE DEF updated, moves
<1>6. AllMoved(updated, moves) \in BackedSettings(aliases, P)
  BY <1>3, <1>4, <1>5, AllMovedType
<1> QED
  BY <1>2, <1>6

-----------------------------------------------------------------------------
(* Checks and exclusions.                                                  *)

\* What is recorded of a check: a success only where it is in P.
LEMMA RecordedType ==
  ASSUME NEW a, NEW P, NEW s \in BackedSources(a, P), NEW name \in Profiles, NEW m \in Models,
         NEW credential \in Scopes, NEW passed \in BOOLEAN,
         passed => [account |-> a, key |-> s.key, upstream |-> m, credential |-> credential] \in P
  PROVE  Recorded(s, name, m, credential, passed) \in BackedSources(a, P)
<1> DEFINE I == {i \in 1..Len(s.caps) : s.caps[i].model = name /\ s.caps[i].upstream = m}
           k == IF I # {} THEN Min(I) ELSE 0
           blank == Capability(name, m, Evidence("unknown", "operator", 0))
           caps == IF k # 0 THEN s.caps ELSE Append(s.caps, blank)
           j == IF k # 0 THEN k ELSE Len(caps)
           old == {f \in caps[j].facts : f.credential = credential}
           new == [credential |-> credential, key |-> s.key,
                   status |-> IF passed THEN "verified" ELSE "unknown"]
           facts == (caps[j].facts \ old) \cup {new}
           next == [caps EXCEPT ![j].facts = facts]
           C == Backed(a, P)
<1>1. s \in Sources /\ s.caps \in Seq(C) /\ s.key \in Keys /\ s.enabled \in BOOLEAN
      /\ s.models \in SUBSET Models
  BY SourceFields
<1>2. k = SelectInSeq(s.caps, LAMBDA c : c.model = name /\ c.upstream = m)
  BY DEF SelectInSeq
<1>3. Recorded(s, name, m, credential, passed) \in
        {[s EXCEPT !.caps = caps], [s EXCEPT !.caps = next]}
  BY Zenon DEF Recorded, SelectInSeq
<1>4. k # 0 => k \in 1..Len(s.caps) /\ s.caps[k].upstream = m
  <2> DEFINE n == Len(s.caps)
  <2>1. n \in Nat /\ I \in SUBSET (1..n)
    BY <1>1
  <2>2. I # {} => Min(I) \in I
    <3> HIDE DEF I, n
    <3> QED
      BY <2>1, SmallestPosition
  <2> QED
    BY <2>2
<1> HIDE DEF k
<1>5. blank \in C /\ blank.upstream = m /\ blank \in Declarations
  <2>1. blank \in Blank
    BY CapabilityType DEF Evidence, Evidences, Connections
  <2> QED
    BY <2>1, BlankBacked DEF Capability, Blank
<1> HIDE DEF blank, C
<1>6. caps \in Seq(C) /\ j \in DOMAIN caps /\ caps[j] \in C /\ caps[j].upstream = m
  BY <1>1, <1>4, <1>5
<1> HIDE DEF caps, j
<1>7. caps[j] \in Declarations /\ caps[j].facts \in SUBSET Facts
  BY <1>6 DEF C, Backed, Declarations
<1>8. new \in Facts
  BY <1>1 DEF Facts, Connections
<1>9. /\ facts \in SUBSET Facts
      /\ \A f \in facts : f \in caps[j].facts \/ f = new
  BY <1>7, <1>8
<1>10. new.status = "verified" => passed
  OBVIOUS
<1>11. new.key = s.key /\ new.credential = credential
  OBVIOUS
<1> HIDE DEF facts, new
<1>12. [caps[j] EXCEPT !.facts = facts] \in C
  <2> DEFINE c == [caps[j] EXCEPT !.facts = facts]
  <2>1. c \in Declarations /\ c.facts = facts /\ c.upstream = m
    BY <1>6, <1>7, <1>9 DEF Declarations
  <2> HIDE DEF c
  <2>2. ASSUME NEW f \in facts, f.status = "verified"
        PROVE  [account |-> a, key |-> f.key, upstream |-> m, credential |-> f.credential] \in P
    <3>1. CASE f \in caps[j].facts
      BY <1>6, <2>2, <3>1 DEF C, Backed
    <3>2. CASE f = new
      BY <1>10, <1>11, <2>2, <3>2
    <3> QED
      BY <1>9, <3>1, <3>2
  <2>3. c \in C
    BY <2>1, <2>2 DEF C, Backed
  <2> QED
    BY <2>3 DEF c
<1>13. next \in Seq(C)
  <2>1. next = [caps EXCEPT ![j] = [caps[j] EXCEPT !.facts = facts]]
    OBVIOUS
  <2> QED
    BY <1>6, <1>12, <2>1, ListsChange
<1> HIDE DEF next
<1> QED
  BY <1>1, <1>3, <1>6, <1>13, CapsChanged DEF C

-----------------------------------------------------------------------------
(* A job carries its document along.                                       *)

\* What lasts as long as a job, and its document among it.
Lasting == {"doc", "was", "kind"}

Has(k, x, value) == x \in DOMAIN k /\ k[x] = value

HasDoc(k, doc) == Has(k, "doc", doc)

\* Whatever happens to a job, what lasts of it stays.
LEMMA JobKept ==
  ASSUME NEW x \in Lasting, NEW j, NEW value, Has(j, x, value)
  PROVE  /\ \A v : Has(Ended(j, v), x, value)
         /\ \A s : Has([j EXCEPT !.stage = s], x, value)
         /\ Has(Undo(j), x, value) /\ Has(Abort(j), x, value)
         /\ Has(Restored(j), x, value) /\ Has(NotRestored(j), x, value)
         /\ Has(Settled(j), x, value)
         /\ \A s : Has(NextItem(j, s), x, value)
<1>1. ASSUME NEW k, Has(k, x, value)
      PROVE  /\ \A v : Has(Ended(k, v), x, value)
             /\ \A s : Has([k EXCEPT !.stage = s], x, value)
  BY <1>1 DEF Has, Ended, Lasting
<1>2. ASSUME NEW k, Has(k, x, value)
      PROVE  Has(Undo(k), x, value) /\ Has(Settled(k), x, value)
  BY <1>1, <1>2 DEF Undo, Settled
<1>3. /\ Has([j EXCEPT !.order = Front(@)], x, value)
      /\ Has([j EXCEPT !.order = Front(@), !.failed = TRUE], x, value)
      /\ Has([j EXCEPT !.todo = Tail(@)], x, value)
  BY DEF Has, Lasting
<1>4. \A s : Has(NextItem(j, s), x, value)
  BY <1>1, <1>2, <1>3 DEF NextItem
<1> QED
  BY <1>1, <1>2, <1>3, <1>4 DEF Abort, Restored, NotRestored

\* Its document stays.
LEMMA DocKept ==
  ASSUME NEW j, NEW doc, HasDoc(j, doc)
  PROVE  /\ HasDoc(Abort(j), doc) /\ HasDoc(Settled(j), doc) /\ \A v : HasDoc(Ended(j, v), doc)
<1>1. "doc" \in Lasting
  BY DEF Lasting
<1> QED
  BY <1>1, JobKept DEF HasDoc

-----------------------------------------------------------------------------
(* What is verified: the inductive invariant.                              *)

\* Settings that claim what is in P, of connections in use.
Backs(cfg, P) == cfg \in BackedSettings(DOMAIN cfg.routes, P)

PollInv(p) ==
  /\ p.stage \in {"idle", "read", "commit"}
  /\ p.stage # "idle" => p.at \in Int
  /\ p.stage = "commit" =>
       /\ p = [stage |-> "commit", source |-> p.source, at |-> p.at, catalogs |-> p.catalogs,
               withdrawn |-> p.withdrawn]
       /\ DOMAIN p.catalogs \subseteq Accounts
       /\ \A a \in DOMAIN p.catalogs : p.catalogs[a] \in SUBSET Models

\* A check that passed is in P.
CheckInv(c, P) ==
  /\ c.stage \in {"idle", "asked", "commit"}
  /\ c.stage = "asked" =>
       c = [stage |-> "asked", source |-> c.source, account |-> c.account, name |-> c.name,
            upstream |-> c.upstream]
  /\ c.stage # "idle" => c.account \in Accounts /\ c.name \in Profiles /\ c.upstream \in Models
  /\ c.stage = "commit" =>
       /\ c.credential \in Scopes /\ c.passed \in BOOLEAN
       /\ c.passed => [account |-> c.account, key |-> c.source.key, upstream |-> c.upstream,
                       credential |-> c.credential] \in P

\* Everything a configuration is, or will be, made of.
BackedInv ==
  /\ left \in Nat
  /\ Backs(published, proven) /\ CurrentFacts(published)
  /\ Backs(disk, proven) /\ CurrentFacts(disk)
  /\ job.stage # "free" => HasDoc(job, job.doc) /\ Backs(job.doc, proven)
  /\ Imported.caps \in Seq(Backed(Imported.account, proven))
  /\ PollInv(poll) /\ CheckInv(check, proven)

\* What is in a set is in a larger one.
LEMMA BackedMonotonic ==
  ASSUME NEW P, NEW Q, P \subseteq Q
  PROVE  /\ \A a : Seq(Backed(a, P)) \subseteq Seq(Backed(a, Q))
         /\ \A cfg : Backs(cfg, P) => Backs(cfg, Q)
<1>1. \A a : Backed(a, P) \subseteq Backed(a, Q)
  BY DEF Backed
<1>2. \A a : Seq(Backed(a, P)) \subseteq Seq(Backed(a, Q))
  BY <1>1, PartLists
<1>3. \A a : BackedSources(a, P) \subseteq BackedSources(a, Q)
  BY <1>2 DEF BackedSources
<1> QED
  BY <1>2, <1>3 DEF Backs, BackedSettings

\* Operations keep the names of routes.
LEMMA BacksAgain ==
  ASSUME NEW aliases, NEW P, NEW cfg \in BackedSettings(aliases, P)
  PROVE  Backs(cfg, P)
BY DEF Backs, BackedSettings, Settings

\* The settings that claim nothing unproven are those whose claims are in P.
LEMMA ClaimsBacked ==
  ASSUME NEW a, NEW P, NEW caps \in Seq(Declarations)
  PROVE  Claims(a, caps) \subseteq P <=> caps \in Seq(Backed(a, P))
<1> DEFINE Claim(i, f) == [account |-> a, key |-> f.key, upstream |-> caps[i].upstream,
                           credential |-> f.credential]
<1>1. Claims(a, caps) \subseteq P <=>
        \A i \in DOMAIN caps : \A f \in caps[i].facts : f.status = "verified" => Claim(i, f) \in P
  BY DEF Claims
<1>2. caps \in [1..Len(caps) -> Declarations] /\ Len(caps) \in Nat
  OBVIOUS
<1>3. ASSUME \A i \in DOMAIN caps : \A f \in caps[i].facts :
               f.status = "verified" => Claim(i, f) \in P
      PROVE  caps \in Seq(Backed(a, P))
  <2>1. \A i \in 1..Len(caps) : caps[i] \in Backed(a, P)
    BY <1>2, <1>3 DEF Backed
  <2>2. caps \in [1..Len(caps) -> Backed(a, P)]
    BY <1>2, <2>1
  <2> QED
    BY <1>2, <2>2, SeqDef
<1>4. ASSUME caps \in Seq(Backed(a, P))
      PROVE  \A i \in DOMAIN caps : \A f \in caps[i].facts :
               f.status = "verified" => Claim(i, f) \in P
  <2>1. \A i \in DOMAIN caps : caps[i] \in Backed(a, P)
    BY <1>4
  <2> QED
    BY <2>1 DEF Backed
<1> QED
  BY <1>1, <1>3, <1>4

\* The invariant gives the property: a claim of settings is of what was proven,
\* on the connection in use.
LEMMA BackedIsProven == BackedInv => VerifiedIsProven
<1> SUFFICES ASSUME BackedInv, NEW cfg \in {published, disk}, NEW a \in Accounts, Configured(cfg, a)
             PROVE  Claims(a, cfg.accounts[a].caps) \subseteq
                      {p \in proven : p.key = cfg.accounts[a].key}
  BY DEF VerifiedIsProven
<1> DEFINE s == cfg.accounts[a]
<1>1. s \in BackedSources(a, proven) /\ CurrentSource(s)
  BY DEF BackedInv, Backs, BackedSettings, CurrentFacts
<1> HIDE DEF s
<1>2. s.caps \in Seq(Declarations) /\ s.caps \in Seq(Backed(a, proven))
  BY <1>1, SourceFields DEF Sources
<1>3. Claims(a, s.caps) \subseteq proven
  BY <1>2, ClaimsBacked
<1>4. \A p \in Claims(a, s.caps) : p.key = s.key
  BY <1>1 DEF Claims, CurrentSource
<1> QED
  BY <1>3, <1>4 DEF s

\* What was verified before the start, or elsewhere.
LEMMA BackedInit == ChangesInit => BackedInv
<1> SUFFICES ASSUME ChangesInit PROVE BackedInv
  OBVIOUS
<1>1. /\ published \in FirstSettings /\ disk = published /\ job = Free
      /\ poll = Resting /\ check = Resting /\ left = MaxTurns
  BY DEF ChangesInit
<1>2. /\ Claims(Imported.account, Imported.caps) \subseteq proven
      /\ \A a \in Accounts : Configured(published, a) =>
           Claims(a, published.accounts[a].caps) \subseteq proven
  <2>1. proven = ClaimsOf(published) \cup Claims(Imported.account, Imported.caps)
    BY DEF ChangesInit
  <2>2. \A a \in Accounts : Configured(published, a) =>
          Claims(a, published.accounts[a].caps) \subseteq ClaimsOf(published)
    BY DEF ClaimsOf
  <2> QED
    BY <2>1, <2>2
<1>3. published \in Settings(DOMAIN published.routes) /\ Normalized(published) = published
  BY <1>1, ChangesAssumption
<1>4. ASSUME NEW a \in Accounts, Configured(published, a)
      PROVE  published.accounts[a] \in BackedSources(a, proven)
  <2> DEFINE s == published.accounts[a]
  <2>1. s \in Sources
    BY <1>3, <1>4 DEF Settings, Configured
  <2>2. s.caps \in Seq(Declarations)
    BY <2>1 DEF Sources
  <2>3. s.caps \in Seq(Backed(a, proven))
    BY <1>2, <1>4, <2>2, ClaimsBacked
  <2> QED
    BY <2>1, <2>3 DEF BackedSources
<1>5. Backs(published, proven)
  BY <1>3, <1>4 DEF Backs, BackedSettings
<1>6. CurrentFacts(published)
  BY <1>3, <1>5, NormalizedType DEF Backs
<1>7. Imported.caps \in Seq(Backed(Imported.account, proven))
  BY <1>2, ClaimsBacked, ChangesAssumption
<1>8. PollInv(poll) /\ CheckInv(check, proven) /\ left \in Nat
  BY <1>1, ChangesAssumption DEF Resting, PollInv, CheckInv
<1> QED
  BY <1>1, <1>5, <1>6, <1>7, <1>8 DEF BackedInv, Free

\* The number of events left never becomes negative.
LEMMA TurnsLeft ==
  ASSUME BackedInv, left' = left \/ Spend
  PROVE  left' \in Nat
BY DEF BackedInv, Spend

\* Nor does it when a call of the adapter is among them.
LEMMA CallsLeft ==
  ASSUME BackedInv, NEW outcome, Call(outcome)
  PROVE  left' \in Nat
BY TurnsLeft DEF Call

\* A job takes a step that does not publish anything.
LEMMA JobMoves ==
  ASSUME BackedInv, job.stage # "free", left' \in Nat,
         UNCHANGED <<published, poll, check, proven>>, disk' \in {disk, published},
         NEW doc, Backs(doc, proven), job'.stage = "free" \/ HasDoc(job', doc)
  PROVE  BackedInv'
BY DEF BackedInv, HasDoc, Has

\* Publishing leaves the catalogs that were read alone.
LEMMA PublishInv ==
  ASSUME NEW doc, Publish(doc), PollInv(poll)
  PROVE  PollInv(poll)' /\ published' = doc
<1>1. CASE poll.stage # "commit"
  BY <1>1 DEF Publish, PollInv
<1>2. CASE poll.stage = "commit"
  <2>1. PICK w : poll' = [poll EXCEPT !.withdrawn = w]
    BY <1>2 DEF Publish
  <2>2. /\ poll'.stage = poll.stage /\ poll'.source = poll.source /\ poll'.at = poll.at
        /\ poll'.catalogs = poll.catalogs
        /\ poll' = [stage |-> "commit", source |-> poll.source, at |-> poll.at,
                    catalogs |-> poll.catalogs, withdrawn |-> w]
    BY <1>2, <2>1 DEF PollInv
  <2>3. poll'.withdrawn = w
    BY <2>2
  <2> QED
    BY <1>2, <2>2, <2>3 DEF PollInv, Publish
<1> QED
  BY <1>1, <1>2

\* The steps of a job that leave its document alone.
LEMMA JobLasts ==
  ASSUME BackedInv, ChangesInv, job.stage # "free", NEW outcome \in Outcomes,
         NEW x \in Lasting, NEW value, Has(job, x, value),
         \/ Apply(outcome) \/ Inspect(outcome) \/ Snapshot(outcome) \/ Upload(outcome)
         \/ Restore(outcome) \/ RestoreStatus(outcome) \/ Verify(outcome)
         \/ RestoreConfig(outcome) \/ Expire \/ Return
  PROVE  /\ job'.stage = "free" \/ Has(job', x, value)
         /\ UNCHANGED <<published, poll, check, proven>> /\ disk' \in {disk, published}
         /\ left' \in Nat
<1>1. CASE Apply(outcome)
  <2>1. Has(job', x, value)
    BY <1>1, JobKept DEF Apply
  <2> QED
    BY <1>1, <2>1, CallsLeft DEF Apply
<1>2. CASE Inspect(outcome)
  <2>1. Has([job EXCEPT !.stage = "snapshot", !.stored = files], x, value)
    BY DEF Has, Lasting
  <2>2. Has(job', x, value)
    BY <1>2, <2>1, JobKept DEF Inspect
  <2> QED
    BY <1>2, <2>2, CallsLeft DEF Inspect
<1>3. CASE Snapshot(outcome)
  <2>1. \A o, s : Has([job EXCEPT !.stage = "upload", !.order = o, !.stored = s], x, value)
    BY DEF Has, Lasting
  <2>2. Has(job', x, value)
    BY <1>3, <2>1, JobKept DEF Snapshot
  <2> QED
    BY <1>3, <2>2, CallsLeft DEF Snapshot
<1>4. CASE Upload(outcome)
  <2>1. \A p : Has([job EXCEPT !.providers = p], x, value)
    BY DEF Has, Lasting
  <2>2. Has(job', x, value)
    BY <1>4, <2>1, JobKept DEF Upload
  <2> QED
    BY <1>4, <2>2, CallsLeft DEF Upload
<1>5. CASE Restore(outcome)
  <2>1. Has(job', x, value)
    BY <1>5, JobKept DEF Restore
  <2> QED
    BY <1>5, <2>1, CallsLeft DEF Restore
<1>6. CASE RestoreStatus(outcome)
  <2>1. Has(job', x, value)
    BY <1>6, JobKept DEF RestoreStatus
  <2> QED
    BY <1>6, <2>1, CallsLeft DEF RestoreStatus
<1>7. CASE Verify(outcome)
  <2>1. Has(job', x, value)
    BY <1>7, JobKept DEF Verify
  <2> QED
    BY <1>7, <2>1, CallsLeft DEF Verify
<1>8. CASE RestoreConfig(outcome)
  <2>1. Has(job', x, value)
    BY <1>8, JobKept DEF RestoreConfig
  <2>2. job.was = published
    BY <1>8, JobHeld DEF RestoreConfig, ChangesInv, JobInv, DocumentsInv, Free
  <2>3. disk' \in {disk, published}
    BY <1>8, <2>2 DEF RestoreConfig
  <2> QED
    BY <1>8, <2>1, <2>3, CallsLeft DEF RestoreConfig
<1>9. CASE Expire
  <2>1. Has(job', x, value)
    BY <1>9, JobKept DEF Expire
  <2> QED
    BY <1>9, <2>1, TurnsLeft DEF Expire
<1>10. CASE Return
  BY <1>10, TurnsLeft DEF Return, Free
<1> QED
  BY <1>1, <1>2, <1>3, <1>4, <1>5, <1>6, <1>7, <1>8, <1>9, <1>10

\* Its document, for one.
LEMMA DocumentStays ==
  ASSUME BackedInv, ChangesInv, job.stage # "free", NEW outcome \in Outcomes,
         \/ Apply(outcome) \/ Inspect(outcome) \/ Snapshot(outcome) \/ Upload(outcome)
         \/ Restore(outcome) \/ RestoreStatus(outcome) \/ Verify(outcome)
         \/ RestoreConfig(outcome) \/ Expire \/ Return
  PROVE  /\ job'.stage = "free" \/ HasDoc(job', job.doc)
         /\ UNCHANGED <<published, poll, check, proven>> /\ disk' \in {disk, published}
         /\ left' \in Nat
<1>1. "doc" \in Lasting /\ Has(job, "doc", job.doc)
  BY DEF Lasting, BackedInv, HasDoc, Has
<1> QED
  BY <1>1, JobLasts DEF HasDoc, Has

\* These steps keep the invariant.
LEMMA BackedJobSteps ==
  ASSUME BackedInv, ChangesInv, job.stage # "free", NEW outcome \in Outcomes,
         \/ Apply(outcome) \/ Inspect(outcome) \/ Snapshot(outcome) \/ Upload(outcome)
         \/ Restore(outcome) \/ RestoreStatus(outcome) \/ Verify(outcome)
         \/ RestoreConfig(outcome) \/ Expire \/ Return
  PROVE  BackedInv'
<1>1. Backs(job.doc, proven)
  BY DEF BackedInv
<1>2. /\ job'.stage = "free" \/ HasDoc(job', job.doc)
      /\ UNCHANGED <<published, poll, check, proven>> /\ disk' \in {disk, published}
      /\ left' \in Nat
  BY DocumentStays
<1> QED
  BY <1>1, <1>2, JobMoves

\* The files of the adapter are no concern of settings.
LEMMA BackedAdapter ==
  ASSUME BackedInv, NEW f \in Files, Adapter(f)
  PROVE  BackedInv'
<1>1. job.stage # "free" => HasDoc(job', job.doc) /\ job'.doc = job.doc
  BY DEF Adapter, BackedInv, HasDoc, Has, Unlocked
<1>2. job.stage = "free" => job'.stage = "free"
  BY DEF Adapter, Unlocked
<1>3. left' \in Nat /\ UNCHANGED <<disk, published, poll, check, proven>>
  BY TurnsLeft DEF Adapter
<1> QED
  BY <1>1, <1>2, <1>3 DEF BackedInv

\* What the credentials serve are models.
LEMMA ServableModels == Servable \in SUBSET Models
BY DEF Servable

\* What a job makes of the configuration.
LEMMA BackedDocuments ==
  ASSUME BackedInv, ChangesInv, job.stage # "free",
         \/ \E available \in SUBSET Providers, models \in SUBSET Models :
              ReadCatalog(available, models)
         \/ \E models \in SUBSET Models : Ensure(models)
  PROVE  BackedInv'
<1>1. HasDoc(job, job.doc) /\ Backs(job.doc, proven) /\ Backs(published, proven) /\ left \in Nat
  BY DEF BackedInv
<1>2. ASSUME NEW available \in SUBSET Providers, NEW models \in SUBSET Models,
             ReadCatalog(available, models)
      PROVE  BackedInv'
  <2> DEFINE doc == Reconciliation(published, available, models)
  <2>1. Backs(doc, proven)
    BY <1>1, ReconciliationType, BacksAgain DEF Backs
  <2>2. HasDoc([job EXCEPT !.doc = doc], doc)
    BY <1>1 DEF HasDoc, Has
  <2>3. HasDoc(job', doc)
    BY <1>2, <2>2, DocKept DEF ReadCatalog
  <2> HIDE DEF doc
  <2> QED
    BY <1>1, <1>2, <2>1, <2>3, JobMoves DEF ReadCatalog
<1>3. ASSUME NEW models \in SUBSET Models, Ensure(models)
      PROVE  BackedInv'
  <2> DEFINE provider == Head(SelectSeq(ProviderOrder, LAMBDA p : p \in job.providers))
             ensured == Ensured(job.doc, provider, models)
             doc == IF ensured = Absent THEN job.doc ELSE ensured
             next == [job EXCEPT !.providers = @ \ {provider}, !.doc = doc]
  <2>1. Backs(doc, proven)
    BY <1>1, EnsuredType, BacksAgain DEF Backs
  <2>2. HasDoc(next, doc)
    BY <1>1 DEF HasDoc, Has
  <2>3. job' = IF next.providers = {} THEN Settled(next) ELSE next
    BY <1>3, Zenon DEF Ensure
  <2> HIDE DEF doc, next, provider
  <2>4. HasDoc(job', doc)
    BY <2>2, <2>3, DocKept
  <2> QED
    BY <1>1, <1>3, <2>1, <2>4, JobMoves, Zenon DEF Ensure
<1> QED
  BY <1>2, <1>3

\* What a job saves is normalized.
LEMMA BackedSave ==
  ASSUME BackedInv, ChangesInv, job.stage # "free", NEW outcome \in Outcomes, Save(outcome)
  PROVE  BackedInv'
<1> DEFINE doc == Normalized(job.doc)
           saved == outcome = "answered" /\ Valid(doc)
<1>1. HasDoc(job, job.doc) /\ Backs(job.doc, proven)
  BY DEF BackedInv
<1>2. Backs(doc, proven) /\ CurrentFacts(doc)
  BY <1>1, NormalizedType, BacksAgain DEF Backs
<1>3. HasDoc(job', job.doc)
  BY <1>1, DocKept DEF Save
<1> HIDE DEF doc
<1>4. /\ disk' \in {disk, doc} /\ UNCHANGED <<check, proven>>
      /\ Publish(doc) \/ UNCHANGED <<published, poll>>
  BY DEF Save, doc
<1>5. left' \in Nat
  BY CallsLeft DEF Save
<1>6. published' \in {published, doc} /\ PollInv(poll)'
  BY <1>4, PublishInv DEF BackedInv
<1> QED
  BY <1>1, <1>2, <1>3, <1>4, <1>5, <1>6 DEF BackedInv, HasDoc, Has

\* What a job begins with.
LEMMA BackedBegin ==
  ASSUME BackedInv, ChangesInv, Unlocked,
         \/ \E f \in Files, wanted \in {"deleted", "disabled", "enabled"} : Change(f, wanted)
         \/ \E p \in Providers, models \in SUBSET Servable : Login(p, models)
         \/ \E upsert \in BOOLEAN : Import(upsert)
  PROVE  BackedInv'
<1> DEFINE Moves0(doc) ==
      Backs(doc, proven) /\ HasDoc(job', doc) /\ left' \in Nat
        /\ UNCHANGED <<disk, published, poll, check, proven>>
<1>1. ASSUME NEW doc, Moves0(doc) PROVE BackedInv'
  BY <1>1 DEF BackedInv, HasDoc, Has
<1>2. ASSUME NEW kind, NEW stage, NEW doc
      PROVE  HasDoc(Job(kind, stage, doc), doc)
  BY DEF Job, HasDoc, Has
<1>3. Backs(published, proven)
  BY DEF BackedInv
<1>4. ASSUME NEW f \in Files, NEW wanted \in {"deleted", "disabled", "enabled"}, Change(f, wanted)
      PROVE  BackedInv'
  <2>1. HasDoc(job', published)
    BY <1>2, <1>4 DEF Change, HasDoc, Has
  <2> QED
    BY <1>1, <1>3, <1>4, <2>1, TurnsLeft DEF Change
<1>5. ASSUME NEW p \in Providers, NEW models \in SUBSET Servable, Login(p, models)
      PROVE  BackedInv'
  <2> DEFINE doc == Ensured(published, p, models)
  <2>1. doc # Absent /\ models \in SUBSET Models
    BY <1>5, ServableModels DEF Login
  <2>2. Backs(doc, proven)
    BY <1>3, <2>1, EnsuredType, BacksAgain DEF Backs
  <2>3. HasDoc(job', doc)
    BY <1>2, <1>5 DEF Login
  <2> HIDE DEF doc
  <2> QED
    BY <1>1, <1>5, <2>2, <2>3, TurnsLeft DEF Login
<1>6. ASSUME NEW upsert \in BOOLEAN, Import(upsert)
      PROVE  BackedInv'
  <2> DEFINE doc == WithImport(published, upsert)
  <2>1. Backs(doc, proven)
    BY <1>3, WithImportType, BacksAgain DEF Backs, BackedInv
  <2>2. HasDoc(job', doc)
    BY <1>2, <1>6 DEF Import, HasDoc, Has
  <2> HIDE DEF doc
  <2> QED
    BY <1>1, <1>6, <2>1, <2>2, TurnsLeft DEF Import
<1> QED
  BY <1>4, <1>5, <1>6

\* What is published under the lock by hand.
LEMMA BackedEdited ==
  ASSUME BackedInv, NEW edit, Edited(edit), Backs(edit, proven)
  PROVE  BackedInv'
<1> DEFINE doc == Normalized(edit)
<1>1. Backs(doc, proven) /\ CurrentFacts(doc)
  BY NormalizedType, BacksAgain DEF Backs
<1> HIDE DEF doc
<1>2. MayChange /\ Spend /\ disk' = doc /\ Publish(doc) /\ UNCHANGED <<files, job, check, proven>>
  BY DEF Edited, doc
<1>3. PollInv(poll)' /\ published' = doc
  BY <1>2, PublishInv DEF BackedInv
<1> QED
  BY <1>1, <1>2, <1>3, TurnsLeft DEF BackedInv

-----------------------------------------------------------------------------
(* What excludes a model.                                                  *)

\* A declaration bars a model for a credential on a connection, and a list of
\* them does.
Barred(c, a, m, credential, key) == c.upstream = m /\ Bars(a, c, credential, key)

Barring(caps, a, m, credential, key) ==
  \E i \in DOMAIN caps : Barred(caps[i], a, m, credential, key)

\* Settings exclude what the declarations of the account bar.
LEMMA BarringExcludes ==
  ASSUME NEW cfg, NEW a, NEW m, NEW credential, NEW key
  PROVE  Excludes(cfg, a, m, credential, key) <=>
           Configured(cfg, a) /\ Barring(cfg.accounts[a].caps, a, m, credential, key)
BY DEF Excludes, Barring, Barred

\* What a declaration bars is not allowed.
LEMMA BarringForbids ==
  ASSUME NEW s, NEW a, NEW m, NEW credential, NEW key, Barring(s.caps, a, m, credential, key)
  PROVE  ~Allowed(s, m, credential)
BY DEF Allowed, Barring, Barred, Bars, Usable

\* One more declaration leaves a list barring.
LEMMA BarringAppend ==
  ASSUME NEW caps \in Seq(Declarations), NEW c \in Declarations,
         NEW a, NEW m, NEW credential, NEW key, Barring(caps, a, m, credential, key)
  PROVE  Barring(Append(caps, c), a, m, credential, key)
<1>1. PICK i \in DOMAIN caps : Barred(caps[i], a, m, credential, key)
  BY DEF Barring
<1>2. i \in DOMAIN Append(caps, c) /\ Append(caps, c)[i] = caps[i]
  OBVIOUS
<1> QED
  BY <1>1, <1>2 DEF Barring

\* So does one exchanged for another that bars what it did.
LEMMA BarringChange ==
  ASSUME NEW caps \in Seq(Declarations), NEW i, NEW c, NEW a, NEW m, NEW credential, NEW key,
         i \in DOMAIN caps /\ Barred(caps[i], a, m, credential, key)
           => Barred(c, a, m, credential, key),
         Barring(caps, a, m, credential, key)
  PROVE  Barring([caps EXCEPT ![i] = c], a, m, credential, key)
<1>1. PICK k \in DOMAIN caps : Barred(caps[k], a, m, credential, key)
  BY DEF Barring
<1>2. DOMAIN [caps EXCEPT ![i] = c] = DOMAIN caps
  OBVIOUS
<1>3. [caps EXCEPT ![i] = c][k] = IF k = i THEN c ELSE caps[k]
  OBVIOUS
<1> QED
  BY <1>1, <1>2, <1>3 DEF Barring

-----------------------------------------------------------------------------
(* The administrator's changes.                                            *)

\* What an administrator makes of one account: its models stay, only the switch
\* turns it on or off, and it bars what it did on the connection it has then.
HandEdit(a, new) ==
  /\ new \in BackedSources(a, proven) /\ Configured(published, a)
  /\ Edited([published EXCEPT !.accounts[a] = new])
  /\ new.models = published.accounts[a].models
  /\ \/ new.enabled = published.accounts[a].enabled
     \/ new = [published.accounts[a] EXCEPT !.enabled = ~published.accounts[a].enabled]
  /\ \A m, credential : Barring(published.accounts[a].caps, a, m, credential, new.key) =>
       Barring(new.caps, a, m, credential, new.key)

\* An edit of one capability.
LEMMA CapabilityEdit ==
  ASSUME BackedInv, NEW a \in Accounts, NEW i \in Positions(a),
         NEW cap \in Backed(a, proven),
         \A m, credential, key : key = published.accounts[a].key =>
           (Barred(published.accounts[a].caps[i], a, m, credential, key) =>
              Barred(cap, a, m, credential, key)),
         Edited([published EXCEPT !.accounts[a].caps[i] = cap])
  PROVE  \E new : HandEdit(a, new)
<1> DEFINE s == published.accounts[a]
           caps == [s.caps EXCEPT ![i] = cap]
           new == [s EXCEPT !.caps = caps]
<1>1. s \in BackedSources(a, proven) /\ i \in DOMAIN s.caps /\ Configured(published, a)
  BY DEF BackedInv, Backs, BackedSettings, Positions
<1>2. Edited([published EXCEPT !.accounts[a] = new])
  OBVIOUS
<1> HIDE DEF s
<1>3. s \in Sources /\ s.caps \in Seq(Backed(a, proven))
  BY <1>1, SourceFields
<1>4. caps \in Seq(Backed(a, proven))
  BY <1>1, <1>3, ListsChange
<1>4a. ASSUME NEW m, NEW credential, NEW key, key = s.key, Barring(s.caps, a, m, credential, key)
       PROVE  Barring(caps, a, m, credential, key)
  <2>1. s.caps \in Seq(Declarations)
    BY <1>3 DEF Sources
  <2>2. Barred(s.caps[i], a, m, credential, key) => Barred(cap, a, m, credential, key)
    BY <1>4a DEF s
  <2> QED
    BY <1>4a, <2>1, <2>2, BarringChange
<1> HIDE DEF caps
<1>5. /\ new \in BackedSources(a, proven) /\ new.models = s.models /\ new.enabled = s.enabled
      /\ new.caps = caps /\ new.key = s.key
  BY <1>3, <1>4, CapsChanged DEF Sources
<1> HIDE DEF new
<1> QED
  BY <1>1, <1>2, <1>4a, <1>5 DEF HandEdit, s

\* The administrator's changes are edits of one account.
LEMMA HandEdits ==
  ASSUME BackedInv,
         \/ \E a \in Accounts : Switch(a)
         \/ \E a \in Accounts, key \in Keys : RotateKey(a, key)
         \/ \E a \in Accounts, key \in Connections : \E i \in Positions(a) :
              \/ ExcludeModel(a, i, key)
              \/ \E credential \in Scopes : Exclude(a, i, credential, key)
  PROVE  \E a \in Accounts : \E new : HandEdit(a, new)
<1> DEFINE Goal == \E a \in Accounts : \E new : HandEdit(a, new)
<1>2. ASSUME NEW a \in Accounts, Configured(published, a)
      PROVE  published.accounts[a] \in BackedSources(a, proven)
  BY <1>2 DEF BackedInv, Backs, BackedSettings
<1>3. ASSUME NEW a \in Accounts, NEW i \in Positions(a)
      PROVE  published.accounts[a].caps[i] \in Backed(a, proven)
  <2>1. /\ published.accounts[a] \in BackedSources(a, proven)
        /\ i \in DOMAIN published.accounts[a].caps
    BY <1>2, <1>3 DEF Positions
  <2> QED
    BY <2>1, SourceFields
<1>4. ASSUME NEW a \in Accounts, Switch(a) PROVE Goal
  <2> DEFINE s == published.accounts[a]
             enabled == ~s.enabled
             new == [s EXCEPT !.enabled = enabled]
  <2>1. s \in BackedSources(a, proven) /\ enabled \in BOOLEAN /\ Configured(published, a)
    BY <1>2, <1>4 DEF Switch
  <2>3. Edited([published EXCEPT !.accounts[a] = new])
    BY <1>4 DEF Switch
  <2> HIDE DEF s, enabled
  <2>4. new \in BackedSources(a, proven) /\ new.models = s.models /\ new.caps = s.caps
    BY <2>1, SourceSwitched, SourceFields DEF Sources
  <2>5. new = [s EXCEPT !.enabled = ~s.enabled]
    BY DEF enabled
  <2> HIDE DEF new
  <2>6. HandEdit(a, new)
    BY <2>1, <2>3, <2>4, <2>5 DEF HandEdit, s
  <2> QED
    BY <2>6
<1>5. ASSUME NEW a \in Accounts, NEW key \in Keys, RotateKey(a, key) PROVE Goal
  <2> DEFINE s == published.accounts[a]
             new == [s EXCEPT !.key = key]
  <2>1. s \in BackedSources(a, proven) /\ Configured(published, a)
    BY <1>2, <1>5 DEF RotateKey
  <2>3. Edited([published EXCEPT !.accounts[a] = new])
    BY <1>5 DEF RotateKey
  <2> HIDE DEF s
  <2>4. /\ new \in BackedSources(a, proven) /\ new.models = s.models /\ new.enabled = s.enabled
        /\ new.caps = s.caps
    BY <2>1, SourceRekeyed, SourceFields DEF Sources
  <2> HIDE DEF new
  <2>5. HandEdit(a, new)
    BY <2>1, <2>3, <2>4 DEF HandEdit, s
  <2> QED
    BY <2>5
<1>6. ASSUME NEW a \in Accounts, NEW key \in Connections, NEW i \in Positions(a),
             NEW credential \in Scopes, Exclude(a, i, credential, key)
      PROVE  Goal
  <2> DEFINE c == published.accounts[a].caps[i]
             fact == [credential |-> credential, key |-> key, status |-> "unsupported"]
             facts == {f \in c.facts : f.credential # credential} \cup {fact}
             cap == [c EXCEPT !.facts = facts]
  <2>1. c \in Backed(a, proven)
    BY <1>3, Zenon
  <2>2. /\ Edited([published EXCEPT !.accounts[a].caps[i] = cap])
        /\ key \in {Absent, published.accounts[a].key}
    BY <1>6 DEF Exclude, Bindings
  <2> HIDE DEF c
  <2>4. c \in Declarations /\ c.facts \in SUBSET Facts
    BY <2>1 DEF Backed, Declarations
  <2>5. fact \in Facts
    BY DEF Facts
  <2>6. facts \in SUBSET Facts /\ \A f \in facts : f.status = "verified" => f \in c.facts
    BY <2>4, <2>5
  <2>6a. fact \in facts /\ \A f \in c.facts : f.credential = fact.credential \/ f \in facts
    OBVIOUS
  <2>6b. fact.status = "unsupported" /\ fact.key = key
    OBVIOUS
  <2> HIDE DEF facts, fact
  <2>7. /\ cap \in Declarations /\ cap.facts = facts /\ cap.upstream = c.upstream
        /\ cap.evidence = c.evidence
    BY <2>4, <2>6 DEF Declarations
  <2> HIDE DEF cap
  <2>8. cap \in Backed(a, proven)
    BY <2>1, <2>6, <2>7 DEF Backed
  <2>9. ASSUME NEW m, NEW scope, NEW k, k = published.accounts[a].key, Barred(c, a, m, scope, k)
        PROVE  Barred(cap, a, m, scope, k)
    BY <2>2, <2>6a, <2>6b, <2>7, <2>9 DEF Barred, Bars
  <2> QED
    BY <2>2, <2>8, <2>9, CapabilityEdit DEF c
<1>7. ASSUME NEW a \in Accounts, NEW key \in Connections, NEW i \in Positions(a),
             ExcludeModel(a, i, key)
      PROVE  Goal
  <2> DEFINE c == published.accounts[a].caps[i]
             e == [c.evidence EXCEPT !.status = "unsupported", !.key = key]
             cap == [c EXCEPT !.evidence = e]
  <2>1. c \in Backed(a, proven)
    BY <1>3
  <2>2. /\ Edited([published EXCEPT !.accounts[a].caps[i] = cap])
        /\ key \in {Absent, published.accounts[a].key}
    BY <1>7, Zenon DEF ExcludeModel, Bindings
  <2> HIDE DEF c
  <2>3. e \in Evidences /\ e.status = "unsupported" /\ e.key = key /\ e.source = c.evidence.source
    BY <2>1 DEF Backed, Declarations, Evidences
  <2> HIDE DEF e
  <2>4. cap \in Backed(a, proven)
    BY <2>1, <2>3, EvidenceKeepsFacts
  <2>5. cap.facts = c.facts /\ cap.upstream = c.upstream /\ cap.evidence = e
    BY <2>1 DEF Backed, Declarations
  <2> HIDE DEF cap
  <2>6. ASSUME NEW m, NEW scope, NEW k, k = published.accounts[a].key, Barred(c, a, m, scope, k)
        PROVE  Barred(cap, a, m, scope, k)
    BY <2>2, <2>3, <2>5, <2>6 DEF Barred, Bars
  <2> QED
    BY <2>2, <2>4, <2>6, CapabilityEdit DEF c
<1> QED
  BY <1>4, <1>5, <1>6, <1>7

\* The administrator's changes.
LEMMA BackedByHand ==
  ASSUME BackedInv,
         \/ \E a \in Accounts : Switch(a)
         \/ \E a \in Accounts, key \in Keys : RotateKey(a, key)
         \/ \E a \in Accounts, key \in Connections : \E i \in Positions(a) :
              \/ ExcludeModel(a, i, key)
              \/ \E credential \in Scopes : Exclude(a, i, credential, key)
         \/ Reload
  PROVE  BackedInv'
<1>1. ASSUME NEW a \in Accounts, NEW new, HandEdit(a, new) PROVE BackedInv'
  <2> DEFINE edit == [published EXCEPT !.accounts[a] = new]
  <2>1. Edited(edit) /\ new \in BackedSources(a, proven)
    BY <1>1 DEF HandEdit
  <2>2. Backs(edit, proven)
    BY <2>1, AccountSet, BacksAgain DEF BackedInv, Backs
  <2> HIDE DEF edit
  <2> QED
    BY <2>1, <2>2, BackedEdited
<1>2. CASE Reload
  <2>1. PollInv(poll)' /\ published' = disk
    BY <1>2, PublishInv DEF BackedInv, Reload
  <2> QED
    BY <1>2, <2>1 DEF BackedInv, Reload
<1> QED
  BY <1>1, <1>2, HandEdits

-----------------------------------------------------------------------------
(* Polls and checks.                                                       *)

\* A document is committed under the lock, by a poll or a check.
LEMMA BackedCommit ==
  ASSUME BackedInv, NEW outcome, NEW doc, Backs(doc, proven), CurrentFacts(doc),
         Commit(doc, outcome) \/ UNCHANGED <<disk, published, left>>,
         UNCHANGED <<job, proven>>, PollInv(poll)', CheckInv(check, proven)'
  PROVE  BackedInv'
<1>1. left' \in Nat
  BY CallsLeft, TurnsLeft DEF Commit
<1>2. published' \in {published, doc} /\ disk' \in {disk, doc}
  BY DEF Commit
<1> QED
  BY <1>1, <1>2 DEF BackedInv

\* A discovery keeps the invariant, whatever became meanwhile of the settings it
\* read.
LEMMA BackedPoll ==
  ASSUME BackedInv, PollStep
  PROVE  BackedInv'
<1>1. left \in Nat /\ PollInv(poll) /\ Backs(published, proven) /\ CurrentFacts(published)
  BY DEF BackedInv
<1>2. CASE Poll
  <2>1. left' \in Nat
    BY <1>2, TurnsLeft DEF Poll
  <2>2. PollInv(poll)'
    BY <1>1, <1>2 DEF Poll, PollInv
  <2> QED
    BY <1>2, <2>1, <2>2 DEF Poll, BackedInv
<1>3. CASE ReadAny
  <2>1. PICK catalogs \in [Enabled(poll.source) -> SUBSET Models] :
          Read(Restrict(catalogs, {a \in DOMAIN catalogs : catalogs[a] # {}}))
    BY <1>3 DEF ReadAny
  <2> DEFINE read == Restrict(catalogs, {a \in DOMAIN catalogs : catalogs[a] # {}})
  <2>2. DOMAIN read \subseteq Accounts /\ \A a \in DOMAIN read : read[a] \in SUBSET Models
    BY DEF Restrict, Enabled
  <2> HIDE DEF read
  <2>3. /\ poll.stage = "read"
        /\ poll' = IF DOMAIN read = {} THEN Resting
                   ELSE [stage |-> "commit", source |-> poll.source, at |-> poll.at,
                         catalogs |-> read, withdrawn |-> [a \in Pools |-> {}]]
        /\ UNCHANGED <<files, disk, published, job, check, proven, left>>
    BY <2>1 DEF Read, read
  <2>4. PollInv(poll)'
    BY <1>1, <2>2, <2>3 DEF PollInv, Resting
  <2> QED
    BY <2>3, <2>4 DEF BackedInv
<1>4. ASSUME NEW outcome \in Outcomes, PollCommit(outcome)
      PROVE  BackedInv'
  <2> DEFINE catalogs == Restrict(poll.catalogs, {a \in DOMAIN poll.catalogs : SourceMatches(a)})
             doc == Normalized(Discovered(published, catalogs, poll.at))
  <2>1. /\ DOMAIN catalogs \subseteq Accounts
        /\ \A a \in DOMAIN catalogs : Configured(published, a) /\ catalogs[a] \in SUBSET Models
        /\ poll.at \in Int
    BY <1>1, <1>4 DEF PollCommit, PollInv, Restrict, SourceMatches
  <2> HIDE DEF catalogs
  <2>2. Backs(doc, proven) /\ CurrentFacts(doc)
    BY <1>1, <2>1, DiscoveredType, NormalizedType, BacksAgain DEF Backs
  <2>3. Commit(doc, outcome) \/ UNCHANGED <<disk, published, left>>
    BY <1>4 DEF PollCommit, catalogs
  <2>4. UNCHANGED <<job, check, proven>> /\ PollInv(poll)'
    BY <1>4 DEF PollCommit, PollInv, Resting
  <2>5. CheckInv(check, proven)'
    BY <2>4 DEF BackedInv
  <2> HIDE DEF doc
  <2> QED
    BY <2>2, <2>3, <2>4, <2>5, BackedCommit
<1> QED
  BY <1>2, <1>3, <1>4 DEF PollStep

\* The model a name stands for.
LEMMA ResolvedType ==
  ASSUME NEW s, NEW C, s.caps \in Seq(C), NEW name, Resolved(s, name) # Absent
  PROVE  \E c \in C : Resolved(s, name) = c.upstream
<1> DEFINE I == {i \in 1..Len(s.caps) : s.caps[i].model = name /\ Usable(s.caps[i])}
           n == Len(s.caps)
<1>1. n \in Nat /\ I \in SUBSET (1..n) /\ \A i \in 1..n : s.caps[i] \in C
  OBVIOUS
<1>2. I # {} => Min(I) \in I
  <2> HIDE DEF I, n
  <2> QED
    BY <1>1, SmallestPosition
<1>3. Resolved(s, name) = LET i == IF I # {} THEN Min(I) ELSE 0
                          IN  IF i = 0 THEN Absent ELSE s.caps[i].upstream
  BY DEF Resolved, SelectInSeq
<1> QED
  BY <1>1, <1>2, <1>3

\* A check keeps the invariant: an observation that passed is proven before the
\* commit records it, and is recorded only on the key it was made with.
LEMMA BackedCheck ==
  ASSUME BackedInv, CheckStep
  PROVE  BackedInv'
<1>1. left \in Nat /\ CheckInv(check, proven) /\ Backs(published, proven) /\ CurrentFacts(published)
  BY DEF BackedInv
<1>2. ASSUME NEW a \in Accounts, NEW name \in Names, Check(a, name)
      PROVE  BackedInv'
  <2> DEFINE s == published.accounts[a]
             m == UpstreamOf(s, name)
  <2>1. s \in BackedSources(a, proven)
    BY <1>1, <1>2 DEF Check, Enabled, Backs, BackedSettings
  <2>2. m # Absent
    BY <1>2 DEF Check
  <2> HIDE DEF s
  <2>3. m \in Models
    <3>1. s.caps \in Seq(Backed(a, proven))
      BY <2>1, SourceFields
    <3>2. Resolved(s, name) # Absent => \E c \in Backed(a, proven) : Resolved(s, name) = c.upstream
      BY <3>1, ResolvedType
    <3>3. \A c \in Backed(a, proven) : c.upstream \in Models
      BY DEF Backed, Declarations
    <3> QED
      BY <2>2, <3>2, <3>3 DEF UpstreamOf
  <2>4. name \in Profiles
    <3>1. \A b \in Models \cup {LogicalOf[o] : o \in Models} : Standard(b) \in Profiles
      BY CapabilitiesAssumption DEF Standard, Profiles
    <3> QED
      BY <3>1 DEF Names
  <2> HIDE DEF m
  <2>5. /\ check' = [stage |-> "asked", source |-> s, account |-> a, name |-> name, upstream |-> m]
        /\ UNCHANGED <<files, disk, published, job, poll, proven>>
    BY <1>2 DEF Check, s, m
  <2>6. CheckInv(check, proven)'
    BY <2>3, <2>4, <2>5 DEF CheckInv
  <2>7. left' \in Nat
    BY <1>2, TurnsLeft DEF Check
  <2> QED
    BY <2>5, <2>6, <2>7 DEF BackedInv
<1>3. ASSUME NEW credential \in Scopes, NEW passed \in BOOLEAN, Probed(credential, passed)
      PROVE  BackedInv'
  <2> DEFINE claim == [account |-> check.account, key |-> check.source.key,
                       upstream |-> check.upstream, credential |-> credential]
  <2>1. check.stage = "asked" /\ UNCHANGED <<files, disk, published, job, poll, left>>
    BY <1>3 DEF Probed
  <2>2. proven \subseteq proven' /\ (passed => claim \in proven')
    BY <1>3 DEF Probed
  <2>3. /\ check' = [stage |-> "commit", source |-> check.source, account |-> check.account,
                     name |-> check.name, upstream |-> check.upstream,
                     credential |-> credential, passed |-> passed]
    BY <1>3 DEF Probed
  <2>4. CheckInv(check, proven)'
    BY <1>1, <2>1, <2>2, <2>3 DEF CheckInv
  <2>5. /\ \A a : Seq(Backed(a, proven)) \subseteq Seq(Backed(a, proven'))
        /\ \A cfg : Backs(cfg, proven) => Backs(cfg, proven')
    BY <2>2, BackedMonotonic
  <2> QED
    BY <2>1, <2>4, <2>5 DEF BackedInv
<1>4. CASE Abandon
  BY <1>4 DEF Abandon, BackedInv, CheckInv, Resting
<1>5. ASSUME NEW outcome \in Outcomes, CheckCommit(outcome)
      PROVE  BackedInv'
  <2> DEFINE a == check.account
             s == published.accounts[a]
             new == Recorded(s, check.name, check.upstream, check.credential, check.passed)
             doc == Normalized([published EXCEPT !.accounts[a] = new])
  <2>1. /\ check.stage = "commit" /\ UNCHANGED <<files, job, poll, proven>> /\ check' = Resting
        /\ \/ StillHolds /\ Commit(doc, outcome)
           \/ UNCHANGED <<disk, published, left>>
    BY <1>5 DEF CheckCommit
  <2>2. CheckInv(check, proven)' /\ PollInv(poll)'
    BY <2>1 DEF CheckInv, Resting, BackedInv
  <2>3. CASE StillHolds /\ Commit(doc, outcome)
    <3>1. /\ a \in Accounts /\ check.name \in Profiles /\ check.upstream \in Models
          /\ check.credential \in Scopes /\ check.passed \in BOOLEAN
          /\ check.passed => [account |-> a, key |-> check.source.key, upstream |-> check.upstream,
                              credential |-> check.credential] \in proven
      BY <1>1, <2>1 DEF CheckInv
    <3>2. s \in BackedSources(a, proven) /\ s.key = check.source.key
      BY <1>1, <2>3, <3>1 DEF StillHolds, Enabled, Backs, BackedSettings
    <3> HIDE DEF s, a
    <3>3. new \in BackedSources(a, proven)
      BY <3>1, <3>2, RecordedType
    <3> HIDE DEF new
    <3>4. Backs(doc, proven) /\ CurrentFacts(doc)
      BY <1>1, <3>1, <3>3, AccountSet, NormalizedType, BacksAgain DEF Backs
    <3> HIDE DEF doc
    <3> QED
      BY <2>1, <2>2, <2>3, <3>4, BackedCommit
  <2>4. CASE UNCHANGED <<disk, published, left>>
    BY <1>1, <2>1, <2>2, <2>4 DEF BackedInv
  <2> QED
    BY <2>1, <2>3, <2>4
<1> QED
  BY <1>2, <1>3, <1>4, <1>5 DEF CheckStep

\* All that settings claim to have been verified holds in every state.
THEOREM SpecBackedInv == ChangesSpec => []BackedInv
<1>1. BackedInv /\ ChangesInv /\ [ChangesNext]_changesVars => BackedInv'
  <2> SUFFICES ASSUME BackedInv, ChangesInv, [ChangesNext]_changesVars
               PROVE  BackedInv'
    OBVIOUS
  <2>1. CASE \E f \in Files : Adapter(f)
    BY <2>1, BackedAdapter
  <2>2. CASE Administration
    BY <2>2, BackedBegin, BackedByHand DEF Administration
  <2>3. CASE JobStep
    <3>1. job.stage # "free"
      BY <2>3 DEF JobStep, Unlocked
    <3>2. CASE Expire \/ Return
      <4>1. "failed" \in Outcomes
        BY DEF Outcomes
      <4> QED
        BY <3>1, <3>2, <4>1, BackedJobSteps
    <3> QED
      BY <2>3, <3>1, <3>2, BackedJobSteps, BackedSave, BackedDocuments DEF JobStep
  <2>4. CASE PollStep
    BY <2>4, BackedPoll
  <2>5. CASE CheckStep
    BY <2>5, BackedCheck
  <2>6. CASE UNCHANGED changesVars
    BY <2>6 DEF changesVars, BackedInv
  <2> QED
    BY <2>1, <2>2, <2>3, <2>4, <2>5, <2>6 DEF ChangesNext
<1> QED
  BY <1>1, BackedInit, SpecChangesInv, PTL DEF ChangesSpec

\* A fact is verified only while the connection, the model and the credential
\* it was observed on are those in use, however settings moved meanwhile.
THEOREM SpecVerifiedIsProven == ChangesSpec => []VerifiedIsProven
BY SpecBackedInv, BackedIsProven, PTL

-----------------------------------------------------------------------------
(* What pools declare.                                                     *)

\* An account that is a pool in use has a list of models.
Listed(a, s) == a \in Pools /\ s.enabled => s.models # {}

\* All of them have one, but for those in W.
Lists(W, cfg) == \A a \in Accounts \ W : Configured(cfg, a) => Listed(a, cfg.accounts[a])

\* Those that have none are in W.
LEMMA ListsTolerate == \A W, cfg : Lists(W, cfg) <=> Wildcards(cfg) \subseteq W
BY SettingsAssumption DEF Lists, Listed, Wildcards, Enabled

\* One account is exchanged, and no other.
LEMMA OtherAccounts ==
  ASSUME NEW aliases, NEW cfg \in Settings(aliases), NEW a \in Accounts, NEW new
  PROVE  /\ [cfg EXCEPT !.accounts[a] = new].accounts[a] = new
         /\ \A b \in Accounts : b # a =>
              [cfg EXCEPT !.accounts[a] = new].accounts[b] = cfg.accounts[b]
BY DEF Settings

\* One account is exchanged for one that has a list, or is excused.
LEMMA ListsSet ==
  ASSUME NEW W, NEW aliases, NEW cfg \in Settings(aliases), Lists(W, cfg), NEW a \in Accounts,
         NEW new, a \notin W => Listed(a, new)
  PROVE  Lists(W, [cfg EXCEPT !.accounts[a] = new])
<1> DEFINE next == [cfg EXCEPT !.accounts[a] = new]
<1>1. next.accounts[a] = new /\ \A b \in Accounts : b # a => next.accounts[b] = cfg.accounts[b]
  BY OtherAccounts
<1> HIDE DEF next
<1>2. Lists(W, next)
  BY <1>1 DEF Lists, Configured
<1> QED
  BY <1>2 DEF next

\* A pool without capabilities gets those of its models.
LEMMA FilledType ==
  ASSUME NEW a, NEW P, NEW s \in BackedSources(a, P)
  PROVE  [s EXCEPT !.caps = InferredCodex(s.models)] \in BackedSources(a, P)
<1>1. InferredCodex(s.models) \in Seq(Backed(a, P))
  BY SourceFields, InferredCodexType, BlankBacked, PartLists
<1>2. s \in Sources
  BY SourceFields
<1> QED
  BY <1>1, <1>2, CapsChanged

\* A normalization changes capabilities only.
LEMMA NormalizedAccounts ==
  ASSUME NEW aliases, NEW P, NEW cfg \in BackedSettings(aliases, P), NEW a \in Accounts
  PROVE  /\ Configured(Normalized(cfg), a) <=> Configured(cfg, a)
         /\ Configured(cfg, a) =>
              /\ Normalized(cfg).accounts[a].models = cfg.accounts[a].models
              /\ Normalized(cfg).accounts[a].enabled = cfg.accounts[a].enabled
              /\ Normalized(cfg).accounts[a].key = cfg.accounts[a].key
<1> DEFINE s == cfg.accounts[a]
           filled == IF a \in Pools /\ s.caps = <<>>
                     THEN [s EXCEPT !.caps = InferredCodex(s.models)] ELSE s
<1>1. Normalized(cfg).accounts[a] = IF s = Absent THEN Absent ELSE Invalidated(filled)
  BY DEF Normalized, BackedSettings, Settings
<1>2. s # Absent => s \in BackedSources(a, P)
  BY DEF BackedSettings, Configured
<1> HIDE DEF s
<1>3. ASSUME s # Absent
      PROVE  /\ filled \in BackedSources(a, P) /\ filled.models = s.models
             /\ filled.enabled = s.enabled /\ filled.key = s.key
  <2>1. s \in Sources /\ s \in BackedSources(a, P)
    BY <1>2, <1>3, SourceFields
  <2>2. [s EXCEPT !.caps = InferredCodex(s.models)] \in BackedSources(a, P)
    BY <2>1, FilledType
  <2>3. \A caps : /\ [s EXCEPT !.caps = caps].models = s.models
                  /\ [s EXCEPT !.caps = caps].enabled = s.enabled
                  /\ [s EXCEPT !.caps = caps].key = s.key
    BY <2>1 DEF Sources
  <2> QED
    BY <2>1, <2>2, <2>3
<1> HIDE DEF filled
<1>4. \E caps : Invalidated(filled) = [filled EXCEPT !.caps = caps]
  BY Zenon DEF Invalidated
<1>5. ASSUME s # Absent
      PROVE  /\ Invalidated(filled) # Absent /\ Invalidated(filled).models = s.models
             /\ Invalidated(filled).enabled = s.enabled /\ Invalidated(filled).key = s.key
  <2>1. filled \in Sources
    BY <1>3, <1>5, SourceFields
  <2>2. /\ Invalidated(filled).models = s.models /\ Invalidated(filled).enabled = s.enabled
        /\ Invalidated(filled).key = s.key
    BY <1>3, <1>4, <1>5, <2>1 DEF Sources
  <2>3. Invalidated(filled) # Absent
    BY <1>3, <1>5, InvalidatedType, SourceFields
  <2> QED
    BY <2>2, <2>3
<1> QED
  BY <1>1, <1>5 DEF Configured, s

\* A normalization takes no list away.
LEMMA NormalizedLists ==
  ASSUME NEW W, NEW aliases, NEW P, NEW cfg \in BackedSettings(aliases, P), Lists(W, cfg)
  PROVE  Lists(W, Normalized(cfg))
BY NormalizedAccounts DEF Lists, Listed

\* Pools of which models are withdrawn.
LEMMA WithdrawnListed ==
  ASSUME NEW aliases, NEW P, NEW cfg \in BackedSettings(aliases, P), NEW a \in Accounts,
         Configured(cfg, a), NEW models
  PROVE  Listed(a, Withdrawn(cfg, a, models))
<1> DEFINE old == cfg.accounts[a]
           rest == Among(old.caps, {c \in ToSet(old.caps) : c.upstream \in models})
           caps == MergedChannel(rest, InferredCodex(models))
           enabled == old.enabled /\ models # {}
           new == [old EXCEPT !.models = models, !.enabled = enabled, !.caps = caps]
           off == [old EXCEPT !.enabled = FALSE]
<1>1. old \in Sources
  BY SourceFields DEF BackedSettings
<1>2. Withdrawn(cfg, a, models) \in {new, off}
  BY DEF Withdrawn
<1> HIDE DEF old, caps
<1>3. new.models = models /\ new.enabled = enabled /\ ~off.enabled
  BY <1>1 DEF Sources
<1> QED
  BY <1>2, <1>3 DEF Listed

\* Nor does a withdrawal, account by account: a pool that is left without a
\* model is switched off.
LEMMA ReconciliationLists ==
  ASSUME NEW W, NEW aliases, NEW P, NEW cfg \in BackedSettings(aliases, P), Lists(W, cfg),
         NEW available, NEW models \in SUBSET Models
  PROVE  Lists(W, Reconciliation(cfg, available, models))
<1> DEFINE V == {c \in BackedSettings(aliases, P) : Lists(W, c)}
<1>1. ASSUME NEW v \in V, NEW a \in Accounts
      PROVE  Withdrawing(v, a, available, models) \in V
  <2>1. PoolCatalog(a, available, models) \in SUBSET Models
    BY InScopeType DEF PoolCatalog
  <2>2. CASE a \notin Pools \/ ~Configured(v, a)
    BY <2>2 DEF Withdrawing
  <2>3. CASE ~(a \notin Pools \/ ~Configured(v, a))
    <3> DEFINE new == Withdrawn(v, a, PoolCatalog(a, available, models))
    <3>1. new \in BackedSources(a, P) /\ Listed(a, new)
      BY <2>1, <2>3, WithdrawnType, WithdrawnListed
    <3>2. Withdrawing(v, a, available, models) = [v EXCEPT !.accounts[a] = new]
      BY <2>3 DEF Withdrawing
    <3>3. v \in Settings(aliases) /\ v \in BackedSettings(aliases, P) /\ Lists(W, v)
      BY DEF BackedSettings
    <3> HIDE DEF new
    <3>4. [v EXCEPT !.accounts[a] = new] \in BackedSettings(aliases, P)
      BY <3>1, <3>3, AccountSet
    <3>5. Lists(W, [v EXCEPT !.accounts[a] = new])
      BY <3>1, <3>3, ListsSet
    <3> QED
      BY <3>2, <3>4, <3>5
  <2> QED
    BY <2>2, <2>3
<1>2. \A v \in V : \A a \in Accounts : Withdrawing(v, a, available, models) \in V
  BY <1>1
<1> HIDE DEF V
<1>3. cfg \in V /\ AccountOrder \in Seq(Accounts)
  BY SettingsAssumption DEF V
<1>4. Reconciliation(cfg, available, models) \in V
  BY <1>2, <1>3, ReconciliationFold
<1> QED
  BY <1>4 DEF V

\* A pool that announces models has a list of them.
LEMMA EnsuredLists ==
  ASSUME NEW W, NEW aliases, NEW P, NEW cfg \in BackedSettings(aliases, P), Lists(W, cfg),
         NEW provider, NEW models \in SUBSET Models, Ensured(cfg, provider, models) # Absent
  PROVE  Lists(W, Ensured(cfg, provider, models))
<1> DEFINE a == PoolFor(cfg, provider)
           more == InScope(a, models)
           old == cfg.accounts[a]
           caps == MergedChannel(old.caps, InferredCodex(old.models \cup more))
           announced == [old EXCEPT !.models = old.models \cup more, !.caps = caps]
           first == [enabled |-> TRUE, key |-> NewKey, models |-> models,
                     caps |-> InferredCodex(models)]
<1>1. a # Absent => a \in Accounts /\ Configured(cfg, a)
  BY PoolForType
<1>2. CASE a # Absent
  <2>1. more # {} /\ Ensured(cfg, provider, models) = [cfg EXCEPT !.accounts[a] = announced]
    BY <1>2 DEF Ensured
  <2>2. old \in Sources
    BY <1>1, <1>2, SourceFields DEF BackedSettings
  <2> HIDE DEF old, more, caps
  <2>3. announced.models = old.models \cup more
    BY <2>2 DEF Sources
  <2>4. Listed(a, announced)
    BY <2>1, <2>3 DEF Listed
  <2> HIDE DEF announced
  <2> QED
    BY <1>1, <1>2, <2>1, <2>4, ListsSet DEF BackedSettings
<1>3. CASE a = Absent
  <2>1. models # {} /\ Ensured(cfg, provider, models) = [cfg EXCEPT !.accounts[Shared] = first]
    BY <1>3 DEF Ensured
  <2>2. Listed(Shared, first)
    BY <2>1 DEF Listed
  <2> HIDE DEF first
  <2> QED
    BY <2>1, <2>2, ListsSet, SettingsAssumption DEF BackedSettings
<1> QED
  BY <1>2, <1>3

\* So has an imported one, unless the import file gives it none.
LEMMA WithImportLists ==
  ASSUME NEW W, WildcardImports \subseteq W, NEW aliases, NEW P,
         NEW cfg \in BackedSettings(aliases, P), Lists(W, cfg), NEW upsert,
         Imported.caps \in Seq(Backed(Imported.account, P))
  PROVE  Lists(W, WithImport(cfg, upsert))
<1> DEFINE a == Imported.account
           key == IF Configured(cfg, a) THEN cfg.accounts[a].key ELSE NewKey
           new == [enabled |-> TRUE, models |-> Imported.models, caps |-> Imported.caps,
                   key |-> key]
           trial == Normalized([cfg EXCEPT !.accounts[a] = new])
<1>1. a \in Accounts /\ Imported.models \in SUBSET Models
  BY ChangesAssumption
<1>2. WithImport(cfg, upsert) \in {cfg, trial}
  BY DEF WithImport
<1>3. key \in Keys
  BY <1>1, SourceFields, ChangesAssumption DEF BackedSettings
<1> HIDE DEF key
<1>4. new \in BackedSources(a, P) /\ (a \notin W => Listed(a, new))
  BY <1>1, <1>3, SourceMade DEF Listed, WildcardImports
<1> HIDE DEF new, a
<1>5. [cfg EXCEPT !.accounts[a] = new] \in BackedSettings(aliases, P)
  BY <1>1, <1>4, AccountSet
<1>6. Lists(W, [cfg EXCEPT !.accounts[a] = new])
  BY <1>1, <1>4, ListsSet DEF BackedSettings
<1>7. Lists(W, trial)
  BY <1>5, <1>6, NormalizedLists
<1> QED
  BY <1>2, <1>7

-----------------------------------------------------------------------------
(* Discovery changes the accounts whose catalogs were read, and no other.  *)

\* Settings that agree on all accounts that are not in Q.
Apart(Q, cfg, next) == \A b \in Accounts \ Q : next.accounts[b] = cfg.accounts[b]

\* One account of Q is exchanged.
LEMMA ApartSet ==
  ASSUME NEW Q, NEW first, NEW aliases, NEW cfg \in Settings(aliases), Apart(Q, first, cfg),
         NEW a \in Q \cap Accounts, NEW new
  PROVE  Apart(Q, first, [cfg EXCEPT !.accounts[a] = new])
<1> DEFINE next == [cfg EXCEPT !.accounts[a] = new]
<1>1. \A b \in Accounts : b # a => next.accounts[b] = cfg.accounts[b]
  BY OtherAccounts
<1> HIDE DEF next
<1>2. Apart(Q, first, next)
  BY <1>1 DEF Apart
<1> QED
  BY <1>2 DEF next

\* What an account declares after a catalog that was not empty.
LEMMA SyncedListed ==
  ASSUME NEW a, NEW P, NEW s \in BackedSources(a, P), NEW catalog \in SUBSET Models,
         catalog # {}, NEW at \in Int
  PROVE  Listed(a, Synced(a, s, catalog, at))
<1> DEFINE inferred == Inferred(catalog, at)
           caps == IF a \in Pools THEN Reconciled(s.caps, inferred).caps
                   ELSE MergedSynced(s.caps, inferred)
           models == (IF a \in Pools THEN catalog ELSE s.models \cup catalog) \cup Upstreams(caps)
<1>1. s \in Sources
  BY SourceFields
<1>2. Synced(a, s, catalog, at) = [s EXCEPT !.caps = caps, !.models = models]
  BY DEF Synced
<1>3. models # {}
  OBVIOUS
<1> HIDE DEF caps, models
<1>4. [s EXCEPT !.caps = caps, !.models = models].models = models
  BY <1>1 DEF Sources
<1> QED
  BY <1>2, <1>3, <1>4 DEF Listed

\* Settings that discovery may reach from some settings, with catalogs of Q.
Reached(aliases, P, Q, W, cfg) ==
  {c \in BackedSettings(aliases, P) :
     (\A a \in Q : Configured(c, a)) /\ Lists(W, c) /\ Apart(Q, cfg, c)}

\* One account of Q is exchanged for one that has a list.
LEMMA ReachedSet ==
  ASSUME NEW W, NEW aliases, NEW P, NEW Q \in SUBSET Accounts, NEW cfg,
         NEW v \in Reached(aliases, P, Q, W, cfg), NEW a \in Q,
         NEW new \in BackedSources(a, P), Listed(a, new)
  PROVE  [v EXCEPT !.accounts[a] = new] \in Reached(aliases, P, Q, W, cfg)
<1> DEFINE next == [v EXCEPT !.accounts[a] = new]
<1>1. /\ v \in BackedSettings(aliases, P) /\ v \in Settings(aliases)
      /\ (\A b \in Q : Configured(v, b)) /\ Lists(W, v) /\ Apart(Q, cfg, v)
  BY DEF Reached, BackedSettings
<1>2. /\ next \in BackedSettings(aliases, P)
      /\ \A b \in Accounts : Configured(v, b) => Configured(next, b)
  BY <1>1, AccountSet
<1>3. Lists(W, next) /\ Apart(Q, cfg, next)
  BY <1>1, ListsSet, ApartSet
<1> HIDE DEF next
<1>4. next \in Reached(aliases, P, Q, W, cfg)
  BY <1>1, <1>2, <1>3 DEF Reached
<1> QED
  BY <1>4 DEF next

\* Every catalog that was read is taken over.
LEMMA AllUpdatedReached ==
  ASSUME NEW W, NEW aliases, NEW P, NEW Q \in SUBSET Accounts,
         NEW cfg \in BackedSettings(aliases, P), Lists(W, cfg), \A a \in Q : Configured(cfg, a),
         NEW at \in Int,
         NEW catalogs, \A a \in Q : catalogs[a] \in SUBSET Models /\ catalogs[a] # {},
         NEW read \in Seq(Q)
  PROVE  AllUpdated(cfg, catalogs, at, read) \in Reached(aliases, P, Q, W, cfg)
<1> DEFINE V == Reached(aliases, P, Q, W, cfg)
<1>1. ASSUME NEW v \in V, NEW a \in Q
      PROVE  Updated(v, a, catalogs[a], at) \in V
  <2> DEFINE new == Synced(a, v.accounts[a], catalogs[a], at)
  <2>1. v.accounts[a] \in BackedSources(a, P)
    BY DEF Reached, BackedSettings
  <2>2. new \in BackedSources(a, P) /\ Listed(a, new)
    BY <2>1, SyncedType, SyncedListed
  <2>3. Updated(v, a, catalogs[a], at) = [v EXCEPT !.accounts[a] = new]
    BY DEF Updated
  <2> HIDE DEF new
  <2> QED
    BY <2>2, <2>3, ReachedSet
<1>2. \A v \in V : \A a \in Q : Updated(v, a, catalogs[a], at) \in V
  BY <1>1
<1>3. cfg \in V
  BY DEF Reached, Apart
<1> HIDE DEF V
<1>4. AllUpdated(cfg, catalogs, at, read) \in V
  BY <1>2, <1>3, UpdatedFold
<1> QED
  BY <1>4 DEF V

\* A change of name keeps the lists: an alias adds its model.
LEMMA MovedReached ==
  ASSUME NEW W, NEW aliases, NEW P, NEW Q \in SUBSET Accounts, NEW cfg,
         NEW v \in Reached(aliases, P, Q, W, cfg), NEW a \in Q, NEW move \in MovesOf(a, P)
  PROVE  Moved(v, a, move) \in Reached(aliases, P, Q, W, cfg)
<1> DEFINE next == Moved(v, a, move)
           old == v.accounts[a]
           new == Aliased(old, move.legacy)
<1>1. /\ v \in BackedSettings(aliases, P) /\ v \in Settings(aliases)
      /\ (\A b \in Q : Configured(v, b)) /\ Lists(W, v) /\ Apart(Q, cfg, v)
  BY DEF Reached, BackedSettings
<1>2. /\ next \in BackedSettings(aliases, P)
      /\ \A b \in Accounts : Configured(v, b) => Configured(next, b)
  BY <1>1, MovedType
<1>3. next.accounts = v.accounts \/ next = [v EXCEPT !.accounts[a] = new]
  <2>1. \A routes : [v EXCEPT !.routes = routes].accounts = v.accounts
    BY <1>1 DEF Settings
  <2> QED
    BY <2>1 DEF Moved
<1> HIDE DEF next
<1>3a. \A b \in Q : Configured(next, b)
  BY <1>1, <1>2
<1>4. ASSUME next.accounts = v.accounts
      PROVE  next \in Reached(aliases, P, Q, W, cfg)
  <2>1. Lists(W, next) /\ Apart(Q, cfg, next)
    BY <1>1, <1>4 DEF Lists, Configured, Apart
  <2> QED
    BY <1>2, <1>3a, <2>1 DEF Reached
<1>5. ASSUME next = [v EXCEPT !.accounts[a] = new]
      PROVE  next \in Reached(aliases, P, Q, W, cfg)
  <2>1. old \in Sources
    BY <1>1, SourceFields DEF BackedSettings
  <2>2. Listed(a, new)
    <3> HIDE DEF old
    <3>1. new.models = old.models \cup {move.legacy.upstream}
      BY <2>1 DEF Aliased, Sources
    <3> QED
      BY <3>1 DEF Listed
  <2> HIDE DEF new
  <2>3. Lists(W, next) /\ Apart(Q, cfg, next)
    BY <1>1, <1>5, <2>2, ListsSet, ApartSet
  <2> QED
    BY <1>2, <1>3a, <2>3 DEF Reached
<1> QED
  BY <1>3, <1>4, <1>5 DEF next

\* So do all of them, one after another.
LEMMA AllMovedReached ==
  ASSUME NEW W, NEW aliases, NEW P, NEW Q \in SUBSET Accounts, NEW cfg,
         NEW first \in Reached(aliases, P, Q, W, cfg), NEW moves \in Seq(AccountMoves(Q, P))
  PROVE  AllMoved(first, moves) \in Reached(aliases, P, Q, W, cfg)
<1> DEFINE V == Reached(aliases, P, Q, W, cfg)
           M == AccountMoves(Q, P)
<1>1. ASSUME NEW v \in V, NEW m \in M
      PROVE  Moved(v, m.account, m.move) \in V
  <2>1. m.account \in Q /\ m.move \in MovesOf(m.account, P)
    BY DEF AccountMoves
  <2> HIDE DEF M
  <2> QED
    BY <2>1, MovedReached
<1>2. \A v \in V : \A m \in M : Moved(v, m.account, m.move) \in V
  BY <1>1
<1>3. first \in V /\ moves \in Seq(M)
  OBVIOUS
<1> HIDE DEF V, M
<1>4. AllMoved(first, moves) \in V
  BY <1>2, <1>3, MovedFold
<1> QED
  BY <1>4 DEF V

\* A discovery exchanges accounts whose catalogs were read, and takes no list away.
LEMMA DiscoveredReached ==
  ASSUME NEW W, NEW aliases, NEW P, NEW cfg \in BackedSettings(aliases, P), Lists(W, cfg),
         NEW at \in Int, NEW catalogs, DOMAIN catalogs \subseteq Accounts,
         \A a \in DOMAIN catalogs :
           Configured(cfg, a) /\ catalogs[a] \in SUBSET Models /\ catalogs[a] # {}
  PROVE  Discovered(cfg, catalogs, at) \in Reached(aliases, P, DOMAIN catalogs, W, cfg)
<1> DEFINE Q == DOMAIN catalogs
           read == Among(AccountOrder, Q)
           updated == AllUpdated(cfg, catalogs, at, read)
           moves == AllMoves(cfg, catalogs, at, read)
<1>1. read \in Seq(Q)
  <2>1. read \in Seq(Accounts \cap Q)
    BY AmongType, SettingsAssumption
  <2>2. Accounts \cap Q = Q
    OBVIOUS
  <2> HIDE DEF read, Q
  <2> QED
    BY <2>1, <2>2
<1>2. Discovered(cfg, catalogs, at) \in {cfg, AllMoved(updated, moves)}
  BY DEF Discovered
<1>3. Q \in SUBSET Accounts /\ (\A a \in Q : Configured(cfg, a))
      /\ (\A a \in Q : catalogs[a] \in SUBSET Models /\ catalogs[a] # {})
  OBVIOUS
<1> HIDE DEF read, Q
<1>4. updated \in Reached(aliases, P, Q, W, cfg)
  BY <1>1, <1>3, AllUpdatedReached
<1>5. moves \in Seq(AccountMoves(Q, P))
  BY <1>1, <1>3, AllMovesType
<1> HIDE DEF updated, moves
<1>6. AllMoved(updated, moves) \in Reached(aliases, P, Q, W, cfg)
  BY <1>3, <1>4, <1>5, AllMovedReached
<1>7. cfg \in Reached(aliases, P, Q, W, cfg)
  BY <1>3 DEF Reached, Apart
<1> QED
  BY <1>2, <1>6, <1>7 DEF Q

\* What a check records are facts.
LEMMA RecordedListed ==
  ASSUME NEW s \in Sources, NEW name, NEW m, NEW credential, NEW passed
  PROVE  /\ Recorded(s, name, m, credential, passed).models = s.models
         /\ Recorded(s, name, m, credential, passed).enabled = s.enabled
<1>1. \E caps : Recorded(s, name, m, credential, passed) = [s EXCEPT !.caps = caps]
  BY DEF Recorded
<1>2. \A caps : [s EXCEPT !.caps = caps].models = s.models
                /\ [s EXCEPT !.caps = caps].enabled = s.enabled
  BY DEF Sources
<1> QED
  BY <1>1, <1>2, Zenon

-----------------------------------------------------------------------------
(* What pools declare: the inductive invariant.                            *)

\* What a poll saw withdrawn, it had read, and it is not declared now.
WithdrawnInv(p, cfg) ==
  \A a \in Pools : /\ p.withdrawn[a] \subseteq Declares(p.source, a)
                   /\ p.withdrawn[a] \cap Declares(cfg, a) = {}

CatalogsInv(p, cfg) ==
  p.stage = "commit" =>
    /\ \A a \in DOMAIN p.catalogs : p.catalogs[a] # {}
    /\ WithdrawnInv(p, cfg)

\* Pools that may be without a list: those that are published without one, and
\* one that the import file gives none.
Excused == Wildcards(published) \cup WildcardImports

\* No document adds a pool without a list to those that are published, and what
\* a poll saw withdrawn is not declared.
DeclaredInv ==
  /\ Lists(Excused, disk)
  /\ job.stage # "free" => Lists(Excused, job.doc)
  /\ CatalogsInv(poll, published)

\* What is published adds none to itself.
LEMMA PublishedLists == Lists(Excused, published)
BY ListsTolerate DEF Excused

\* Publishing withdraws from the poll what is not declared any more.
LEMMA PublishWithdraws ==
  ASSUME PollInv(poll), CatalogsInv(poll, published), NEW doc, Publish(doc)
  PROVE  CatalogsInv(poll', doc) /\ published' = doc /\ poll'.stage = poll.stage
<1>1. CASE poll.stage # "commit"
  BY <1>1 DEF Publish, CatalogsInv
<1>2. CASE poll.stage = "commit"
  <2> DEFINE w == [a \in Pools |->
                     (poll.withdrawn[a] \cup (Declares(published, a) \cap Declares(poll.source, a)))
                       \ Declares(doc, a)]
  <2>1. poll' = [poll EXCEPT !.withdrawn = w]
    BY <1>2 DEF Publish
  <2>2. \A a \in Pools : /\ w[a] \subseteq Declares(poll.source, a)
                         /\ w[a] \cap Declares(doc, a) = {}
    BY <1>2 DEF CatalogsInv, WithdrawnInv
  <2> HIDE DEF w
  <2>3. /\ poll'.withdrawn = w /\ poll'.source = poll.source /\ poll'.catalogs = poll.catalogs
        /\ poll'.stage = poll.stage
    BY <1>2, <2>1 DEF PollInv
  <2>4. WithdrawnInv(poll', doc)
    BY <2>2, <2>3 DEF WithdrawnInv
  <2> QED
    BY <1>2, <2>3, <2>4 DEF CatalogsInv, Publish
<1> QED
  BY <1>1, <1>2

\* A job takes a step that does not publish anything.
LEMMA DeclaredMoves ==
  ASSUME DeclaredInv, UNCHANGED <<published, poll>>, disk' \in {disk, published},
         job'.stage # "free" => \E doc : HasDoc(job', doc) /\ Lists(Excused, doc)
  PROVE  DeclaredInv'
<1>1. Excused' = Excused
  BY DEF Excused, Wildcards, Enabled, Configured
<1>2. Lists(Excused, disk)'
  BY <1>1, PublishedLists DEF DeclaredInv
<1>3. job'.stage # "free" => Lists(Excused', job'.doc)
  BY <1>1 DEF HasDoc, Has
<1> QED
  BY <1>2, <1>3 DEF DeclaredInv

\* It holds at the start.
LEMMA DeclaredInit == ChangesInit => DeclaredInv
<1> SUFFICES ASSUME ChangesInit PROVE DeclaredInv
  OBVIOUS
<1>1. Lists(Excused, disk) /\ job.stage = "free"
  BY PublishedLists DEF ChangesInit, Free
<1> QED
  BY <1>1 DEF ChangesInit, DeclaredInv, Resting, CatalogsInv

\* The steps of jobs.
LEMMA DeclaredJobs ==
  ASSUME DeclaredInv, BackedInv, ChangesInv, JobStep
  PROVE  DeclaredInv'
<1> DEFINE aliases == DOMAIN job.doc.routes
<1>1. job.stage # "free" /\ "failed" \in Outcomes
  BY DEF JobStep, Unlocked, Outcomes
<1>2. /\ HasDoc(job, job.doc) /\ job.doc \in BackedSettings(aliases, proven)
      /\ Lists(Excused, job.doc)
      /\ Backs(published, proven) /\ Lists(Excused, published) /\ PollInv(poll)
  BY <1>1, PublishedLists DEF BackedInv, Backs, DeclaredInv
<1> HIDE DEF aliases
<1>3. ASSUME NEW outcome \in Outcomes,
             \/ Apply(outcome) \/ Inspect(outcome) \/ Snapshot(outcome) \/ Upload(outcome)
             \/ Restore(outcome) \/ RestoreStatus(outcome) \/ Verify(outcome)
             \/ RestoreConfig(outcome) \/ Expire \/ Return
      PROVE  DeclaredInv'
  <2>1. /\ job'.stage = "free" \/ HasDoc(job', job.doc)
        /\ UNCHANGED <<published, poll>> /\ disk' \in {disk, published}
    BY <1>1, <1>3, DocumentStays
  <2> QED
    BY <1>2, <2>1, DeclaredMoves
<1>4. ASSUME NEW outcome \in Outcomes, Save(outcome) PROVE DeclaredInv'
  <2> DEFINE doc == Normalized(job.doc)
  <2>1. Lists(Excused, doc) /\ \A W : Lists(W, doc) => Lists(W, job.doc)
    BY <1>2, NormalizedLists, NormalizedAccounts DEF Lists, Listed
  <2>2. HasDoc(job', job.doc)
    BY <1>2, <1>4, DocKept DEF Save
  <2> HIDE DEF doc
  <2>3. \/ disk' = doc /\ Publish(doc)
        \/ disk' \in {disk, doc} /\ UNCHANGED <<published, poll>>
    BY <1>4 DEF Save, doc
  <2>4. CASE disk' = doc /\ Publish(doc)
    <3>1. published' = doc /\ CatalogsInv(poll, published)'
      BY <1>2, <2>4, PublishWithdraws DEF DeclaredInv
    <3>2. Lists(Excused', doc)
      BY <3>1, ListsTolerate DEF Excused
    <3> QED
      BY <2>1, <2>2, <2>4, <3>1, <3>2 DEF DeclaredInv, HasDoc, Has
  <2>5. CASE disk' \in {disk, doc} /\ UNCHANGED <<published, poll>>
    <3>1. Excused' = Excused
      BY <2>5 DEF Excused, Wildcards, Enabled, Configured
    <3> QED
      BY <1>2, <2>1, <2>2, <2>5, <3>1 DEF DeclaredInv, HasDoc, Has
  <2> QED
    BY <2>3, <2>4, <2>5
<1>5. ASSUME NEW available \in SUBSET Providers, NEW models \in SUBSET Models,
             ReadCatalog(available, models)
      PROVE  DeclaredInv'
  <2> DEFINE doc == Reconciliation(published, available, models)
  <2>1. Lists(Excused, doc)
    BY <1>2, ReconciliationLists DEF Backs
  <2>2. HasDoc([job EXCEPT !.doc = doc], doc)
    BY <1>2 DEF HasDoc, Has
  <2>3. HasDoc(job', doc)
    BY <1>5, <2>2, DocKept DEF ReadCatalog
  <2> HIDE DEF doc
  <2> QED
    BY <1>5, <2>1, <2>3, DeclaredMoves DEF ReadCatalog
<1>6. ASSUME NEW models \in SUBSET Models, Ensure(models) PROVE DeclaredInv'
  <2> DEFINE provider == Head(SelectSeq(ProviderOrder, LAMBDA p : p \in job.providers))
             ensured == Ensured(job.doc, provider, models)
             doc == IF ensured = Absent THEN job.doc ELSE ensured
             next == [job EXCEPT !.providers = @ \ {provider}, !.doc = doc]
  <2>1. Lists(Excused, doc)
    BY <1>2, EnsuredLists
  <2>2. HasDoc(next, doc)
    BY <1>2 DEF HasDoc, Has
  <2>3. job' = IF next.providers = {} THEN Settled(next) ELSE next
    BY <1>6 DEF Ensure
  <2> HIDE DEF doc, next, provider
  <2>4. HasDoc(job', doc)
    BY <2>2, <2>3, DocKept
  <2> QED
    BY <1>6, <2>1, <2>4, DeclaredMoves DEF Ensure
<1> QED
  BY <1>1, <1>3, <1>4, <1>5, <1>6 DEF JobStep

\* The adapter's own changes, and what a job begins with.
LEMMA DeclaredBegin ==
  ASSUME DeclaredInv, BackedInv,
         \/ \E f \in Files : Adapter(f)
         \/ /\ Unlocked
            /\ \/ \E f \in Files, wanted \in {"deleted", "disabled", "enabled"} : Change(f, wanted)
               \/ \E p \in Providers, models \in SUBSET Servable : Login(p, models)
               \/ \E upsert \in BOOLEAN : Import(upsert)
  PROVE  DeclaredInv'
<1>1. ASSUME NEW kind, NEW stage, NEW doc
      PROVE  HasDoc(Job(kind, stage, doc), doc)
  BY DEF Job, HasDoc, Has
<1>2. Backs(published, proven) /\ Lists(Excused, published)
  BY PublishedLists DEF BackedInv
<1>3. ASSUME NEW f \in Files, Adapter(f) PROVE DeclaredInv'
  <2>1. job'.stage # "free" => HasDoc(job', job.doc) /\ Lists(Excused, job.doc)
    BY <1>3 DEF Adapter, BackedInv, DeclaredInv, HasDoc, Has, Unlocked
  <2> QED
    BY <1>3, <2>1, DeclaredMoves DEF Adapter
<1>4. ASSUME NEW f \in Files, NEW wanted \in {"deleted", "disabled", "enabled"}, Change(f, wanted)
      PROVE  DeclaredInv'
  <2>1. HasDoc(job', published)
    BY <1>1, <1>4 DEF Change, HasDoc, Has
  <2> QED
    BY <1>2, <1>4, <2>1, DeclaredMoves DEF Change
<1>5. ASSUME NEW p \in Providers, NEW models \in SUBSET Servable, Login(p, models)
      PROVE  DeclaredInv'
  <2> DEFINE doc == Ensured(published, p, models)
  <2>1. doc # Absent /\ models \in SUBSET Models
    BY <1>5, ServableModels DEF Login
  <2>2. Lists(Excused, doc)
    BY <1>2, <2>1, EnsuredLists DEF Backs
  <2>3. HasDoc(job', doc)
    BY <1>1, <1>5 DEF Login
  <2> HIDE DEF doc
  <2> QED
    BY <1>5, <2>2, <2>3, DeclaredMoves DEF Login
<1>6. ASSUME NEW upsert \in BOOLEAN, Import(upsert) PROVE DeclaredInv'
  <2> DEFINE doc == WithImport(published, upsert)
  <2>1. Lists(Excused, doc)
    BY <1>2, WithImportLists DEF Backs, BackedInv, Excused
  <2>2. HasDoc(job', doc)
    BY <1>1, <1>6 DEF Import, HasDoc, Has
  <2> HIDE DEF doc
  <2> QED
    BY <1>6, <2>1, <2>2, DeclaredMoves DEF Import
<1> QED
  BY <1>3, <1>4, <1>5, <1>6

\* The administrator's changes.
LEMMA DeclaredByHand ==
  ASSUME DeclaredInv, BackedInv,
         \/ \E a \in Accounts : Switch(a)
         \/ \E a \in Accounts, key \in Keys : RotateKey(a, key)
         \/ \E a \in Accounts, key \in Connections : \E i \in Positions(a) :
              \/ ExcludeModel(a, i, key)
              \/ \E credential \in Scopes : Exclude(a, i, credential, key)
         \/ Reload
  PROVE  DeclaredInv'
<1>1. ASSUME NEW doc, Publish(doc), disk' = doc, job' = job, job.stage = "free"
      PROVE  DeclaredInv'
  <2>1. published' = doc /\ CatalogsInv(poll, published)'
    BY <1>1, PublishWithdraws DEF DeclaredInv, BackedInv
  <2>2. Lists(Excused', doc)
    BY <2>1, ListsTolerate DEF Excused
  <2> QED
    BY <1>1, <2>1, <2>2 DEF DeclaredInv
<1>2. \A edit : Edited(edit) => DeclaredInv'
  BY <1>1 DEF Edited, MayChange, Unlocked
<1>3. \A a : Switch(a) => DeclaredInv'
  BY <1>2 DEF Switch
<1>4. \A a, key : RotateKey(a, key) => DeclaredInv'
  BY <1>2 DEF RotateKey
<1>5. \A a, i, key : ExcludeModel(a, i, key) => DeclaredInv'
  BY <1>2, Zenon DEF ExcludeModel
<1>6. \A a, i, credential, key : Exclude(a, i, credential, key) => DeclaredInv'
  BY <1>2 DEF Exclude
<1>7. CASE Reload
  BY <1>1, <1>7 DEF Reload, Unlocked
<1> QED
  BY <1>3, <1>4, <1>5, <1>6, <1>7

-----------------------------------------------------------------------------
(* Polls and checks.                                                       *)

\* The catalogs of the sources that are as they were.
Matching == Restrict(poll.catalogs, {a \in DOMAIN poll.catalogs : SourceMatches(a)})

\* What a poll commits: sources that changed meanwhile are as they are.
LEMMA PollDocument ==
  ASSUME BackedInv, DeclaredInv, poll.stage = "commit"
  PROVE  LET doc == Normalized(Discovered(published, Matching, poll.at)) IN
         /\ Lists(Excused, doc)
         /\ \A a \in Pools :
              Declares(doc, a) \cap poll.withdrawn[a] \subseteq Declares(published, a)
<1> DEFINE aliases == DOMAIN published.routes
           found == Discovered(published, Matching, poll.at)
<1>1. /\ published \in BackedSettings(aliases, proven) /\ Lists(Excused, published)
      /\ poll.at \in Int
  BY PublishedLists DEF BackedInv, Backs, PollInv
<1>2. DOMAIN Matching \subseteq Accounts /\
      \A a \in DOMAIN Matching : /\ SourceMatches(a)
                                 /\ Matching[a] \in SUBSET Models /\ Matching[a] # {}
  BY DEF Matching, Restrict, BackedInv, PollInv, DeclaredInv, CatalogsInv
<1>3. \A a \in DOMAIN Matching : Configured(published, a)
  BY <1>2 DEF SourceMatches
<1> HIDE DEF aliases
<1>4. found \in Reached(aliases, proven, DOMAIN Matching, Excused, published)
  BY <1>1, <1>2, <1>3, DiscoveredReached
<1> HIDE DEF found
<1>5. /\ found \in BackedSettings(aliases, proven) /\ Lists(Excused, found)
      /\ \A b \in Accounts \ DOMAIN Matching : found.accounts[b] = published.accounts[b]
  BY <1>4 DEF Reached, Apart
<1>6. Lists(Excused, Normalized(found))
  BY <1>5, NormalizedLists
<1>7. \A a \in Accounts : Declares(Normalized(found), a) = Declares(found, a)
  BY <1>5, NormalizedAccounts DEF Declares
<1>8. ASSUME NEW a \in Pools
      PROVE  Declares(Normalized(found), a) \cap poll.withdrawn[a] \subseteq Declares(published, a)
  <2>1. a \in Accounts
    BY SettingsAssumption
  <2>2. CASE a \in DOMAIN Matching
    <3>1. published.accounts[a] = poll.source.accounts[a]
      BY <1>2, <2>2 DEF SourceMatches
    <3>2. Declares(poll.source, a) = Declares(published, a)
      BY <3>1 DEF Declares, Configured
    <3>3. poll.withdrawn[a] = {}
      BY <3>2 DEF DeclaredInv, CatalogsInv, WithdrawnInv
    <3> QED
      BY <3>3
  <2>3. CASE a \notin DOMAIN Matching
    <3>1. Declares(found, a) = Declares(published, a)
      BY <1>5, <2>1, <2>3 DEF Declares, Configured
    <3> QED
      BY <1>7, <2>1, <3>1
  <2> QED
    BY <2>2, <2>3
<1> QED
  BY <1>6, <1>8 DEF found

\* What a check commits declares no other models.
LEMMA CheckDocument ==
  ASSUME BackedInv, DeclaredInv, check.stage = "commit", StillHolds
  PROVE  LET doc == Normalized([published EXCEPT !.accounts[check.account] =
               Recorded(@, check.name, check.upstream, check.credential, check.passed)]) IN
         /\ Lists(Excused, doc)
         /\ \A a \in Accounts : Declares(doc, a) = Declares(published, a)
<1> DEFINE aliases == DOMAIN published.routes
           a == check.account
           s == published.accounts[a]
           new == Recorded(s, check.name, check.upstream, check.credential, check.passed)
           set == [published EXCEPT !.accounts[a] = new]
<1>1. /\ published \in BackedSettings(aliases, proven) /\ Lists(Excused, published)
      /\ CheckInv(check, proven)
  BY PublishedLists DEF BackedInv, Backs
<1> HIDE DEF aliases
<1>2. /\ a \in Accounts /\ check.name \in Profiles /\ check.upstream \in Models
      /\ check.credential \in Scopes /\ check.passed \in BOOLEAN
      /\ check.passed => [account |-> a, key |-> check.source.key, upstream |-> check.upstream,
                          credential |-> check.credential] \in proven
  BY <1>1 DEF CheckInv
<1>3. Configured(published, a) /\ s \in BackedSources(a, proven) /\ s.key = check.source.key
  BY <1>1, <1>2 DEF StillHolds, Enabled, BackedSettings
<1>4. s \in Sources /\ (a \notin Excused => Listed(a, s))
  BY <1>1, <1>2, <1>3, SourceFields DEF Lists
<1> HIDE DEF s, a
<1>5. new \in BackedSources(a, proven)
  BY <1>2, <1>3, RecordedType
<1>6. new.models = s.models /\ new.enabled = s.enabled /\ new # Absent
  BY <1>4, <1>5, RecordedListed, SourceFields
<1> HIDE DEF new
<1>7. (a \notin Excused => Listed(a, new)) /\ published \in Settings(aliases)
  BY <1>1, <1>4, <1>6 DEF Listed, BackedSettings
<1>8. set \in BackedSettings(aliases, proven) /\ Lists(Excused, set)
  BY <1>1, <1>2, <1>5, <1>7, AccountSet, ListsSet
<1>9. set.accounts[a] = new /\ \A b \in Accounts : b # a => set.accounts[b] = published.accounts[b]
  BY <1>2, <1>7, OtherAccounts
<1> HIDE DEF set
<1>10. \A b \in Accounts : Declares(set, b) = Declares(published, b)
  BY <1>3, <1>6, <1>9 DEF Declares, Configured, s
<1>11. \A b \in Accounts : Declares(Normalized(set), b) = Declares(set, b)
  BY <1>8, NormalizedAccounts DEF Declares
<1>12. Lists(Excused, Normalized(set))
  BY <1>8, NormalizedLists
<1> QED
  BY <1>10, <1>11, <1>12 DEF set, new, s, a

\* What is saved adds no pool without a list, whether or not it is published.
LEMMA DocumentCommitted ==
  ASSUME NEW doc, Lists(Excused, disk), Lists(Excused, doc), disk' \in {disk, doc},
         published' = published \/ disk' = published'
  PROVE  Lists(Excused', disk')
<1>1. CASE published' = published
  BY <1>1 DEF Excused, Wildcards, Enabled, Configured
<1>2. CASE disk' = published'
  BY <1>2, ListsTolerate DEF Excused
<1> QED
  BY <1>1, <1>2

\* Polls and checks keep the invariant.
LEMMA DeclaredObservers ==
  ASSUME DeclaredInv, BackedInv, PollStep \/ CheckStep
  PROVE  DeclaredInv'
<1>1. CASE Poll
  <2>1. Excused' = Excused /\ UNCHANGED <<disk, published, job>>
    BY <1>1 DEF Poll, Excused, Wildcards, Enabled, Configured
  <2> QED
    BY <1>1, <2>1 DEF Poll, DeclaredInv, CatalogsInv
<1>2. CASE ReadAny
  <2>1. PICK catalogs \in [Enabled(poll.source) -> SUBSET Models] :
          Read(Restrict(catalogs, {a \in DOMAIN catalogs : catalogs[a] # {}}))
    BY <1>2 DEF ReadAny
  <2> DEFINE read == Restrict(catalogs, {a \in DOMAIN catalogs : catalogs[a] # {}})
             none == [a \in Pools |-> {}]
  <2>2. \A a \in DOMAIN read : read[a] # {}
    BY DEF Restrict
  <2> HIDE DEF read
  <2>3. /\ poll' = IF DOMAIN read = {} THEN Resting
                   ELSE [stage |-> "commit", source |-> poll.source, at |-> poll.at,
                         catalogs |-> read, withdrawn |-> none]
        /\ UNCHANGED <<disk, published, job>>
    BY <2>1 DEF Read, read
  <2>4. \A a \in Pools : none[a] = {}
    OBVIOUS
  <2> HIDE DEF none
  <2>5. CatalogsInv(poll', published)
    BY <2>2, <2>3, <2>4 DEF CatalogsInv, WithdrawnInv, Resting
  <2>6. Excused' = Excused
    BY <2>3 DEF Excused, Wildcards, Enabled, Configured
  <2> QED
    BY <2>3, <2>5, <2>6 DEF DeclaredInv
<1>3. ASSUME NEW outcome \in Outcomes, PollCommit(outcome) PROVE DeclaredInv'
  <2> DEFINE doc == Normalized(Discovered(published, Matching, poll.at))
  <2>1. Lists(Excused, doc)
    BY <1>3, PollDocument DEF PollCommit
  <2>2. Commit(doc, outcome) \/ UNCHANGED <<disk, published, left>>
    BY <1>3 DEF PollCommit, Matching
  <2> HIDE DEF doc
  <2>3. /\ published' \in {published, doc} /\ disk' \in {disk, doc}
        /\ published' = published \/ disk' = published'
    BY <2>2 DEF Commit
  <2>4. poll' = Resting /\ job' = job /\ job.stage = "free"
    BY <1>3 DEF PollCommit, Unlocked
  <2>5. CatalogsInv(poll', published')
    BY <2>4 DEF CatalogsInv, Resting
  <2>6. Lists(Excused', disk')
    BY <2>1, <2>3, DocumentCommitted DEF DeclaredInv
  <2> QED
    BY <2>4, <2>5, <2>6 DEF DeclaredInv
<1>5. ASSUME UNCHANGED <<disk, published, job, poll>> PROVE DeclaredInv'
  <2>1. Excused' = Excused
    BY <1>5 DEF Excused, Wildcards, Enabled, Configured
  <2> QED
    BY <1>5, <2>1 DEF DeclaredInv
<1>4. ASSUME NEW outcome \in Outcomes, CheckCommit(outcome) PROVE DeclaredInv'
  <2> DEFINE doc == Normalized([published EXCEPT !.accounts[check.account] =
               Recorded(@, check.name, check.upstream, check.credential, check.passed)])
  <2>1. check.stage = "commit" /\ UNCHANGED <<job, poll>> /\ job.stage = "free"
    BY <1>4 DEF CheckCommit, Unlocked
  <2>2. CASE UNCHANGED <<disk, published>>
    BY <1>5, <2>1, <2>2
  <2>3. CASE StillHolds /\ Commit(doc, outcome)
    <3>1. Lists(Excused, doc) /\ \A a \in Accounts : Declares(doc, a) = Declares(published, a)
      BY <2>1, <2>3, CheckDocument
    <3> HIDE DEF doc
    <3>2. CatalogsInv(poll, doc)
      BY <3>1, SettingsAssumption DEF DeclaredInv, CatalogsInv, WithdrawnInv
    <3>3. /\ published' \in {published, doc} /\ disk' \in {disk, doc}
          /\ published' = published \/ disk' = published'
      BY <2>3 DEF Commit
    <3>4. Lists(Excused', disk')
      BY <3>1, <3>3, DocumentCommitted DEF DeclaredInv
    <3>5. CatalogsInv(poll', published')
      BY <2>1, <3>2, <3>3 DEF DeclaredInv
    <3> QED
      BY <2>1, <3>4, <3>5 DEF DeclaredInv
  <2> QED
    BY <1>4, <2>2, <2>3 DEF CheckCommit
<1>6. \A a, name : Check(a, name) => UNCHANGED <<disk, published, job, poll>>
  BY DEF Check
<1>7. \A credential, passed : Probed(credential, passed) => UNCHANGED <<disk, published, job, poll>>
  BY DEF Probed
<1>8. Abandon => UNCHANGED <<disk, published, job, poll>>
  BY DEF Abandon
<1> QED
  BY <1>1, <1>2, <1>3, <1>4, <1>5, <1>6, <1>7, <1>8 DEF PollStep, CheckStep

\* Only its commit ends a poll that has read its catalogs.
LEMMA PollEnds ==
  ASSUME DeclaredInv, BackedInv, ChangesNext, PollCommits
  PROVE  \E outcome \in Outcomes : PollCommit(outcome)
<1>1. poll.stage = "commit" /\ poll'.stage = "idle" /\ poll' # poll
  BY DEF PollCommits
<1>2. ASSUME NEW doc, Publish(doc) PROVE FALSE
  BY <1>1, <1>2, PublishWithdraws DEF DeclaredInv, BackedInv
<1>3. ~\E f \in Files : Adapter(f)
  BY <1>1 DEF Adapter
<1>4. ~Administration
  <2>1. ASSUME NEW edit, Edited(edit) PROVE FALSE
    BY <1>2, <2>1 DEF Edited
  <2>2. \A f, wanted : ~Change(f, wanted)
    BY <1>1 DEF Change
  <2>3. \A p, models : ~Login(p, models)
    BY <1>1 DEF Login
  <2>4. \A upsert : ~Import(upsert)
    BY <1>1 DEF Import
  <2>5. ~Reload /\ \A a : ~Switch(a)
    BY <1>2, <2>1 DEF Reload, Switch
  <2>6. \A a, key : ~RotateKey(a, key)
    BY <2>1 DEF RotateKey
  <2>7. /\ \A a, i, credential, key : ~Exclude(a, i, credential, key)
        /\ \A a, i, key : ~ExcludeModel(a, i, key)
    BY <2>1, Zenon DEF Exclude, ExcludeModel
  <2> QED
    BY <2>2, <2>3, <2>4, <2>5, <2>6, <2>7 DEF Administration
<1>5. ~JobStep
  <2>1. \A outcome : ~Apply(outcome) /\ ~Inspect(outcome) /\ ~Snapshot(outcome)
    BY <1>1 DEF Apply, Inspect, Snapshot
  <2>2. \A outcome : ~Upload(outcome) /\ ~Restore(outcome) /\ ~RestoreStatus(outcome)
    BY <1>1 DEF Upload, Restore, RestoreStatus
  <2>3. \A outcome : ~Verify(outcome) /\ ~RestoreConfig(outcome)
    BY <1>1 DEF Verify, RestoreConfig
  <2>4. \A outcome : ~Save(outcome)
    BY <1>1, <1>2 DEF Save
  <2>5. \A available, models : ~ReadCatalog(available, models) /\ ~Ensure(models)
    BY <1>1 DEF ReadCatalog, Ensure
  <2>6. ~Expire /\ ~Return
    BY <1>1 DEF Expire, Return
  <2> QED
    BY <2>1, <2>2, <2>3, <2>4, <2>5, <2>6 DEF JobStep
<1>6. ~CheckStep
  <2>1. \A a, name : ~Check(a, name)
    BY <1>1 DEF Check
  <2>2. \A credential, passed : ~Probed(credential, passed)
    BY <1>1 DEF Probed
  <2>3. ~Abandon /\ \A outcome : ~CheckCommit(outcome)
    BY <1>1 DEF Abandon, CheckCommit
  <2> QED
    BY <2>1, <2>2, <2>3 DEF CheckStep
<1>7. ~Poll /\ ~ReadAny
  BY <1>1 DEF Poll, ReadAny
<1> QED
  BY <1>3, <1>4, <1>5, <1>6, <1>7 DEF ChangesNext, PollStep

\* Every step keeps the invariant.
LEMMA DeclaredStep ==
  DeclaredInv /\ BackedInv /\ ChangesInv /\ [ChangesNext]_changesVars
    => DeclaredInv'
<1> SUFFICES ASSUME DeclaredInv, BackedInv, ChangesInv, [ChangesNext]_changesVars
             PROVE  DeclaredInv'
  OBVIOUS
<1>1. CASE \E f \in Files : Adapter(f)
  BY <1>1, DeclaredBegin
<1>2. CASE Administration
  BY <1>2, DeclaredBegin, DeclaredByHand DEF Administration
<1>3. CASE JobStep
  BY <1>3, DeclaredJobs
<1>4. CASE PollStep \/ CheckStep
  BY <1>4, DeclaredObservers
<1>5. CASE UNCHANGED changesVars
  <2>1. Excused' = Excused
    BY <1>5 DEF changesVars, Excused, Wildcards, Enabled, Configured
  <2> QED
    BY <1>5, <2>1 DEF changesVars, DeclaredInv
<1> QED
  BY <1>1, <1>2, <1>3, <1>4, <1>5 DEF ChangesNext

\* What pools declare, and what polls saw withdrawn, in every state.
THEOREM SpecDeclaredInv == ChangesSpec => []DeclaredInv
<1>1. DeclaredInv /\ BackedInv /\ ChangesInv /\ [ChangesNext]_changesVars => DeclaredInv'
  BY DeclaredStep
<1> QED
  BY <1>1, DeclaredInit, SpecBackedInv, SpecChangesInv, PTL DEF ChangesSpec

\* An edit of one account leaves pools without a list that were so, and may
\* make the account one.
LEMMA EditedWildcards ==
  ASSUME BackedInv, NEW a \in Accounts, NEW new \in BackedSources(a, proven),
         Edited([published EXCEPT !.accounts[a] = new]),
         NEW b \in Wildcards(published')
  PROVE  IF b = a THEN new.enabled /\ new.models = {} ELSE b \in Wildcards(published)
<1> DEFINE aliases == DOMAIN published.routes
           edit == [published EXCEPT !.accounts[a] = new]
<1>1. /\ published \in BackedSettings(aliases, proven) /\ published \in Settings(aliases)
      /\ b \in Accounts
  BY SettingsAssumption DEF BackedInv, Backs, BackedSettings, Wildcards
<1>2. edit \in BackedSettings(aliases, proven)
  BY <1>1, AccountSet
<1>3. /\ edit.accounts[a] = new
      /\ \A c \in Accounts : c # a => edit.accounts[c] = published.accounts[c]
  BY <1>1, OtherAccounts
<1> HIDE DEF edit
<1>4. published' = Normalized(edit)
  BY DEF Edited, Publish, edit
<1>5. b \in Wildcards(edit)
  BY <1>1, <1>2, <1>4, NormalizedAccounts DEF Wildcards, Enabled
<1> QED
  BY <1>1, <1>3, <1>5 DEF Wildcards, Enabled, Configured

\* Only switching a pool on makes an edit add one without a list.
LEMMA HandsAddNone ==
  ASSUME BackedInv, NEW b \in Wildcards(published') \ Wildcards(published),
         \/ \E a \in Accounts : Switch(a)
         \/ \E a \in Accounts, key \in Keys : RotateKey(a, key)
         \/ \E a \in Accounts, key \in Connections : \E i \in Positions(a) :
              \/ ExcludeModel(a, i, key)
              \/ \E credential \in Scopes : Exclude(a, i, credential, key)
  PROVE  published' = Normalized([published EXCEPT !.accounts[b].enabled = TRUE])
<1>0. PICK a \in Accounts : \E new : HandEdit(a, new)
  BY HandEdits
<1>1. PICK new : HandEdit(a, new)
  BY <1>0
<1> DEFINE s == published.accounts[a]
<1>2. s \in Sources /\ Configured(published, a)
  BY <1>1, SourceFields DEF HandEdit, BackedInv, Backs, BackedSettings
<1>3. b = a /\ new.enabled /\ new.models = {}
  BY <1>1, EditedWildcards DEF HandEdit
<1>4. s.models = {} /\ b \in Pools
  BY <1>1, <1>3 DEF HandEdit, Wildcards
<1>5. ~s.enabled
  BY <1>2, <1>3, <1>4 DEF Wildcards, Enabled
<1>6. new = [s EXCEPT !.enabled = ~s.enabled]
  BY <1>1, <1>3, <1>5 DEF HandEdit
<1>7. new = [s EXCEPT !.enabled = TRUE]
  BY <1>2, <1>5, <1>6 DEF Sources
<1>8. published' = Normalized([published EXCEPT !.accounts[a] = new])
  BY <1>1 DEF HandEdit, Edited, Publish
<1> QED
  BY <1>3, <1>7, <1>8

\* No step but an administrator's adds a pool without a list.
LEMMA WildcardStep ==
  ASSUME DeclaredInv, BackedInv, ChangesNext,
         NEW b \in Wildcards(published') \ Excused
  PROVE  published' = Normalized([published EXCEPT !.accounts[b].enabled = TRUE])
<1>1. \A cfg : Lists(Excused, cfg) => published' # cfg
  BY ListsTolerate
<1>2. published' # published
  BY <1>1, PublishedLists
<1>3. \A doc : Publish(doc) => published' = doc
  BY DEF Publish
<1>4. CASE \E f \in Files : Adapter(f)
  BY <1>2, <1>4 DEF Adapter
<1>5. CASE Administration
  <2>1. \A f, wanted : ~Change(f, wanted)
    BY <1>2 DEF Change
  <2>2. (\A p, models : ~Login(p, models)) /\ (\A upsert : ~Import(upsert))
    BY <1>2 DEF Login, Import
  <2>3. ~Reload
    BY <1>1, <1>3 DEF Reload, DeclaredInv
  <2> QED
    BY <1>5, <2>1, <2>2, <2>3, HandsAddNone DEF Administration, Excused
<1>6. CASE JobStep
  <2>1. \A outcome : ~Apply(outcome) /\ ~Inspect(outcome) /\ ~Snapshot(outcome)
    BY <1>2 DEF Apply, Inspect, Snapshot
  <2>2. \A outcome : ~Upload(outcome) /\ ~Restore(outcome) /\ ~RestoreStatus(outcome)
    BY <1>2 DEF Upload, Restore, RestoreStatus
  <2>3. \A outcome : ~Verify(outcome) /\ ~RestoreConfig(outcome)
    BY <1>2 DEF Verify, RestoreConfig
  <2>4. \A outcome : ~Save(outcome)
    <3>1. ASSUME job.stage = "save" PROVE Lists(Excused, Normalized(job.doc))
      BY <3>1, NormalizedLists DEF DeclaredInv, BackedInv, Backs
    <3> QED
      BY <1>1, <1>2, <1>3, <3>1 DEF Save
  <2>5. \A available, models : ~ReadCatalog(available, models) /\ ~Ensure(models)
    BY <1>2 DEF ReadCatalog, Ensure
  <2>6. ~Expire /\ ~Return
    BY <1>2 DEF Expire, Return
  <2> QED
    BY <1>6, <2>1, <2>2, <2>3, <2>4, <2>5, <2>6 DEF JobStep
<1>7. CASE PollStep
  <2>1. ASSUME NEW outcome, PollCommit(outcome) PROVE FALSE
    <3> DEFINE doc == Normalized(Discovered(published, Matching, poll.at))
    <3>1. Lists(Excused, doc)
      BY <2>1, PollDocument DEF PollCommit
    <3>2. Commit(doc, outcome) \/ published' = published
      BY <2>1 DEF PollCommit, Matching
    <3> HIDE DEF doc
    <3> QED
      BY <1>1, <1>2, <3>1, <3>2 DEF Commit
  <2>2. ~Poll /\ ~ReadAny
    BY <1>2 DEF Poll, ReadAny, Read
  <2> QED
    BY <1>7, <2>1, <2>2 DEF PollStep
<1>8. CASE CheckStep
  <2>1. ASSUME NEW outcome, CheckCommit(outcome) PROVE FALSE
    <3> DEFINE doc == Normalized([published EXCEPT !.accounts[check.account] =
                 Recorded(@, check.name, check.upstream, check.credential, check.passed)])
    <3>1. /\ check.stage = "commit"
          /\ (StillHolds /\ Commit(doc, outcome)) \/ published' = published
      BY <2>1 DEF CheckCommit
    <3>2. StillHolds /\ Commit(doc, outcome)
      BY <1>2, <3>1
    <3>3. Lists(Excused, doc)
      BY <3>1, <3>2, CheckDocument
    <3> HIDE DEF doc
    <3> QED
      BY <1>1, <1>2, <3>2, <3>3 DEF Commit
  <2>2. \A a, name : ~Check(a, name)
    BY <1>2 DEF Check
  <2>3. ~Abandon /\ \A credential, passed : ~Probed(credential, passed)
    BY <1>2 DEF Abandon, Probed
  <2> QED
    BY <1>8, <2>1, <2>2, <2>3 DEF CheckStep
<1> QED
  BY <1>4, <1>5, <1>6, <1>7, <1>8 DEF ChangesNext

\* Nothing but an administrator, or an import file without a list, makes a pool
\* serve every model; and a catalog brings no model back that was withdrawn
\* after it was asked for.
THEOREM SpecPoolsDeclareWhatTheyServe == ChangesSpec => PoolsDeclareWhatTheyServe
<1> DEFINE L == \A a \in Wildcards(published') \ (Wildcards(published) \cup WildcardImports) :
                  published' = Normalized([published EXCEPT !.accounts[a].enabled = TRUE])
           N == PollCommits => \A a \in Pools :
                  Declares(disk', a) \cap poll.withdrawn[a] \subseteq Declares(disk, a)
<1>1. DeclaredInv /\ BackedInv /\ [ChangesNext]_changesVars => [L]_changesVars
  BY WildcardStep DEF Excused
<1>2. DeclaredInv /\ BackedInv /\ [ChangesNext]_changesVars => [N]_changesVars
  <2> SUFFICES ASSUME DeclaredInv, BackedInv, ChangesNext, PollCommits, NEW a \in Pools
               PROVE  Declares(disk', a) \cap poll.withdrawn[a] \subseteq Declares(disk, a)
    OBVIOUS
  <2>1. PICK outcome \in Outcomes : PollCommit(outcome)
    BY PollEnds
  <2> DEFINE doc == Normalized(Discovered(published, Matching, poll.at))
  <2>2. Declares(doc, a) \cap poll.withdrawn[a] \subseteq Declares(published, a)
    BY <2>1, PollDocument DEF PollCommit
  <2>3. disk' = disk \/ (disk = published /\ Commit(doc, outcome))
    BY <2>1 DEF PollCommit, Matching
  <2> HIDE DEF doc
  <2>4. disk' = disk \/ (disk = published /\ disk' = doc)
    BY <2>3 DEF Commit
  <2> QED
    BY <2>2, <2>4
<1> QED
  BY <1>1, <1>2, SpecDeclaredInv, SpecBackedInv, PTL DEF ChangesSpec, PoolsDeclareWhatTheyServe

-----------------------------------------------------------------------------
(* What discovery and normalization make of exclusions.                    *)

Clear(a, m, credential, key) == {c \in Declarations : ~Barred(c, a, m, credential, key)}

\* Nothing known bars nothing.
LEMMA BlankClear ==
  ASSUME NEW a, NEW m, NEW credential, NEW key
  PROVE  Seq(Blank) \subseteq Seq(Clear(a, m, credential, key))
<1>1. Blank \subseteq Clear(a, m, credential, key)
  BY DEF Blank, Clear, Barred, Bars, Usable
<1> QED
  BY <1>1, PartLists

\* A list without a declaration that bars is a list of others.
LEMMA ClearLists ==
  ASSUME NEW caps \in Seq(Declarations), NEW a, NEW m, NEW credential, NEW key
  PROVE  caps \in Seq(Clear(a, m, credential, key)) <=> ~Barring(caps, a, m, credential, key)
<1>1. caps \in [1..Len(caps) -> Declarations] /\ Len(caps) \in Nat
  OBVIOUS
<1> DEFINE C == Clear(a, m, credential, key)
<1>2. ASSUME ~Barring(caps, a, m, credential, key) PROVE caps \in Seq(C)
  <2>1. \A i \in 1..Len(caps) : caps[i] \in C
    BY <1>1, <1>2 DEF Barring, Clear
  <2>2. caps \in [1..Len(caps) -> C]
    BY <1>1, <2>1
  <2> QED
    BY <1>1, <2>2, SeqDef
<1>3. ASSUME caps \in Seq(C) PROVE ~Barring(caps, a, m, credential, key)
  <2>1. \A i \in DOMAIN caps : caps[i] \in C
    BY <1>3
  <2> QED
    BY <2>1 DEF Barring, Clear
<1> QED
  BY <1>2, <1>3

\* What a channel declares is kept, and what is added bars nothing.
LEMMA ChannelBars ==
  ASSUME NEW existing \in Seq(Declarations), NEW inferred \in Seq(Blank),
         NEW a, NEW m, NEW credential, NEW key
  PROVE  Barring(MergedChannel(existing, inferred), a, m, credential, key)
           <=> Barring(existing, a, m, credential, key)
<1> DEFINE V == {v \in Seq(Declarations) : Barring(v, a, m, credential, key)}
           merged == MergedChannel(existing, inferred)
<1>0. Blank \subseteq Declarations
  BY DEF Blank
<1>1. merged \in Seq(Declarations)
  BY <1>0, PartLists, MergedChannelType
<1>2. ASSUME Barring(existing, a, m, credential, key) PROVE Barring(merged, a, m, credential, key)
  <2>1. \A v \in V : \A c \in Blank : Adding(v, c) \in V
    <3> SUFFICES ASSUME NEW v \in V, NEW c \in Blank PROVE Adding(v, c) \in V
      OBVIOUS
    <3>1. Append(v, c) \in Seq(Declarations) /\ Barring(Append(v, c), a, m, credential, key)
      BY <1>0, BarringAppend
    <3> QED
      BY <3>1 DEF Adding
  <2>2. existing \in V
    BY <1>2
  <2> HIDE DEF V, merged
  <2>3. merged \in V
    BY <2>1, <2>2, ChannelFold DEF merged
  <2> QED
    BY <2>3 DEF V
<1>3. ASSUME ~Barring(existing, a, m, credential, key)
      PROVE  ~Barring(merged, a, m, credential, key)
  <2> DEFINE C == Clear(a, m, credential, key)
  <2>1. existing \in Seq(C) /\ inferred \in Seq(C)
    BY <1>3, ClearLists, BlankClear
  <2> HIDE DEF C
  <2>2. merged \in Seq(C)
    BY <2>1, MergedChannelType
  <2> HIDE DEF merged
  <2> QED
    BY <1>1, <2>2, ClearLists DEF C
<1> QED
  BY <1>2, <1>3

\* Evidence that is preserved does not free what it bars: it is the same, or
\* it is a catalog's about a direct source, which bars nothing there.
LEMMA PreservedBars ==
  ASSUME NEW previous \in Declarations, NEW current \in Declarations,
         NEW a, NEW m, NEW credential, NEW key, Barred(current, a, m, credential, key),
         \/ a \notin Pools
         \/ current.evidence.status # "unsupported"
         \/ current.evidence = previous.evidence
  PROVE  Barred(Preserved(previous, current), a, m, credential, key)
<1>1. CASE Preserved(previous, current) = current
  BY <1>1
<1>2. CASE Preserved(previous, current) # current
  <2> DEFINE next == [current EXCEPT !.evidence = previous.evidence]
  <2>1. Preserved(previous, current) = next /\ current.evidence.source = "catalog"
    BY <1>2 DEF Preserved
  <2>2. /\ next.upstream = current.upstream /\ next.facts = current.facts
        /\ next.evidence = previous.evidence
    BY DEF Declarations
  <2> HIDE DEF next
  <2> QED
    BY <2>1, <2>2 DEF Barred, Bars
<1> QED
  BY <1>1, <1>2

\* A sync of a direct source frees nothing but what a catalog gave it.
LEMMA SyncedBars ==
  ASSUME NEW a, a \notin Pools, NEW P, NEW existing \in Seq(Backed(a, P)),
         NEW inferred \in Seq(Blank), NEW m, NEW credential, NEW key,
         Barring(existing, a, m, credential, key)
  PROVE  Barring(MergedSynced(existing, inferred), a, m, credential, key)
<1> DEFINE V == {v \in Seq(Backed(a, P)) : Barring(v, a, m, credential, key)}
<1>1. ASSUME NEW v \in V, NEW c \in Blank PROVE Syncing(v, c) \in V
  <2> DEFINE same == {i \in DOMAIN v : v[i].model = c.model /\ v[i].upstream = c.upstream}
             i == Max(same)
             renewed == IF v[i].evidence.status = "authored" \/ v[i].evidence.source = "catalog"
                        THEN [v[i] EXCEPT !.evidence = c.evidence] ELSE v[i]
             next == Preserved(v[i], renewed)
  <2>0. v \in Seq(Declarations) /\ c \in Declarations /\ Barring(v, a, m, credential, key)
    BY PartLists DEF Backed, Blank
  <2>1. Syncing(v, c) \in Seq(Backed(a, P))
    BY SyncingType
  <2>2. Syncing(v, c) \in {Append(v, c), [v EXCEPT ![i] = next]}
    BY DEF Syncing
  <2>3. Barring(Append(v, c), a, m, credential, key)
    BY <2>0, BarringAppend
  <2>4. ASSUME i \in DOMAIN v, Barred(v[i], a, m, credential, key)
        PROVE  Barred(next, a, m, credential, key)
    <3>1. v[i] \in Declarations
      BY <2>0, <2>4
    <3> HIDE DEF i, V
    <3>2. renewed \in Declarations /\ Barred(renewed, a, m, credential, key)
      <4> DEFINE w == [v[i] EXCEPT !.evidence = c.evidence]
      <4>1. w \in Declarations /\ w.upstream = v[i].upstream /\ w.facts = v[i].facts
        BY <2>0, <3>1, DeclarationFields DEF Declarations
      <4>2. CASE v[i].evidence.status = "authored" \/ v[i].evidence.source = "catalog"
        <5> HIDE DEF w
        <5>1. Barred(w, a, m, credential, key)
          BY <2>4, <4>1, <4>2 DEF Barred, Bars
        <5> QED
          BY <4>1, <4>2, <5>1 DEF w
      <4>3. CASE ~(v[i].evidence.status = "authored" \/ v[i].evidence.source = "catalog")
        BY <2>4, <3>1, <4>3
      <4> QED
        BY <4>2, <4>3
    <3> HIDE DEF renewed
    <3> QED
      BY <3>1, <3>2, PreservedBars
  <2> HIDE DEF next, i
  <2>5. Barring([v EXCEPT ![i] = next], a, m, credential, key)
    BY <2>0, <2>4, BarringChange
  <2> QED
    BY <2>1, <2>2, <2>3, <2>5
<1>2. existing \in V /\ \A v \in V : \A c \in Blank : Syncing(v, c) \in V
  BY <1>1
<1> HIDE DEF V
<1>3. MergedSynced(existing, inferred) \in V
  BY <1>2, SyncedFold
<1> QED
  BY <1>3 DEF V

\* A capability that a catalog renews bars what it did.
LEMMA ReplacingBars ==
  ASSUME NEW previous \in Declarations, NEW c \in Blank, previous.upstream = c.upstream,
         NEW a, NEW m, NEW credential, NEW key, Barred(previous, a, m, credential, key)
  PROVE  Barred(Replacing(previous, c), a, m, credential, key)
<1> DEFINE e == IF previous.evidence.status \in {"verified", "unsupported"}
                THEN previous.evidence ELSE c.evidence
           new == [c EXCEPT !.facts = previous.facts, !.evidence = e]
<1>1. c \in Declarations
  BY DEF Blank
<1>2. /\ new \in Declarations /\ new.facts = previous.facts /\ new.upstream = previous.upstream
      /\ new.evidence = e
  BY <1>1 DEF Declarations
<1>3. Replacing(previous, c) = Preserved(previous, new)
  BY <1>1 DEF Replacing, Declarations
<1>4. e.status = "unsupported" => e = previous.evidence
  BY DEF Blank, Usable
<1>5. previous.evidence.status = "unsupported" => e = previous.evidence
  OBVIOUS
<1> HIDE DEF new, e
<1>6. Barred(new, a, m, credential, key)
  BY <1>2, <1>5 DEF Barred, Bars
<1> QED
  BY <1>2, <1>3, <1>4, <1>6, PreservedBars

\* A sync of a pool frees nothing: every declaration stays where it is.
LEMMA ReconciledBars ==
  ASSUME NEW a, NEW P, NEW existing \in Seq(Backed(a, P)), NEW inferred \in Seq(Blank),
         NEW m, NEW credential, NEW key, Barring(existing, a, m, credential, key)
  PROVE  Barring(Reconciled(existing, inferred).caps, a, m, credential, key)
<1>1. PICK k \in DOMAIN existing : Barred(existing[k], a, m, credential, key)
  BY DEF Barring
<1> DEFINE W == Reconcilings(a, P, existing)
           V == {r \in W : k \in DOMAIN r.caps /\ Barred(r.caps[k], a, m, credential, key)}
<1>2. ASSUME NEW r \in V, NEW c \in Blank PROVE Reconciling(existing, r, c) \in V
  <2> DEFINE matches == Matches(existing, r.matched, c)
             i == Min(matches)
             next == Reconciling(existing, r, c)
             new == Replacing(existing[i], c)
  <2>1. next \in W
    BY ReconcilingType
  <2>2. /\ r.caps \in Seq(Backed(a, P)) /\ r.matched \in SUBSET DOMAIN existing
        /\ k \in DOMAIN r.caps /\ Barred(r.caps[k], a, m, credential, key)
    BY DEF Reconcilings
  <2>3. CASE matches = {}
    <3>1. next.caps = Append(r.caps, c)
      BY <2>3 DEF Reconciling, Reconcilings
    <3>2. k \in DOMAIN Append(r.caps, c) /\ Append(r.caps, c)[k] = r.caps[k]
      BY <2>2
    <3> QED
      BY <2>1, <2>2, <3>1, <3>2
  <2>4. CASE matches # {}
    <3>1. next.caps = [r.caps EXCEPT ![i] = new]
      BY <2>4 DEF Reconciling
    <3>2. i \in DOMAIN existing /\ existing[i].upstream = c.upstream
      <4>1. /\ matches \subseteq DOMAIN existing
            /\ \A j \in matches : existing[j].upstream = c.upstream
        BY DEF Matches
      <4>2. Len(existing) \in Nat /\ matches \in SUBSET (1..Len(existing))
        BY <4>1
      <4> HIDE DEF matches
      <4>3. i \in matches
        BY <2>4, <4>2, SmallestPosition
      <4> QED
        BY <4>1, <4>3
    <3> HIDE DEF i
    <3>3. existing[i] \in Declarations
      BY <3>2 DEF Backed
    <3>4. i = k => Barred(new, a, m, credential, key)
      BY <1>1, <3>2, <3>3, ReplacingBars
    <3> HIDE DEF new
    <3>5. k \in DOMAIN next.caps /\ next.caps[k] = IF k = i THEN new ELSE r.caps[k]
      BY <2>2, <3>1
    <3>6. Barred(next.caps[k], a, m, credential, key)
      <4> HIDE DEF next, W
      <4> QED
        BY <2>2, <3>4, <3>5
    <3> QED
      BY <2>1, <3>5, <3>6
  <2> QED
    BY <2>3, <2>4
<1>3. [caps |-> existing, matched |-> {}, moves |-> <<>>] \in V
  BY <1>1 DEF Reconcilings
<1>4. \A r \in V : \A c \in Blank : Reconciling(existing, r, c) \in V
  BY <1>2
<1> HIDE DEF V
<1>5. Reconciled(existing, inferred) \in V
  BY <1>3, <1>4, ReconciledFold
<1> QED
  BY <1>5 DEF V, Barring

\* An invalidation adds no exclusion, and takes none away that is about the
\* connection in use or about all of them.
LEMMA InvalidatedBars ==
  ASSUME NEW s \in Sources, NEW a, NEW m, NEW credential, NEW key
  PROVE  /\ Barring(Invalidated(s).caps, a, m, credential, key)
              => Barring(s.caps, a, m, credential, key)
         /\ key = s.key /\ Barring(s.caps, a, m, credential, key)
              => Barring(Invalidated(s).caps, a, m, credential, key)
<1> DEFINE Known(e) == IF (e.status = "verified" \/ e.key # Absent) /\ e.key # s.key
                       THEN [e EXCEPT !.status = "unknown"] ELSE e
           Cap(c) == [c EXCEPT !.evidence = Known(c.evidence),
                               !.facts = {Known(f) : f \in c.facts}]
           caps == [i \in DOMAIN s.caps |-> Cap(s.caps[i])]
<1>1. s.caps \in Seq(Declarations)
  BY DEF Sources
<1>2. \A f \in Facts : /\ Known(f).status = "unsupported" => Known(f) = f
                       /\ f.status = "unsupported" /\ f.key \in {Absent, s.key} => Known(f) = f
  BY DEF Facts
<1>3. \A e \in Evidences :
        /\ Known(e).status = "unsupported" => Known(e) = e
        /\ e.status = "unsupported" /\ e.key \in {Absent, s.key} => Known(e) = e
  BY DEF Evidences
<1>4. ASSUME NEW c \in Declarations
      PROVE  /\ Barred(Cap(c), a, m, credential, key) => Barred(c, a, m, credential, key)
             /\ key = s.key /\ Barred(c, a, m, credential, key)
                  => Barred(Cap(c), a, m, credential, key)
  <2> DEFINE facts == {Known(f) : f \in c.facts}
             e == Known(c.evidence)
             d == [c EXCEPT !.evidence = e, !.facts = facts]
  <2>1. c.facts \in SUBSET Facts /\ c.evidence \in Evidences
    BY DEF Declarations
  <2>2. \A f \in facts : f.status = "unsupported" => f \in c.facts
    BY <1>2, <2>1
  <2>3. \A f \in c.facts : f.status = "unsupported" /\ f.key \in {Absent, s.key} => f \in facts
    BY <1>2, <2>1
  <2>4. /\ e.status = "unsupported" => e = c.evidence
        /\ c.evidence.status = "unsupported" /\ c.evidence.key \in {Absent, s.key}
             => e = c.evidence
    BY <1>3, <2>1
  <2> HIDE DEF facts, e
  <2>5. d.facts = facts /\ d.upstream = c.upstream /\ d.evidence = e
    BY DEF Declarations
  <2> HIDE DEF d
  <2>6. Barred(d, a, m, credential, key) => Barred(c, a, m, credential, key)
    BY <2>2, <2>4, <2>5 DEF Barred, Bars
  <2>7. key = s.key /\ Barred(c, a, m, credential, key) => Barred(d, a, m, credential, key)
    BY <2>3, <2>4, <2>5 DEF Barred, Bars
  <2>8. d = Cap(c)
    BY DEF d, e, facts
  <2> QED
    BY <2>6, <2>7, <2>8
<1> HIDE DEF Known
<1>5. Invalidated(s) = [s EXCEPT !.caps = caps]
  BY DEF Invalidated, Known
<1> HIDE DEF Cap
<1>6. Invalidated(s).caps = caps
  BY <1>5 DEF Sources
<1>7. DOMAIN caps = DOMAIN s.caps /\ \A i \in DOMAIN s.caps : s.caps[i] \in Declarations
  BY <1>1
<1>8. \A i \in DOMAIN s.caps : caps[i] = Cap(s.caps[i])
  OBVIOUS
<1> HIDE DEF caps
<1> QED
  BY <1>4, <1>6, <1>7, <1>8 DEF Barring

\* A normalization adds no exclusion, and takes none away that is about the
\* connection in use or about all of them.
LEMMA NormalizedExcludes ==
  ASSUME NEW aliases, NEW P, NEW cfg \in BackedSettings(aliases, P), NEW a \in Accounts,
         NEW m, NEW credential, NEW key
  PROVE  /\ Excludes(Normalized(cfg), a, m, credential, key) => Excludes(cfg, a, m, credential, key)
         /\ /\ Excludes(cfg, a, m, credential, key)
            /\ Configured(Normalized(cfg), a) => Normalized(cfg).accounts[a].key = key
            => Excludes(Normalized(cfg), a, m, credential, key)
<1> DEFINE s == cfg.accounts[a]
           filled == IF a \in Pools /\ s.caps = <<>>
                     THEN [s EXCEPT !.caps = InferredCodex(s.models)] ELSE s
<1>1. Normalized(cfg).accounts[a] = IF s = Absent THEN Absent ELSE Invalidated(filled)
  BY DEF Normalized, BackedSettings, Settings
<1>2. s # Absent => s \in BackedSources(a, P)
  BY DEF BackedSettings, Configured
<1>3. Configured(Normalized(cfg), a) <=> Configured(cfg, a)
  BY NormalizedAccounts
<1> HIDE DEF s
<1>4. ASSUME s # Absent
      PROVE  /\ filled \in Sources /\ Invalidated(filled).key = filled.key
             /\ Barring(filled.caps, a, m, credential, key)
                  <=> Barring(s.caps, a, m, credential, key)
  <2>1. s \in Sources /\ s.models \in SUBSET Models /\ s \in BackedSources(a, P)
    BY <1>2, <1>4, SourceFields
  <2> DEFINE blank == InferredCodex(s.models)
  <2>2. blank \in Seq(Blank)
    BY <2>1, InferredCodexType
  <2>3. ~Barring(blank, a, m, credential, key)
    <3>1. blank \in Seq(Clear(a, m, credential, key)) /\ blank \in Seq(Declarations)
      BY <2>2, BlankClear, PartLists DEF Blank
    <3> HIDE DEF blank
    <3> QED
      BY <3>1, ClearLists
  <2> HIDE DEF blank
  <2>4. [s EXCEPT !.caps = blank] \in Sources /\ [s EXCEPT !.caps = blank].caps = blank
    <3>1. [s EXCEPT !.caps = blank] \in BackedSources(a, P)
      BY <2>1, FilledType DEF blank
    <3> QED
      BY <2>1, <3>1, SourceFields DEF Sources
  <2>5. s.caps = <<>> => ~Barring(s.caps, a, m, credential, key)
    BY DEF Barring
  <2>6. filled \in Sources
    BY <2>1, <2>4 DEF blank
  <2>7. Barring(filled.caps, a, m, credential, key) <=> Barring(s.caps, a, m, credential, key)
    BY <2>3, <2>4, <2>5 DEF blank
  <2> HIDE DEF filled
  <2>8. \E caps : Invalidated(filled) = [filled EXCEPT !.caps = caps]
    BY Zenon DEF Invalidated
  <2>9. Invalidated(filled).key = filled.key
    BY <2>6, <2>8 DEF Sources
  <2> QED
    BY <2>6, <2>7, <2>9
<1> HIDE DEF filled
<1>5. ASSUME s # Absent
      PROVE  /\ Barring(Invalidated(filled).caps, a, m, credential, key)
                  => Barring(s.caps, a, m, credential, key)
             /\ /\ Barring(s.caps, a, m, credential, key)
                /\ Invalidated(filled).key = key
                => Barring(Invalidated(filled).caps, a, m, credential, key)
  BY <1>4, <1>5, InvalidatedBars
<1> QED
  BY <1>1, <1>3, <1>5, BarringExcludes DEF Configured, s

\* One account is exchanged: what the others exclude is as before.
LEMMA ExcludesSet ==
  ASSUME NEW aliases, NEW cfg \in Settings(aliases), NEW a \in Accounts, NEW new, new # Absent,
         NEW b \in Accounts, NEW m, NEW credential, NEW key
  PROVE  Excludes([cfg EXCEPT !.accounts[a] = new], b, m, credential, key) <=>
           IF b = a THEN Barring(new.caps, a, m, credential, key)
           ELSE Excludes(cfg, b, m, credential, key)
<1> DEFINE next == [cfg EXCEPT !.accounts[a] = new]
<1>1. next.accounts[a] = new /\ \A c \in Accounts : c # a => next.accounts[c] = cfg.accounts[c]
  BY OtherAccounts
<1> HIDE DEF next
<1>2. Excludes(next, b, m, credential, key) <=>
        IF b = a THEN Barring(new.caps, a, m, credential, key)
        ELSE Excludes(cfg, b, m, credential, key)
  BY <1>1, BarringExcludes DEF Configured
<1> QED
  BY <1>2 DEF next

\* A pool of which models are withdrawn excludes what it did of those that
\* remain, and nothing else.
LEMMA WithdrawnExcludes ==
  ASSUME NEW aliases, NEW P, NEW cfg \in BackedSettings(aliases, P), NEW a \in Accounts,
         Configured(cfg, a), NEW models \in SUBSET Models, NEW m, NEW credential, NEW key
  PROVE  LET was == Barring(cfg.accounts[a].caps, a, m, credential, key)
             new == Withdrawn(cfg, a, models)
             is == Barring(new.caps, a, m, credential, key) IN
         /\ is => was
         /\ was /\ m \in models => is
         /\ was /\ m \in new.models => is
<1> DEFINE old == cfg.accounts[a]
           D == {c \in ToSet(old.caps) : c.upstream \in models}
           rest == Among(old.caps, D)
           caps == MergedChannel(rest, InferredCodex(models))
           enabled == old.enabled /\ models # {}
           new == [old EXCEPT !.models = models, !.enabled = enabled, !.caps = caps]
           off == [old EXCEPT !.enabled = FALSE]
<1>1. old \in Sources
  BY SourceFields DEF BackedSettings
<1>2. Withdrawn(cfg, a, models) \in {new, off}
  BY DEF Withdrawn
<1> HIDE DEF old
<1>3. old.caps \in Seq(Declarations)
  BY <1>1 DEF Sources
<1>4. rest \in Seq(Declarations)
  <2>1. rest \in Seq(Declarations \cap D)
    BY <1>3, AmongType
  <2> HIDE DEF rest, D
  <2> QED
    BY <2>1, PartLists
<1>5. ASSUME Barring(rest, a, m, credential, key) PROVE Barring(old.caps, a, m, credential, key)
  <2> SUFFICES ASSUME ~Barring(old.caps, a, m, credential, key) PROVE FALSE
    OBVIOUS
  <2> DEFINE C == Clear(a, m, credential, key)
  <2>1. old.caps \in Seq(C)
    BY <1>3, ClearLists
  <2> HIDE DEF C, D
  <2>2. rest \in Seq(C \cap D)
    BY <2>1, AmongType
  <2> HIDE DEF rest
  <2>3. rest \in Seq(C)
    BY <2>2, PartLists
  <2> QED
    BY <1>4, <1>5, <2>3, ClearLists DEF C
<1>6. ASSUME Barring(old.caps, a, m, credential, key), m \in models
      PROVE  Barring(rest, a, m, credential, key)
  <2>1. PICK i \in DOMAIN old.caps : Barred(old.caps[i], a, m, credential, key)
    BY <1>6 DEF Barring
  <2>2. old.caps[i] \in D
    BY <1>6, <2>1 DEF ToSet, Barred
  <2> HIDE DEF D
  <2>3. \E k \in DOMAIN rest : rest[k] = old.caps[i]
    <3>1. /\ Among(old.caps, D) \in Seq(Declarations \cap D)
          /\ \A n \in DOMAIN old.caps : old.caps[n] \in D =>
               \E k \in DOMAIN Among(old.caps, D) : Among(old.caps, D)[k] = old.caps[n]
      BY <1>3, AmongType
    <3> QED
      BY <2>2, <3>1
  <2> QED
    BY <2>1, <2>3 DEF Barring
<1> HIDE DEF rest
<1>7. Barring(caps, a, m, credential, key) <=> Barring(rest, a, m, credential, key)
  BY <1>4, InferredCodexType, ChannelBars
<1> HIDE DEF caps
<1>8. new.models = models /\ new.caps = caps /\ off.models = old.models /\ off.caps = old.caps
  BY <1>1 DEF Sources
<1> HIDE DEF new, off
<1> QED
  BY <1>2, <1>5, <1>6, <1>7, <1>8 DEF old

\* It declares the models that remain, or those it did.
LEMMA WithdrawnModels ==
  ASSUME NEW aliases, NEW P, NEW cfg \in BackedSettings(aliases, P), NEW a \in Accounts,
         Configured(cfg, a), NEW models
  PROVE  Withdrawn(cfg, a, models).models \in {models, cfg.accounts[a].models}
<1> DEFINE old == cfg.accounts[a]
           rest == Among(old.caps, {c \in ToSet(old.caps) : c.upstream \in models})
           caps == MergedChannel(rest, InferredCodex(models))
           enabled == old.enabled /\ models # {}
           new == [old EXCEPT !.models = models, !.enabled = enabled, !.caps = caps]
           off == [old EXCEPT !.enabled = FALSE]
<1>1. old \in Sources
  BY SourceFields DEF BackedSettings
<1>2. Withdrawn(cfg, a, models) \in {new, off}
  BY DEF Withdrawn
<1> HIDE DEF old, caps, enabled
<1>3. new.models = models /\ off.models = old.models
  BY <1>1 DEF Sources
<1> QED
  BY <1>2, <1>3 DEF old

\* A withdrawal that goes through the accounts leaves a model excluded that is
\* still declared, or excludes nothing that was not.
LEMMA ReconciliationExcludes ==
  ASSUME NEW aliases, NEW P, NEW cfg \in BackedSettings(aliases, P), NEW available,
         NEW models \in SUBSET Models, NEW a \in Accounts, NEW m, NEW credential, NEW key
  PROVE  LET doc == Reconciliation(cfg, available, models) IN
         /\ Excludes(doc, a, m, credential, key) => Excludes(cfg, a, m, credential, key)
         /\ Excludes(cfg, a, m, credential, key) /\ m \in Declares(doc, a) =>
              Excludes(doc, a, m, credential, key)
<1> DEFINE Ex(c) == Excludes(c, a, m, credential, key)
           catalog == PoolCatalog(a, available, models)
           V == {c \in BackedSettings(aliases, P) :
                   /\ Ex(c) => Ex(cfg)
                   /\ Ex(cfg) /\ m \in Declares(c, a) \cup catalog => Ex(c)
                   /\ Configured(c, a) <=> Configured(cfg, a)}
<1>1. ASSUME NEW v \in V, NEW b \in Accounts
      PROVE  Withdrawing(v, b, available, models) \in V
  <2> DEFINE cat == PoolCatalog(b, available, models)
             new == Withdrawn(v, b, cat)
             next == [v EXCEPT !.accounts[b] = new]
  <2>1. cat \in SUBSET Models
    BY InScopeType DEF PoolCatalog
  <2>2. CASE b \notin Pools \/ ~Configured(v, b)
    BY <2>2 DEF Withdrawing
  <2>3. CASE ~(b \notin Pools \/ ~Configured(v, b))
    <3>1. v \in BackedSettings(aliases, P) /\ v \in Settings(aliases)
      BY DEF BackedSettings
    <3>2. new \in BackedSources(b, P) /\ new # Absent
      BY <2>1, <2>3, WithdrawnType, SourceFields
    <3>3. LET was == Barring(v.accounts[b].caps, b, m, credential, key)
              is == Barring(new.caps, b, m, credential, key) IN
          /\ is => was
          /\ was /\ m \in cat => is
          /\ was /\ m \in new.models => is
      BY <2>1, <2>3, WithdrawnExcludes
    <3>4. Ex(v) <=> Configured(v, a) /\ Barring(v.accounts[a].caps, a, m, credential, key)
      BY BarringExcludes
    <3>5. Withdrawing(v, b, available, models) = next
      BY <2>3 DEF Withdrawing
    <3> HIDE DEF new
    <3>6. next \in BackedSettings(aliases, P)
      BY <3>1, <3>2, AccountSet
    <3>7. Ex(next) <=> IF a = b THEN Barring(new.caps, b, m, credential, key) ELSE Ex(v)
      BY <3>1, <3>2, ExcludesSet
    <3>8. next.accounts[b] = new /\ \A c \in Accounts : c # b => next.accounts[c] = v.accounts[c]
      BY <3>1, OtherAccounts
    <3> HIDE DEF next
    <3>9. /\ Configured(next, a) <=> Configured(v, a)
          /\ Declares(next, a) = IF a = b THEN new.models ELSE Declares(v, a)
      BY <2>3, <3>2, <3>8 DEF Configured, Declares
    <3>10. /\ Ex(v) => Ex(cfg)
           /\ Ex(cfg) /\ m \in Declares(v, a) \cup catalog => Ex(v)
           /\ Configured(v, a) <=> Configured(cfg, a)
      OBVIOUS
    <3>11. a = b => catalog = cat
      OBVIOUS
    <3> HIDE DEF Ex, catalog, cat
    <3>12. CASE a = b
      <4>1. m \in new.models => m \in cat \/ m \in Declares(v, a)
        BY <2>1, <2>3, <3>1, <3>12, WithdrawnModels DEF new, Declares, cat
      <4> QED
        BY <2>3, <3>3, <3>4, <3>5, <3>6, <3>7, <3>9, <3>10, <3>11, <3>12, <4>1
    <3>13. CASE a # b
      BY <3>5, <3>6, <3>7, <3>9, <3>10, <3>13
    <3> QED
      BY <3>12, <3>13
  <2> QED
    BY <2>2, <2>3
<1>2. \A v \in V : \A b \in Accounts : Withdrawing(v, b, available, models) \in V
  BY <1>1
<1>3. cfg \in V /\ AccountOrder \in Seq(Accounts)
  BY SettingsAssumption
<1> HIDE DEF V
<1>4. Reconciliation(cfg, available, models) \in V
  BY <1>2, <1>3, ReconciliationFold
<1> QED
  BY <1>4 DEF V

\* A credential that is announced frees nothing.
LEMMA EnsuredExcludes ==
  ASSUME NEW aliases, NEW P, NEW cfg \in BackedSettings(aliases, P), NEW provider,
         NEW models \in SUBSET Models, Ensured(cfg, provider, models) # Absent,
         NEW b \in Accounts,
         NEW m, NEW credential, NEW key, Excludes(cfg, b, m, credential, key)
  PROVE  Excludes(Ensured(cfg, provider, models), b, m, credential, key)
<1> DEFINE a == PoolFor(cfg, provider)
           more == InScope(a, models)
           old == cfg.accounts[a]
           all == old.models \cup more
           blank == InferredCodex(all)
           caps == MergedChannel(old.caps, blank)
           announced == [old EXCEPT !.models = all, !.caps = caps]
           first == [enabled |-> TRUE, key |-> NewKey, models |-> models,
                     caps |-> InferredCodex(models)]
<1>1. a # Absent => a \in Accounts /\ Configured(cfg, a)
  BY PoolForType
<1>2. cfg \in Settings(aliases)
  BY DEF BackedSettings
<1>3. CASE a # Absent
  <2>1. Ensured(cfg, provider, models) = [cfg EXCEPT !.accounts[a] = announced]
    BY <1>3 DEF Ensured
  <2>2. a \in Accounts /\ Configured(cfg, a) /\ old \in BackedSources(a, P)
    BY <1>1, <1>3 DEF BackedSettings
  <2>3. Excludes(cfg, a, m, credential, key) <=> Barring(old.caps, a, m, credential, key)
    BY <2>2, BarringExcludes
  <2> HIDE DEF old, more, a
  <2>4. all \in SUBSET Models
    BY <2>2, SourceFields, InScopeType DEF more
  <2> HIDE DEF all
  <2>5. blank \in Seq(Blank) /\ blank \in Seq(Backed(a, P))
    BY <2>4, InferredCodexType, BlankBacked, PartLists
  <2>6. old \in Sources /\ old.caps \in Seq(Declarations) /\ old.caps \in Seq(Backed(a, P))
    BY <2>2, SourceFields DEF Sources
  <2> HIDE DEF blank
  <2>7. caps \in Seq(Backed(a, P))
    BY <2>5, <2>6, MergedChannelType
  <2>8. Barring(caps, a, m, credential, key) <=> Barring(old.caps, a, m, credential, key)
    BY <2>5, <2>6, ChannelBars
  <2> HIDE DEF caps
  <2>9. announced \in BackedSources(a, P)
    BY <2>4, <2>6, <2>7, SourceChanged, Zenon
  <2>10. announced # Absent /\ announced.caps = caps
    <3>1. announced.caps = caps
      BY <2>6 DEF Sources
    <3> QED
      BY <2>9, <3>1, SourceFields
  <2> HIDE DEF announced
  <2> QED
    BY <1>2, <2>1, <2>2, <2>3, <2>8, <2>10, ExcludesSet
<1>4. CASE a = Absent
  <2>1. /\ Ensured(cfg, provider, models) = [cfg EXCEPT !.accounts[Shared] = first]
        /\ ~Configured(cfg, Shared)
    BY <1>4 DEF Ensured
  <2>2. b # Shared
    BY <2>1 DEF Excludes
  <2>3. first \in BackedSources(Shared, P)
    BY InferredCodexType, BlankBacked, PartLists, SourceMade, ChangesAssumption
  <2> HIDE DEF first
  <2>4. first # Absent /\ Shared \in Accounts
    BY <2>3, SourceFields, SettingsAssumption
  <2>5. Excludes([cfg EXCEPT !.accounts[Shared] = first], b, m, credential, key)
          <=> Excludes(cfg, b, m, credential, key)
    BY <1>2, <2>2, <2>4, ExcludesSet
  <2> QED
    BY <2>1, <2>5
<1> QED
  BY <1>3, <1>4

\* Nor does it change a connection.
LEMMA EnsuredKey ==
  ASSUME NEW aliases, NEW P, NEW cfg \in BackedSettings(aliases, P), NEW provider,
         NEW models \in SUBSET Models, Ensured(cfg, provider, models) # Absent,
         NEW b \in Accounts, Configured(cfg, b)
  PROVE  /\ Configured(Ensured(cfg, provider, models), b)
         /\ Ensured(cfg, provider, models).accounts[b].key = cfg.accounts[b].key
<1> DEFINE a == PoolFor(cfg, provider)
           more == InScope(a, models)
           old == cfg.accounts[a]
           all == old.models \cup more
           caps == MergedChannel(old.caps, InferredCodex(all))
           announced == [old EXCEPT !.models = all, !.caps = caps]
           first == [enabled |-> TRUE, key |-> NewKey, models |-> models,
                     caps |-> InferredCodex(models)]
<1>1. cfg \in Settings(aliases) /\ Shared \in Accounts
  BY SettingsAssumption DEF BackedSettings
<1>2. CASE a # Absent
  <2>1. a \in Accounts /\ Configured(cfg, a)
    BY <1>2, PoolForType
  <2>2. Ensured(cfg, provider, models) = [cfg EXCEPT !.accounts[a] = announced]
    BY <1>2 DEF Ensured
  <2>3. old \in BackedSources(a, P)
    BY <2>1 DEF BackedSettings
  <2> HIDE DEF old, a
  <2>4. all \in SUBSET Models
    BY <2>3, SourceFields, InScopeType
  <2> HIDE DEF all
  <2>5. caps \in Seq(Backed(a, P)) /\ old \in Sources
    BY <2>3, <2>4, SourceFields, InferredCodexType, BlankBacked, PartLists, MergedChannelType
  <2> HIDE DEF caps
  <2>6. announced \in BackedSources(a, P)
    BY <2>4, <2>5, SourceChanged, Zenon
  <2>7. announced # Absent /\ announced.key = old.key
    <3>1. announced.key = old.key
      BY <2>5 DEF Sources
    <3> QED
      BY <2>6, <3>1, SourceFields
  <2> HIDE DEF announced
  <2> QED
    BY <1>1, <2>1, <2>2, <2>7, OtherAccounts DEF Configured, old
<1>3. CASE a = Absent
  <2>1. /\ Ensured(cfg, provider, models) = [cfg EXCEPT !.accounts[Shared] = first]
        /\ ~Configured(cfg, Shared)
    BY <1>3 DEF Ensured
  <2> HIDE DEF first
  <2> QED
    BY <1>1, <2>1, OtherAccounts DEF Configured
<1> QED
  BY <1>2, <1>3

\* An import file is about one account.
LEMMA WithImportExcludes ==
  ASSUME NEW aliases, NEW P, NEW cfg \in BackedSettings(aliases, P), NEW upsert,
         Imported.caps \in Seq(Backed(Imported.account, P)),
         NEW b \in Accounts, b # Imported.account, NEW m, NEW credential, NEW key
  PROVE  LET doc == WithImport(cfg, upsert) IN
         /\ Excludes(cfg, b, m, credential, key)
         /\ Configured(doc, b) => doc.accounts[b].key = key
         => Excludes(doc, b, m, credential, key)
<1> DEFINE a == Imported.account
           key0 == IF Configured(cfg, a) THEN cfg.accounts[a].key ELSE NewKey
           new == [enabled |-> TRUE, models |-> Imported.models, caps |-> Imported.caps,
                   key |-> key0]
           set == [cfg EXCEPT !.accounts[a] = new]
<1>1. a \in Accounts /\ Imported.models \in SUBSET Models
  BY ChangesAssumption
<1>2. WithImport(cfg, upsert) \in {cfg, Normalized(set)}
  BY DEF WithImport
<1>3. key0 \in Keys
  BY <1>1, SourceFields, ChangesAssumption DEF BackedSettings
<1> HIDE DEF key0
<1>4. new \in BackedSources(a, P)
  BY <1>1, <1>3, SourceMade
<1> HIDE DEF new, a
<1>4a. new # Absent /\ cfg \in Settings(aliases)
  BY <1>4, SourceFields DEF BackedSettings
<1>5. set \in BackedSettings(aliases, P)
  BY <1>1, <1>4, AccountSet
<1>6. Excludes(set, b, m, credential, key) <=> Excludes(cfg, b, m, credential, key)
  BY <1>1, <1>4a, ExcludesSet DEF a
<1> HIDE DEF set
<1>7. /\ Excludes(set, b, m, credential, key)
      /\ Configured(Normalized(set), b) => Normalized(set).accounts[b].key = key
      => Excludes(Normalized(set), b, m, credential, key)
  BY <1>5, NormalizedExcludes
<1> QED
  BY <1>2, <1>6, <1>7

-----------------------------------------------------------------------------
(* Discovery frees nothing.                                                *)

\* What an account declares after its catalog.
LEMMA CatalogBars ==
  ASSUME NEW a, NEW P, NEW s \in BackedSources(a, P), NEW catalog \in SUBSET Models,
         NEW at \in Int, NEW m, NEW credential, NEW key, Barring(s.caps, a, m, credential, key)
  PROVE  Barring(Synced(a, s, catalog, at).caps, a, m, credential, key)
<1> DEFINE inferred == Inferred(catalog, at)
           caps == IF a \in Pools THEN Reconciled(s.caps, inferred).caps
                   ELSE MergedSynced(s.caps, inferred)
           models == (IF a \in Pools THEN catalog ELSE s.models \cup catalog) \cup Upstreams(caps)
<1>1. s \in Sources /\ s.caps \in Seq(Backed(a, P)) /\ inferred \in Seq(Blank)
  BY SourceFields, InferredType
<1>2. Synced(a, s, catalog, at) = [s EXCEPT !.caps = caps, !.models = models]
  BY DEF Synced
<1> HIDE DEF inferred
<1>3. Barring(caps, a, m, credential, key)
  <2>1. a \notin Pools => Barring(MergedSynced(s.caps, inferred), a, m, credential, key)
    BY <1>1, SyncedBars
  <2>2. Barring(Reconciled(s.caps, inferred).caps, a, m, credential, key)
    BY <1>1, ReconciledBars
  <2> QED
    BY <2>1, <2>2
<1> HIDE DEF caps, models
<1>4. [s EXCEPT !.caps = caps, !.models = models].caps = caps
  BY <1>1 DEF Sources
<1> QED
  BY <1>2, <1>3, <1>4

\* Settings with the accounts in Q, in which b does not serve a model.
Excluding(aliases, P, Q, b, m, credential, key) ==
  {c \in BackedSettings(aliases, P) :
     (\A a \in Q : Configured(c, a)) /\ Excludes(c, b, m, credential, key)}

\* One account of Q is exchanged for one that frees nothing.
LEMMA ExcludingSet ==
  ASSUME NEW aliases, NEW P, NEW Q \in SUBSET Accounts, NEW b \in Accounts,
         NEW m, NEW credential, NEW key,
         NEW v \in Excluding(aliases, P, Q, b, m, credential, key), NEW a \in Q,
         NEW new \in BackedSources(a, P),
         Barring(v.accounts[a].caps, a, m, credential, key) =>
           Barring(new.caps, a, m, credential, key)
  PROVE  [v EXCEPT !.accounts[a] = new] \in Excluding(aliases, P, Q, b, m, credential, key)
<1> DEFINE next == [v EXCEPT !.accounts[a] = new]
<1>1. /\ v \in BackedSettings(aliases, P) /\ v \in Settings(aliases)
      /\ (\A c \in Q : Configured(v, c)) /\ Excludes(v, b, m, credential, key)
  BY DEF Excluding, BackedSettings
<1>2. /\ next \in BackedSettings(aliases, P)
      /\ \A c \in Accounts : Configured(v, c) => Configured(next, c)
  BY <1>1, AccountSet
<1>3. new # Absent
  BY SourceFields
<1>4. Excludes(next, b, m, credential, key) <=>
        IF b = a THEN Barring(new.caps, a, m, credential, key)
        ELSE Excludes(v, b, m, credential, key)
  BY <1>1, <1>3, ExcludesSet
<1>5. b = a => Barring(v.accounts[a].caps, a, m, credential, key)
  BY <1>1, BarringExcludes
<1> HIDE DEF next
<1>6. next \in Excluding(aliases, P, Q, b, m, credential, key)
  BY <1>1, <1>2, <1>4, <1>5 DEF Excluding
<1> QED
  BY <1>6 DEF next

\* Every catalog that was read is taken over.
LEMMA AllUpdatedExcluding ==
  ASSUME NEW aliases, NEW P, NEW Q \in SUBSET Accounts, NEW b \in Accounts,
         NEW m, NEW credential, NEW key,
         NEW cfg \in Excluding(aliases, P, Q, b, m, credential, key), NEW at \in Int,
         NEW catalogs, \A a \in Q : catalogs[a] \in SUBSET Models, NEW read \in Seq(Q)
  PROVE  AllUpdated(cfg, catalogs, at, read) \in Excluding(aliases, P, Q, b, m, credential, key)
<1> DEFINE V == Excluding(aliases, P, Q, b, m, credential, key)
<1>1. ASSUME NEW v \in V, NEW a \in Q
      PROVE  Updated(v, a, catalogs[a], at) \in V
  <2> DEFINE new == Synced(a, v.accounts[a], catalogs[a], at)
  <2>1. v.accounts[a] \in BackedSources(a, P)
    BY DEF Excluding, BackedSettings
  <2>2. /\ new \in BackedSources(a, P)
        /\ Barring(v.accounts[a].caps, a, m, credential, key) =>
             Barring(new.caps, a, m, credential, key)
    BY <2>1, SyncedType, CatalogBars
  <2>3. Updated(v, a, catalogs[a], at) = [v EXCEPT !.accounts[a] = new]
    BY DEF Updated
  <2> HIDE DEF new
  <2> QED
    BY <2>2, <2>3, ExcludingSet
<1>2. \A v \in V : \A a \in Q : Updated(v, a, catalogs[a], at) \in V
  BY <1>1
<1>3. cfg \in V
  OBVIOUS
<1> HIDE DEF V
<1>4. AllUpdated(cfg, catalogs, at, read) \in V
  BY <1>2, <1>3, UpdatedFold
<1> QED
  BY <1>4 DEF V

\* A change of name: the old name is added, or stays.
LEMMA MovedExcluding ==
  ASSUME NEW aliases, NEW P, NEW Q \in SUBSET Accounts, NEW b \in Accounts,
         NEW m, NEW credential, NEW key,
         NEW v \in Excluding(aliases, P, Q, b, m, credential, key), NEW a \in Q,
         NEW move \in MovesOf(a, P)
  PROVE  Moved(v, a, move) \in Excluding(aliases, P, Q, b, m, credential, key)
<1> DEFINE next == Moved(v, a, move)
           old == v.accounts[a]
           new == Aliased(old, move.legacy)
<1>1. /\ v \in BackedSettings(aliases, P) /\ v \in Settings(aliases)
      /\ (\A c \in Q : Configured(v, c)) /\ Excludes(v, b, m, credential, key)
  BY DEF Excluding, BackedSettings
<1>2. /\ next \in BackedSettings(aliases, P)
      /\ \A c \in Accounts : Configured(v, c) => Configured(next, c)
  BY <1>1, MovedType
<1>3. next.accounts = v.accounts \/ next = [v EXCEPT !.accounts[a] = new]
  <2>1. \A routes : [v EXCEPT !.routes = routes].accounts = v.accounts
    BY <1>1 DEF Settings
  <2> QED
    BY <2>1 DEF Moved
<1> HIDE DEF next
<1>4. ASSUME next.accounts = v.accounts
      PROVE  next \in Excluding(aliases, P, Q, b, m, credential, key)
  BY <1>1, <1>2, <1>4 DEF Excludes, Configured, Excluding
<1>5. ASSUME next = [v EXCEPT !.accounts[a] = new]
      PROVE  next \in Excluding(aliases, P, Q, b, m, credential, key)
  <2> DEFINE caps == IF \E i \in DOMAIN old.caps : old.caps[i].model = move.legacy.model
                     THEN old.caps ELSE Append(old.caps, move.legacy)
  <2>1. old \in BackedSources(a, P) /\ old \in Sources /\ move.legacy \in Backed(a, P)
    BY <1>1, SourceFields DEF BackedSettings, MovesOf
  <2> HIDE DEF old
  <2>2. /\ old.caps \in Seq(Backed(a, P)) /\ old.caps \in Seq(Declarations)
        /\ move.legacy \in Declarations /\ move.legacy.upstream \in Models
        /\ old.models \in SUBSET Models
    BY <2>1, SourceFields DEF Backed, Sources, Declarations
  <2>3. /\ caps \in Seq(Backed(a, P))
        /\ Barring(old.caps, a, m, credential, key) => Barring(caps, a, m, credential, key)
    BY <2>1, <2>2, BarringAppend
  <2> HIDE DEF caps
  <2> DEFINE models == old.models \cup {move.legacy.upstream}
  <2>4. new = [old EXCEPT !.caps = caps, !.models = models]
    BY DEF Aliased, caps
  <2>4a. models \in SUBSET Models
    BY <2>2
  <2> HIDE DEF models
  <2>5. [old EXCEPT !.caps = caps, !.models = models] \in BackedSources(a, P)
    BY <2>1, <2>3, <2>4a, SourceChanged, Zenon
  <2>6. new.caps = caps /\ new \in BackedSources(a, P)
    BY <2>1, <2>4, <2>5 DEF Sources
  <2> HIDE DEF new
  <2> QED
    BY <1>5, <2>3, <2>6, ExcludingSet DEF old
<1> QED
  BY <1>3, <1>4, <1>5 DEF next

\* So do all of them.
LEMMA AllMovedExcluding ==
  ASSUME NEW aliases, NEW P, NEW Q \in SUBSET Accounts, NEW b \in Accounts,
         NEW m, NEW credential, NEW key,
         NEW first \in Excluding(aliases, P, Q, b, m, credential, key),
         NEW moves \in Seq(AccountMoves(Q, P))
  PROVE  AllMoved(first, moves) \in Excluding(aliases, P, Q, b, m, credential, key)
<1> DEFINE V == Excluding(aliases, P, Q, b, m, credential, key)
           M == AccountMoves(Q, P)
<1>1. ASSUME NEW v \in V, NEW x \in M
      PROVE  Moved(v, x.account, x.move) \in V
  <2>1. x.account \in Q /\ x.move \in MovesOf(x.account, P)
    BY DEF AccountMoves
  <2> HIDE DEF M
  <2> QED
    BY <2>1, MovedExcluding
<1>2. \A v \in V : \A x \in M : Moved(v, x.account, x.move) \in V
  BY <1>1
<1>3. first \in V /\ moves \in Seq(M)
  OBVIOUS
<1> HIDE DEF V, M
<1>4. AllMoved(first, moves) \in V
  BY <1>2, <1>3, MovedFold
<1> QED
  BY <1>4 DEF V

\* What a poll makes of settings excludes what they did.
LEMMA DiscoveredExcludes ==
  ASSUME NEW aliases, NEW P, NEW cfg \in BackedSettings(aliases, P), NEW at \in Int,
         NEW catalogs, DOMAIN catalogs \subseteq Accounts,
         \A a \in DOMAIN catalogs : Configured(cfg, a) /\ catalogs[a] \in SUBSET Models,
         NEW b \in Accounts,
         NEW m, NEW credential, NEW key, Excludes(cfg, b, m, credential, key)
  PROVE  Excludes(Discovered(cfg, catalogs, at), b, m, credential, key)
<1> DEFINE Q == DOMAIN catalogs
           read == Among(AccountOrder, Q)
           updated == AllUpdated(cfg, catalogs, at, read)
           moves == AllMoves(cfg, catalogs, at, read)
<1>1. read \in Seq(Q)
  <2>1. read \in Seq(Accounts \cap Q)
    BY AmongType, SettingsAssumption
  <2>2. Accounts \cap Q = Q
    OBVIOUS
  <2> HIDE DEF read, Q
  <2> QED
    BY <2>1, <2>2
<1>2. Discovered(cfg, catalogs, at) \in {cfg, AllMoved(updated, moves)}
  BY DEF Discovered
<1>3. Q \in SUBSET Accounts /\ (\A a \in Q : Configured(cfg, a))
      /\ (\A a \in Q : catalogs[a] \in SUBSET Models)
  OBVIOUS
<1> HIDE DEF read, Q
<1>4. cfg \in Excluding(aliases, P, Q, b, m, credential, key)
  BY <1>3 DEF Excluding
<1>5. updated \in Excluding(aliases, P, Q, b, m, credential, key)
  BY <1>1, <1>3, <1>4, AllUpdatedExcluding
<1>6. moves \in Seq(AccountMoves(Q, P))
  BY <1>1, <1>3, AllMovesType
<1> HIDE DEF updated, moves
<1>7. AllMoved(updated, moves) \in Excluding(aliases, P, Q, b, m, credential, key)
  BY <1>3, <1>5, <1>6, AllMovedExcluding
<1> QED
  BY <1>2, <1>7 DEF Excluding

-----------------------------------------------------------------------------
(* Checks.                                                                 *)

\* Recording a check frees a model only of an exclusion of the very scope that
\* passed.
LEMMA RecordedBars ==
  ASSUME NEW a, NEW P, NEW s \in BackedSources(a, P), NEW name \in Profiles, NEW model \in Models,
         NEW scope \in Scopes, NEW passed \in BOOLEAN,
         NEW m, NEW credential, NEW key, Barring(s.caps, a, m, credential, key),
         ~Barring(Recorded(s, name, model, scope, passed).caps, a, m, credential, key)
  PROVE  /\ m = model /\ passed /\ scope \in {Absent, credential}
         /\ Barring(s.caps, a, model, scope, key)
<1> DEFINE I == {i \in 1..Len(s.caps) : s.caps[i].model = name /\ s.caps[i].upstream = model}
           k == IF I # {} THEN Min(I) ELSE 0
           blank == Capability(name, model, Evidence("unknown", "operator", 0))
           caps == IF k # 0 THEN s.caps ELSE Append(s.caps, blank)
           j == IF k # 0 THEN k ELSE Len(caps)
           old == {f \in caps[j].facts : f.credential = scope}
           new == [credential |-> scope, key |-> s.key,
                   status |-> IF passed THEN "verified" ELSE "unknown"]
           facts == (caps[j].facts \ old) \cup {new}
           cap == [caps[j] EXCEPT !.facts = facts]
           next == [caps EXCEPT ![j] = cap]
           result == IF Kept(old, passed) THEN caps ELSE next
<1>1. s \in Sources /\ s.caps \in Seq(Declarations)
  BY SourceFields DEF Sources
<1>2. PICK i \in DOMAIN s.caps : Barred(s.caps[i], a, m, credential, key)
  BY DEF Barring
<1>3. k # 0 => k \in 1..Len(s.caps) /\ s.caps[k].upstream = model
  <2> DEFINE n == Len(s.caps)
  <2>1. n \in Nat /\ I \in SUBSET (1..n)
    BY <1>1
  <2>2. I # {} => Min(I) \in I
    <3> HIDE DEF I, n
    <3> QED
      BY <2>1, SmallestPosition
  <2> QED
    BY <2>2
<1>4. Recorded(s, name, model, scope, passed) = [s EXCEPT !.caps = result]
  BY Zenon DEF Recorded, SelectInSeq
<1> HIDE DEF k
<1>5. caps \in Seq(Declarations) /\ i \in DOMAIN caps /\ caps[i] = s.caps[i]
  <2>1. k = 0 => i \in DOMAIN Append(s.caps, blank) /\ Append(s.caps, blank)[i] = s.caps[i]
    BY <1>1
  <2>2. blank \in Declarations
    BY CapabilityType DEF Blank, Evidence, Evidences, Connections
  <2> HIDE DEF blank
  <2> QED
    BY <1>1, <1>2, <2>1, <2>2
<1> HIDE DEF result
<1>6. ~Barring(result, a, m, credential, key)
  <2>1. [s EXCEPT !.caps = result].caps = result
    BY <1>1 DEF Sources
  <2> QED
    BY <1>4, <2>1
<1> HIDE DEF caps, j
<1>7. result = next /\ ~Kept(old, passed)
  BY <1>2, <1>5, <1>6 DEF result, Barring
<1>8. i = j /\ ~Barred(cap, a, m, credential, key)
  <2>1. DOMAIN next = DOMAIN caps /\ next[i] = IF i = j THEN cap ELSE caps[i]
    BY <1>5
  <2> HIDE DEF next, cap
  <2> QED
    BY <1>2, <1>5, <1>6, <1>7, <2>1 DEF Barring
<1>9. /\ caps[j] \in Declarations /\ Barred(caps[j], a, m, credential, key)
      /\ caps[j] = s.caps[i]
  BY <1>2, <1>5, <1>8
<1>10. cap.upstream = caps[j].upstream /\ cap.evidence = caps[j].evidence /\ cap.facts = facts
  <2> HIDE DEF facts
  <2> QED
    BY <1>9 DEF Declarations
<1> HIDE DEF cap
<1>11. PICK f \in caps[j].facts :
         /\ f.status = "unsupported" /\ f.key \in {Absent, key}
         /\ f.credential \in {Absent, credential} /\ f \notin facts
  BY <1>8, <1>9, <1>10 DEF Barred, Bars
<1>12. f \in old /\ f.credential = scope /\ passed
  BY <1>7, <1>11 DEF Kept
<1>13. caps[j].upstream = m
  BY <1>9 DEF Barred
<1>14. Barred(s.caps[i], a, m, scope, key)
  BY <1>9, <1>11, <1>12, <1>13 DEF Barred, Bars
<1>15. m = model
  <2>1. k # 0 => j = k
    BY DEF j
  <2>2. k = 0 => j = Len(Append(s.caps, blank)) /\ caps = Append(s.caps, blank)
    BY DEF j, caps
  <2>3. k = 0 => j = Len(s.caps) + 1
    BY <1>1, <2>2
  <2> QED
    BY <1>1, <1>2, <1>3, <1>8, <1>9, <1>13, <2>1, <2>3
<1> QED
  BY <1>2, <1>11, <1>12, <1>14, <1>15 DEF Barring

-----------------------------------------------------------------------------
(* Exclusions: the inductive invariant.                                    *)

\* What a job makes of settings excludes what they did on the connections of its
\* own, but for models that a change of a credential withdraws and the account
\* that an import replaces.  A change of a credential excludes nothing else.
Hands(kind, was, doc) ==
  \A a \in Accounts, m \in Models, credential \in Scopes, key \in Keys :
    /\ /\ Excludes(was, a, m, credential, key)
       /\ Configured(doc, a) => doc.accounts[a].key = key
       =>
         \/ Excludes(doc, a, m, credential, key)
         \/ kind = "change" /\ m \notin Declares(doc, a)
         \/ kind = "import" /\ a = Imported.account
    /\ kind = "change" /\ Excludes(doc, a, m, credential, key) =>
         Excludes(was, a, m, credential, key)

\* The settings a job hands over, and what the file may hold meanwhile.
ExcludedInv ==
  job.stage # "free" =>
    /\ Hands(job.kind, job.was, job.doc)
    /\ job.kind = "change" /\ job.stage # "ended" => disk \in {job.was, Normalized(job.doc)}

\* What a job is about.
About(j, kind, was, doc) == Has(j, "kind", kind) /\ Has(j, "was", was) /\ Has(j, "doc", doc)

\* It stays, whatever happens to the job.
LEMMA AboutKept ==
  ASSUME NEW j, NEW kind, NEW was, NEW doc, About(j, kind, was, doc)
  PROVE  /\ About(Abort(j), kind, was, doc) /\ About(Settled(j), kind, was, doc)
         /\ \A v : About(Ended(j, v), kind, was, doc)
<1>1. "kind" \in Lasting /\ "was" \in Lasting /\ "doc" \in Lasting
  BY DEF Lasting
<1> QED
  BY <1>1, JobKept DEF About

\* What the job at hand is about.
LEMMA AboutJob ==
  ASSUME ChangesInv, job.stage # "free"
  PROVE  About(job, job.kind, job.was, job.doc)
BY JobHeld DEF JobTypeInv, About, Has

\* A job goes on.
LEMMA ExcludedMoves ==
  ASSUME NEW kind, NEW was, NEW doc, Hands(kind, was, doc),
         job'.stage # "free" => About(job', kind, was, doc),
         kind = "change" => job'.stage \in {"free", "ended"} \/ disk' \in {was, Normalized(doc)}
  PROVE  ExcludedInv'
BY DEF ExcludedInv, About, Has

\* The steps of jobs.
LEMMA ExcludedJobs ==
  ASSUME ExcludedInv, BackedInv, ChangesInv, JobStep
  PROVE  ExcludedInv'
<1> DEFINE kind == job.kind
           was == job.was
           doc == job.doc
<1>1. job.stage # "free" /\ "failed" \in Outcomes
  BY DEF JobStep, Unlocked, Outcomes
<1>2. /\ Hands(kind, was, doc) /\ About(job, kind, was, doc)
      /\ kind = "change" /\ job.stage # "ended" => disk \in {was, Normalized(doc)}
  BY <1>1, AboutJob DEF ExcludedInv
<1>3. StagesInv(job) /\ DocumentsInv(job, published, disk) /\ Has(job, "doc", doc)
  BY <1>1, <1>2, JobHeld DEF JobInv, About
<1>4. doc \in BackedSettings(DOMAIN doc.routes, proven)
      /\ published \in BackedSettings(DOMAIN published.routes, proven)
  BY <1>1 DEF BackedInv, Backs
<1> HIDE DEF kind, was, doc
<1>5. ASSUME NEW outcome \in Outcomes,
             \/ Apply(outcome) \/ Inspect(outcome) \/ Snapshot(outcome) \/ Upload(outcome)
             \/ Restore(outcome) \/ RestoreStatus(outcome) \/ Verify(outcome)
             \/ RestoreConfig(outcome) \/ Expire \/ Return
      PROVE  ExcludedInv'
  <2>1. "kind" \in Lasting /\ "was" \in Lasting /\ "doc" \in Lasting
    BY DEF Lasting
  <2>2. ASSUME NEW x \in Lasting, NEW value, Has(job, x, value)
        PROVE  job'.stage = "free" \/ Has(job', x, value)
    BY <1>1, <1>5, <2>2, JobLasts
  <2>3. job'.stage = "free" \/ About(job', kind, was, doc)
    BY <1>2, <2>1, <2>2 DEF About
  <2>4. job'.stage \in {"free", "ended"} \/ (disk' = disk /\ job.stage # "ended")
    <3>1. RestoreConfig(outcome) => job'.stage = "ended"
      <4>1. \A v : Ended(job, v).stage = "ended"
        BY <1>1, JobHeld DEF JobTypeInv, Ended
      <4> QED
        BY <4>1 DEF RestoreConfig
    <3>2. Return => job'.stage = "free"
      BY DEF Return, Free
    <3>3. Apply(outcome) \/ Inspect(outcome) \/ Snapshot(outcome) \/ Upload(outcome)
            => disk' = disk /\ job.stage # "ended"
      BY DEF Apply, Inspect, Snapshot, Upload
    <3>4. Restore(outcome) \/ RestoreStatus(outcome) \/ Verify(outcome) \/ Expire
            => disk' = disk /\ job.stage # "ended"
      BY DEF Restore, RestoreStatus, Verify, Expire
    <3> QED
      BY <1>5, <3>1, <3>2, <3>3, <3>4
  <2> QED
    BY <1>2, <2>3, <2>4, ExcludedMoves
<1>6. ASSUME NEW outcome \in Outcomes, Save(outcome) PROVE ExcludedInv'
  <2>1. About(job', kind, was, doc)
    BY <1>2, <1>6, AboutKept DEF Save
  <2>2. disk' \in {disk, Normalized(doc)} /\ job.stage # "ended"
    BY <1>6 DEF Save, doc
  <2> QED
    BY <1>2, <2>1, <2>2, ExcludedMoves
<1>7. ASSUME NEW available \in SUBSET Providers, NEW models \in SUBSET Models,
             ReadCatalog(available, models)
      PROVE  ExcludedInv'
  <2> DEFINE new == Reconciliation(published, available, models)
             next == [job EXCEPT !.doc = new]
  <2>1. job.stage = "catalog" /\ disk' = disk /\ job' = Settled(next)
    BY <1>7 DEF ReadCatalog
  <2>2. disk = was /\ published = was /\ kind = "change"
    <3>1. kind \in {"change", "login", "import"}
      BY <1>1, JobHeld DEF JobTypeInv, kind
    <3> QED
      BY <1>3, <2>1, <3>1 DEF DocumentsInv, StagesInv, Forward, kind, was
  <2>3. Hands(kind, was, new)
    BY <1>4, <2>2, ReconciliationExcludes DEF Hands
  <2>4. About(next, kind, was, new)
    BY <1>2 DEF About, Has
  <2> HIDE DEF next, new
  <2>5. About(job', kind, was, new)
    BY <2>1, <2>4, AboutKept
  <2> QED
    BY <2>1, <2>2, <2>3, <2>5, ExcludedMoves
<1>8. ASSUME NEW models \in SUBSET Models, Ensure(models) PROVE ExcludedInv'
  <2> DEFINE provider == Head(SelectSeq(ProviderOrder, LAMBDA p : p \in job.providers))
             ensured == Ensured(doc, provider, models)
             new == IF ensured = Absent THEN doc ELSE ensured
             next == [job EXCEPT !.providers = @ \ {provider}, !.doc = new]
  <2>1. job.stage = "ensure" /\ job' = IF next.providers = {} THEN Settled(next) ELSE next
    BY <1>8 DEF Ensure, doc
  <2>2. kind = "import"
    <3>1. kind \in {"change", "login", "import"}
      BY <1>1, JobHeld DEF JobTypeInv, kind
    <3> QED
      BY <1>3, <2>1, <3>1 DEF StagesInv, Backward, kind
  <2>3. Hands(kind, was, new)
    <3> SUFFICES ASSUME NEW a \in Accounts, NEW m \in Models, NEW credential \in Scopes,
                        NEW key \in Keys,
                        Excludes(was, a, m, credential, key), a # Imported.account,
                        Configured(new, a) => new.accounts[a].key = key
                 PROVE  Excludes(new, a, m, credential, key)
      BY <2>2, Zenon DEF Hands
    <3> HIDE DEF provider
    <3>1. Configured(doc, a) => doc.accounts[a].key = key
      BY <1>4, EnsuredKey
    <3>2. Excludes(doc, a, m, credential, key)
      BY <1>2, <2>2, <3>1 DEF Hands
    <3> QED
      BY <1>4, <3>2, EnsuredExcludes
  <2>4. About(next, kind, was, new)
    BY <1>2 DEF About, Has
  <2> HIDE DEF next, new
  <2>5. About(job', kind, was, new)
    BY <2>1, <2>4, AboutKept
  <2> QED
    BY <2>2, <2>3, <2>5, ExcludedMoves
<1> QED
  BY <1>1, <1>5, <1>6, <1>7, <1>8 DEF JobStep

\* What a job begins with.
LEMMA ExcludedBegin ==
  ASSUME ExcludedInv, BackedInv, Unlocked,
         \/ \E f \in Files, wanted \in {"deleted", "disabled", "enabled"} : Change(f, wanted)
         \/ \E p \in Providers, models \in SUBSET Servable : Login(p, models)
         \/ \E upsert \in BOOLEAN : Import(upsert)
  PROVE  ExcludedInv'
<1>1. ASSUME NEW kind, NEW stage, NEW doc
      PROVE  About(Job(kind, stage, doc), kind, published, doc)
  BY DEF Job, About, Has
<1>2. published \in BackedSettings(DOMAIN published.routes, proven)
  BY DEF BackedInv, Backs
<1>3. ASSUME NEW f \in Files, NEW wanted \in {"deleted", "disabled", "enabled"}, Change(f, wanted)
      PROVE  ExcludedInv'
  <2>1. About(job', "change", published, published)
    <3> DEFINE first == Job("change", "apply", published)
    <3>1. About(first, "change", published, published)
      BY <1>1
    <3>2. job' = [first EXCEPT !.wanted = wanted, !.order = <<f>>]
      BY <1>3 DEF Change
    <3> HIDE DEF first
    <3> QED
      BY <3>1, <3>2 DEF About, Has
  <2>2. Hands("change", published, published)
    BY DEF Hands
  <2>3. disk' = published
    BY <1>3 DEF Change, MayChange
  <2> QED
    BY <2>1, <2>2, <2>3, ExcludedMoves
<1>4. ASSUME NEW p \in Providers, NEW models \in SUBSET Servable, Login(p, models)
      PROVE  ExcludedInv'
  <2> DEFINE doc == Ensured(published, p, models)
  <2>1. doc # Absent /\ models \in SUBSET Models
    BY <1>4, ServableModels DEF Login
  <2>2. Hands("login", published, doc)
    BY <1>2, <2>1, EnsuredExcludes DEF Hands
  <2>3. About(job', "login", published, doc)
    BY <1>1, <1>4 DEF Login
  <2> HIDE DEF doc
  <2> QED
    BY <2>2, <2>3, ExcludedMoves
<1>5. ASSUME NEW upsert \in BOOLEAN, Import(upsert) PROVE ExcludedInv'
  <2> DEFINE doc == WithImport(published, upsert)
  <2>1. Hands("import", published, doc)
    BY <1>2, WithImportExcludes DEF Hands, BackedInv
  <2>2. About(job', "import", published, doc)
    BY <1>1, <1>5 DEF Import, About, Has
  <2> HIDE DEF doc
  <2> QED
    BY <2>1, <2>2, ExcludedMoves
<1> QED
  BY <1>3, <1>4, <1>5

\* Between jobs there is nothing to hand over, and no other step touches a job.
LEMMA ExcludedStep ==
  ASSUME ExcludedInv, BackedInv, ChangesInv, [ChangesNext]_changesVars
  PROVE  ExcludedInv'
<1>1. ASSUME Unlocked, job' = job PROVE ExcludedInv'
  BY <1>1 DEF ExcludedInv, Unlocked
<1>2. ASSUME UNCHANGED <<job, disk>> PROVE ExcludedInv'
  BY <1>2 DEF ExcludedInv
<1>3. ASSUME NEW f \in Files, Adapter(f) PROVE ExcludedInv'
  <2>1. CASE job.stage = "free"
    BY <1>1, <1>3, <2>1 DEF Adapter, Unlocked
  <2>2. CASE job.stage # "free"
    <3>1. JobTypeInv(job)
      BY <2>2, JobHeld
    <3>2. PICK t : job' = [job EXCEPT !.touched = t]
      BY <1>3, <2>2 DEF Adapter, Unlocked
    <3>3. job'.kind = job.kind /\ job'.was = job.was /\ job'.doc = job.doc /\ job'.stage = job.stage
      BY <3>1, <3>2 DEF JobTypeInv
    <3> QED
      BY <1>3, <3>3 DEF Adapter, ExcludedInv
  <2> QED
    BY <2>1, <2>2
<1>4. ASSUME Administration PROVE ExcludedInv'
  <2>1. \A doc : Edited(doc) => job' = job
    BY DEF Edited
  <2>2. \A a : Switch(a) => job' = job
    BY <2>1 DEF Switch
  <2>3. \A a, key : RotateKey(a, key) => job' = job
    BY <2>1 DEF RotateKey
  <2>4. \A a, i, key : /\ ExcludeModel(a, i, key) => job' = job
                       /\ \A credential : Exclude(a, i, credential, key) => job' = job
    BY <2>1 DEF Exclude, ExcludeModel
  <2>5. Reload => job' = job
    BY DEF Reload
  <2> QED
    BY <1>1, <1>4, <2>2, <2>3, <2>4, <2>5, ExcludedBegin DEF Administration
<1>5. ASSUME PollStep PROVE ExcludedInv'
  <2>1. Poll \/ ReadAny => UNCHANGED <<job, disk>>
    BY DEF Poll, ReadAny, Read
  <2>2. \A outcome : PollCommit(outcome) => Unlocked /\ job' = job
    BY DEF PollCommit
  <2> QED
    BY <1>1, <1>2, <1>5, <2>1, <2>2 DEF PollStep
<1>6. ASSUME CheckStep PROVE ExcludedInv'
  <2>1. \A a, name : Check(a, name) => UNCHANGED <<job, disk>>
    BY DEF Check
  <2>2. \A credential, passed : Probed(credential, passed) => UNCHANGED <<job, disk>>
    BY DEF Probed
  <2>3. Abandon => UNCHANGED <<job, disk>>
    BY DEF Abandon
  <2>4. \A outcome : CheckCommit(outcome) => Unlocked /\ job' = job
    BY DEF CheckCommit
  <2> QED
    BY <1>1, <1>2, <1>6, <2>1, <2>2, <2>3, <2>4 DEF CheckStep
<1>7. UNCHANGED changesVars => UNCHANGED <<job, disk>>
  BY DEF changesVars
<1> QED
  BY <1>2, <1>3, <1>4, <1>5, <1>6, <1>7, ExcludedJobs DEF ChangesNext

\* What a job hands over excludes what its settings did, in every state.
THEOREM SpecExcludedInv == ChangesSpec => []ExcludedInv
<1>1. ChangesInit => ExcludedInv
  BY DEF ChangesInit, ExcludedInv, Free
<1>2. ExcludedInv /\ BackedInv /\ ChangesInv /\ [ChangesNext]_changesVars => ExcludedInv'
  BY ExcludedStep
<1> QED
  BY <1>1, <1>2, SpecBackedInv, SpecChangesInv, PTL DEF ChangesSpec

-----------------------------------------------------------------------------
(* Exclusions stand.                                                       *)

\* A model of an account is freed for a credential, on a connection that the
\* account has if it is still there.
Freed(a, m, credential, key) ==
  /\ Excludes(disk, a, m, credential, key) /\ ~Excludes(disk', a, m, credential, key)
  /\ Configured(disk', a) => disk'.accounts[a].key = key

\* Jobs free what is withdrawn, and imports the account they replace.
LEMMA JobsFree ==
  ASSUME ExcludedInv, BackedInv, ChangesInv, JobStep,
         NEW a \in Accounts, NEW m \in Models, NEW credential \in Scopes, NEW key \in Keys,
         Freed(a, m, credential, key)
  PROVE  m \notin Declares(disk', a) \/ (job.kind = "import" /\ a = Imported.account)
<1> DEFINE doc == Normalized(job.doc)
<1>1. job.stage # "free" /\ disk' # disk
  BY DEF JobStep, Unlocked, Freed
<1>2. /\ Hands(job.kind, job.was, job.doc)
      /\ job.kind = "change" /\ job.stage # "ended" => disk \in {job.was, doc}
      /\ DocumentsInv(job, published, disk) /\ StagesInv(job)
      /\ job.doc \in BackedSettings(DOMAIN job.doc.routes, proven)
  BY <1>1, JobHeld DEF ExcludedInv, JobInv, BackedInv, Backs
<1>3. /\ Excludes(doc, a, m, credential, key) => Excludes(job.doc, a, m, credential, key)
      /\ /\ Excludes(job.doc, a, m, credential, key)
         /\ Configured(doc, a) => doc.accounts[a].key = key
         => Excludes(doc, a, m, credential, key)
      /\ Declares(doc, a) = Declares(job.doc, a)
      /\ Configured(job.doc, a) =>
           Configured(doc, a) /\ doc.accounts[a].key = job.doc.accounts[a].key
  <2> DEFINE cfg == job.doc
             aliases == DOMAIN job.doc.routes
  <2>1. cfg \in BackedSettings(aliases, proven)
    BY <1>2
  <2> HIDE DEF cfg, aliases
  <2>2. /\ Excludes(Normalized(cfg), a, m, credential, key) => Excludes(cfg, a, m, credential, key)
        /\ /\ Excludes(cfg, a, m, credential, key)
           /\ Configured(Normalized(cfg), a) => Normalized(cfg).accounts[a].key = key
           => Excludes(Normalized(cfg), a, m, credential, key)
    BY <2>1, NormalizedExcludes
  <2>3. /\ Declares(Normalized(cfg), a) = Declares(cfg, a)
        /\ Configured(cfg, a) => /\ Configured(Normalized(cfg), a)
                                 /\ Normalized(cfg).accounts[a].key = cfg.accounts[a].key
    BY <2>1, NormalizedAccounts DEF Declares
  <2> QED
    BY <2>2, <2>3 DEF cfg
<1>4. \A outcome : Apply(outcome) \/ Inspect(outcome) \/ Snapshot(outcome) \/ Upload(outcome)
        => disk' = disk
  BY DEF Apply, Inspect, Snapshot, Upload
<1>5. \A outcome : Restore(outcome) \/ RestoreStatus(outcome) \/ Verify(outcome) => disk' = disk
  BY DEF Restore, RestoreStatus, Verify
<1>6. /\ Expire \/ Return => disk' = disk
      /\ \A available, models : ReadCatalog(available, models) \/ Ensure(models) => disk' = disk
  BY DEF Expire, Return, ReadCatalog, Ensure
<1>7. PICK outcome \in Outcomes : Save(outcome) \/ RestoreConfig(outcome)
  BY <1>1, <1>4, <1>5, <1>6 DEF JobStep
<1>8. CASE Save(outcome)
  <2>1. disk' = doc /\ job.stage = "save"
    BY <1>1, <1>8 DEF Save
  <2>2. disk = job.was
    BY <1>2, <2>1 DEF DocumentsInv, Forward
  <2> HIDE DEF doc
  <2>3. /\ Excludes(job.was, a, m, credential, key) /\ ~Excludes(doc, a, m, credential, key)
        /\ Configured(doc, a) => doc.accounts[a].key = key
    BY <2>1, <2>2 DEF Freed
  <2>4. Configured(job.doc, a) => job.doc.accounts[a].key = key
    BY <1>3, <2>3
  <2>5. ~Excludes(job.doc, a, m, credential, key)
    BY <1>3, <2>3
  <2> QED
    BY <1>2, <1>3, <2>1, <2>3, <2>4, <2>5 DEF Hands
<1>9. CASE RestoreConfig(outcome)
  <2>1. disk' = job.was /\ job.stage = "config"
    BY <1>1, <1>9 DEF RestoreConfig
  <2>2. job.kind = "change"
    BY <1>1, <1>2, <2>1, JobHeld DEF StagesInv, JobTypeInv
  <2>3. disk \in {job.was, doc}
    BY <1>2, <2>1, <2>2
  <2> HIDE DEF doc
  <2> QED
    BY <1>2, <1>3, <2>1, <2>2, <2>3 DEF Hands, Freed
<1> QED
  BY <1>7, <1>8, <1>9

\* What an administrator changes of an account frees nothing on the connection
\* it has then.
LEMMA EditsFreeNothing ==
  ASSUME BackedInv,
         NEW a \in Accounts, NEW m \in Models, NEW credential \in Scopes, NEW key \in Keys,
         \/ \E b \in Accounts : Switch(b)
         \/ \E b \in Accounts, k \in Keys : RotateKey(b, k)
         \/ \E b \in Accounts, k \in Connections : \E i \in Positions(b) :
              \/ ExcludeModel(b, i, k)
              \/ \E scope \in Scopes : Exclude(b, i, scope, k)
  PROVE  ~Freed(a, m, credential, key)
<1> SUFFICES ASSUME Freed(a, m, credential, key) PROVE FALSE
  OBVIOUS
<1>0. PICK b \in Accounts : \E new : HandEdit(b, new)
  BY HandEdits
<1>1. PICK new : HandEdit(b, new)
  BY <1>0
<1> DEFINE aliases == DOMAIN published.routes
           s == published.accounts[b]
           edit == [published EXCEPT !.accounts[b] = new]
<1>2. /\ published \in BackedSettings(aliases, proven) /\ published \in Settings(aliases)
      /\ new \in BackedSources(b, proven) /\ new # Absent /\ Configured(published, b)
      /\ Barring(s.caps, b, m, credential, new.key) => Barring(new.caps, b, m, credential, new.key)
  BY <1>1, SourceFields DEF HandEdit, BackedInv, Backs, BackedSettings
<1>3. Edited(edit)
  BY <1>1 DEF HandEdit
<1> HIDE DEF aliases, s
<1>4. edit \in BackedSettings(aliases, proven)
  BY <1>2, AccountSet
<1>5. edit.accounts[b] = new
  BY <1>2, OtherAccounts
<1>5a. Excludes(edit, a, m, credential, key) <=>
         IF a = b THEN Barring(new.caps, b, m, credential, key)
         ELSE Excludes(published, a, m, credential, key)
  BY <1>2, ExcludesSet
<1> HIDE DEF edit
<1>6. disk = published /\ disk' = Normalized(edit)
  BY <1>3 DEF Edited, MayChange
<1>7. Excludes(published, a, m, credential, key)
  BY <1>6 DEF Freed
<1>8. ~Excludes(edit, a, m, credential, key)
  BY <1>4, <1>6, NormalizedExcludes DEF Freed
<1>9. a = b /\ ~Barring(new.caps, b, m, credential, key)
  BY <1>5a, <1>7, <1>8
<1>10. key = new.key
  <2>1. Configured(edit, b) /\ edit.accounts[b].key = new.key
    BY <1>2, <1>5 DEF Configured
  <2>2. Configured(disk', b) /\ disk'.accounts[b].key = new.key
    BY <1>4, <1>6, <2>1, NormalizedAccounts
  <2> QED
    BY <1>9, <2>2 DEF Freed
<1>11. Barring(s.caps, b, m, credential, key)
  BY <1>7, <1>9, BarringExcludes DEF s
<1> QED
  BY <1>2, <1>9, <1>10, <1>11

\* A poll frees nothing.
LEMMA PollsFreeNothing ==
  ASSUME BackedInv, NEW outcome, PollCommit(outcome),
         NEW a \in Accounts, NEW m \in Models, NEW credential \in Scopes,
         NEW key \in Keys
  PROVE  ~Freed(a, m, credential, key)
<1> DEFINE aliases == DOMAIN published.routes
           found == Discovered(published, Matching, poll.at)
<1>1. published \in BackedSettings(aliases, proven) /\ poll.at \in Int
  BY DEF BackedInv, Backs, PollInv, PollCommit
<1>2. /\ DOMAIN Matching \subseteq Accounts
      /\ \A b \in DOMAIN Matching : Configured(published, b) /\ Matching[b] \in SUBSET Models
  BY DEF Matching, Restrict, BackedInv, PollInv, PollCommit, SourceMatches
<1> HIDE DEF aliases
<1>3. found \in BackedSettings(aliases, proven)
  BY <1>1, <1>2, DiscoveredType
<1>4. Excludes(published, a, m, credential, key) => Excludes(found, a, m, credential, key)
  BY <1>1, <1>2, DiscoveredExcludes
<1>5. disk' = disk \/ (disk = published /\ disk' = Normalized(found))
  BY DEF PollCommit, Commit, Matching
<1> HIDE DEF found
<1>6. /\ Excludes(found, a, m, credential, key)
      /\ Configured(Normalized(found), a) => Normalized(found).accounts[a].key = key
      => Excludes(Normalized(found), a, m, credential, key)
  BY <1>3, NormalizedExcludes
<1> QED
  BY <1>4, <1>5, <1>6 DEF Freed

\* A check frees the model it asked for, if it passes, of an exclusion of its
\* own scope that was there when it began.
LEMMA ChecksFree ==
  ASSUME BackedInv, NEW outcome, CheckCommit(outcome),
         NEW a \in Accounts, NEW m \in Models, NEW credential \in Scopes,
         NEW key \in Keys, Freed(a, m, credential, key)
  PROVE  /\ check.stage = "commit" /\ check'.stage = "idle" /\ check.passed
         /\ check.account = a /\ check.upstream = m /\ check.credential \in {Absent, credential}
         /\ ~Allowed(check.source, m, check.credential)
<1> DEFINE aliases == DOMAIN published.routes
           b == check.account
           s == published.accounts[b]
           new == Recorded(s, check.name, check.upstream, check.credential, check.passed)
           set == [published EXCEPT !.accounts[b] = new]
<1>1. /\ published \in BackedSettings(aliases, proven) /\ published \in Settings(aliases)
      /\ CheckInv(check, proven)
  BY DEF BackedInv, Backs, BackedSettings
<1> HIDE DEF aliases
<1>2. /\ check.stage = "commit" /\ check'.stage = "idle" /\ StillHolds
      /\ disk = published /\ disk' = Normalized(set)
  BY DEF CheckCommit, Commit, Freed, Resting
<1>3. /\ b \in Accounts /\ check.name \in Profiles /\ check.upstream \in Models
      /\ check.credential \in Scopes /\ check.passed \in BOOLEAN
      /\ check.passed => [account |-> b, key |-> check.source.key, upstream |-> check.upstream,
                          credential |-> check.credential] \in proven
  BY <1>1, <1>2 DEF CheckInv
<1>4. Configured(published, b) /\ s \in BackedSources(b, proven) /\ s.key = check.source.key
  BY <1>1, <1>2, <1>3 DEF StillHolds, Enabled, BackedSettings
<1>5. Allowed(check.source, check.upstream, check.credential) =>
        Allowed(s, check.upstream, check.credential)
  BY <1>2 DEF StillHolds
<1>6. Excludes(published, b, m, credential, key) <=> Barring(s.caps, b, m, credential, key)
  BY <1>4, BarringExcludes
<1> HIDE DEF s, b
<1>7. new \in BackedSources(b, proven)
  BY <1>3, <1>4, RecordedType
<1>8. new # Absent
  BY <1>7, SourceFields
<1>9. set \in BackedSettings(aliases, proven)
  <2> HIDE DEF new
  <2> QED
    BY <1>1, <1>3, <1>7, AccountSet
<1>10. Excludes(published, a, m, credential, key) /\ ~Excludes(set, a, m, credential, key)
  <2> HIDE DEF set
  <2> QED
    BY <1>2, <1>9, NormalizedExcludes DEF Freed
<1>11. a = b /\ ~Barring(new.caps, b, m, credential, key) /\ Barring(s.caps, b, m, credential, key)
  <2> HIDE DEF new
  <2> QED
    BY <1>1, <1>3, <1>6, <1>8, <1>10, ExcludesSet
<1>12. /\ m = check.upstream /\ check.passed /\ check.credential \in {Absent, credential}
       /\ Barring(s.caps, b, check.upstream, check.credential, key)
  <2> DEFINE name == check.name
             model == check.upstream
             scope == check.credential
             passed == check.passed
  <2>1. /\ name \in Profiles /\ model \in Models /\ scope \in Scopes /\ passed \in BOOLEAN
        /\ Barring(s.caps, b, m, credential, key)
        /\ ~Barring(Recorded(s, name, model, scope, passed).caps, b, m, credential, key)
    BY <1>3, <1>11
  <2> HIDE DEF name, model, scope, passed, new
  <2>2. /\ m = model /\ passed /\ scope \in {Absent, credential}
        /\ Barring(s.caps, b, model, scope, key)
    BY <1>4, <2>1, RecordedBars
  <2> QED
    BY <2>2 DEF name, model, scope, passed
<1>13. ~Allowed(s, check.upstream, check.credential)
  BY <1>12, BarringForbids
<1> QED
  BY <1>2, <1>5, <1>11, <1>12, <1>13 DEF b

\* An exclusion stands, whatever jobs, polls, checks and edits do, until the
\* account gets another connection than the one it is about, the model is
\* withdrawn, an import replaces the account, or a check of this very scope passes
\* that began under it.
THEOREM SpecExclusionsKept == ChangesSpec => ExclusionsKept
<1> DEFINE N == disk' # disk =>
     \A a \in Accounts, m \in Models, credential \in Scopes, key \in Keys :
       /\ Excludes(disk, a, m, credential, key) /\ ~Excludes(disk', a, m, credential, key)
       /\ Configured(disk', a) => disk'.accounts[a].key = key
       =>
         \/ m \notin Declares(disk', a)
         \/ job.kind = "import" /\ a = Imported.account
         \/ /\ check.stage = "commit" /\ check'.stage = "idle" /\ check.passed
            /\ check.account = a /\ check.upstream = m /\ check.credential \in {Absent, credential}
            /\ ~Allowed(check.source, m, check.credential)
<1>1. ExcludedInv /\ BackedInv /\ ChangesInv /\ [ChangesNext]_changesVars => [N]_changesVars
  <2> SUFFICES ASSUME ExcludedInv, BackedInv, ChangesInv, ChangesNext,
                      NEW a \in Accounts, NEW m \in Models, NEW credential \in Scopes,
                      NEW key \in Keys, Freed(a, m, credential, key)
               PROVE  \/ m \notin Declares(disk', a)
                      \/ job.kind = "import" /\ a = Imported.account
                      \/ /\ check.stage = "commit" /\ check'.stage = "idle" /\ check.passed
                         /\ check.account = a /\ check.upstream = m
                         /\ check.credential \in {Absent, credential}
                         /\ ~Allowed(check.source, m, check.credential)
    BY DEF Freed
  <2>1. disk' # disk
    BY DEF Freed
  <2>2. ~\E f \in Files : Adapter(f)
    BY <2>1 DEF Adapter
  <2>3. ~Administration
    <3>1. \A f, wanted : ~Change(f, wanted)
      BY <2>1 DEF Change
    <3>2. \A p, models : ~Login(p, models)
      BY <2>1 DEF Login
    <3>3. ~Reload /\ \A upsert : ~Import(upsert)
      BY <2>1 DEF Import, Reload
    <3> QED
      BY <3>1, <3>2, <3>3, EditsFreeNothing DEF Administration
  <2>4. CASE JobStep
    BY <2>4, JobsFree
  <2>5. ~PollStep
    BY <2>1, PollsFreeNothing DEF PollStep, Poll, ReadAny, Read
  <2>6. CASE CheckStep
    <3>1. \A b, name : ~Check(b, name)
      BY <2>1 DEF Check
    <3>2. ~Abandon /\ \A scope, passed : ~Probed(scope, passed)
      BY <2>1 DEF Abandon, Probed
    <3> QED
      BY <2>6, <3>1, <3>2, ChecksFree DEF CheckStep
  <2> QED
    BY <2>2, <2>3, <2>4, <2>5, <2>6 DEF ChangesNext
<1> QED
  BY <1>1, SpecExcludedInv, SpecBackedInv, SpecChangesInv, PTL DEF ChangesSpec, ExclusionsKept
=============================================================================
