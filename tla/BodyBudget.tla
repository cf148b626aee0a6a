----------------------------- MODULE BodyBudget -----------------------------
(***************************************************************************)
(* Memory for request bodies (internal/gateway/gateway.go): one counter of *)
(* bytes, shared by every request, from which each request charges what it *)
(* is about to retain: the inbound body, the decoded copy of it, a         *)
(* normalized body, and one rewritten body per upstream attempt.           *)
(*                                                                         *)
(* The transport may still be reading an attempt's body when its call has  *)
(* returned, so the handler waits until the transport closes the body, or  *)
(* takes it back when the context of the call ends, before it uncharges.   *)
(* Each compare-and-swap loop on the counter takes effect in one step.     *)
(***************************************************************************)
EXTENDS Integers, FiniteSetsExt

CONSTANTS
  Handlers,     \* requests that may be under way
  MaxBodies,    \* values of server.max_body_bytes a reload may publish
  Growth,       \* maxInternalRewriteGrowth
  Floor,        \* defaultBufferedBodyBudget
  MaxInt,       \* largest int64
  MaxAttempts,  \* AttemptLimit
  None          \* no declared length

RewriteReservation(max) == IF max > MaxInt - Growth THEN MaxInt ELSE max + Growth

\* What if only one of the two encodings were allowed to grow?
BudgetOneGrowth(max) ==
  LET rewrite == RewriteReservation(max)
      exact == 2 * max + rewrite
  IN  IF rewrite = MaxInt \/ max > (MaxInt - rewrite) \div 2 THEN MaxInt
      ELSE IF exact >= Floor THEN exact ELSE Floor

\* requestBodyMemoryBudget: what one request of the largest size may retain.
Budget(max) ==
  LET rewrite == RewriteReservation(max)
      exact == 2 * max + rewrite + Growth
  IN  IF \/ rewrite = MaxInt
         \/ rewrite > MaxInt - Growth
         \/ max > (MaxInt - rewrite - Growth) \div 2
      THEN MaxInt
      ELSE IF exact >= Floor THEN exact ELSE Floor

ASSUME BudgetAssumption ==
  /\ IsFiniteSet(Handlers)
  /\ MaxBodies \subseteq Nat \ {0} /\ MaxBodies # {}
  /\ Growth \in Nat /\ Floor \in Nat /\ MaxInt \in Nat
  /\ MaxAttempts \in Nat \ {0}
  /\ None \notin Nat
  /\ \A max \in MaxBodies : Growth <= MaxInt /\ Budget(max) < MaxInt

VARIABLES
  published,  \* max_body_bytes of the published configuration
  bytes,      \* Gateway.bodyBytes
  request     \* what every handler is doing

vars == <<published, bytes, request>>

\* The three forms of a body.  A normalized body takes the inbound one's place.
Buffers == {"inbound", "decoded", "attempt"}

Empty == [b \in Buffers |-> 0]

\* max: pinned; length: Content-Length; base: baseBodyReservation; held: what
\* the handler refers to; lent: what the transport may read; expired: the
\* context of the upstream call is done.
Idle == [stage |-> "idle", max |-> 0, length |-> None, reserved |-> 0, base |-> 0,
         size |-> Empty, held |-> {}, lent |-> {}, attempt |-> 0, resent |-> FALSE,
         expired |-> FALSE]

\* tryAcquireBodyBytes.
Fits(h, n) == n <= 0 \/ bytes <= Budget(request[h].max) - n

\* bodyByteLease.Acquire, and the handler goes on as r.
Acquire(h, n, r) ==
  /\ Fits(h, n)
  /\ bytes' = bytes + n
  /\ request' = [request EXCEPT ![h] = [r EXCEPT !.reserved = @ + n]]
  /\ UNCHANGED published

\* bodyByteLease.ShrinkTo.
ShrinkTo(h, n, r) ==
  LET kept == IF n >= r.reserved THEN r.reserved ELSE n IN
  /\ bytes' = bytes - (r.reserved - kept)
  /\ request' = [request EXCEPT ![h] = [r EXCEPT !.reserved = kept]]
  /\ UNCHANGED published

Step(h, r) == request' = [request EXCEPT ![h] = r] /\ UNCHANGED <<published, bytes>>

-----------------------------------------------------------------------------
Init ==
  /\ published \in MaxBodies
  /\ bytes = 0
  /\ request = [h \in Handlers |-> Idle]

Reload(max) ==
  /\ max # published
  /\ published' = max
  /\ UNCHANGED <<bytes, request>>

\* A longer declared length is answered 413 before anything is charged.
Arrive(h) ==
  /\ request[h].stage = "idle"
  /\ \E length \in 0..published \cup {None} :
       Step(h, [Idle EXCEPT !.stage = "arrived", !.max = published, !.length = length])

\* A declared length is charged as a whole, an unknown one while it is read.
Accept(h) ==
  LET r == request[h]
      reading == [r EXCEPT !.stage = "reading", !.held = {"inbound"}]
  IN  /\ r.stage = "arrived"
      /\ IF r.length # None
           THEN Acquire(h, r.length, reading)
           ELSE bytes < Budget(r.max) /\ Step(h, reading)

\* How far net/http lets a body be read.
Length(r) == IF r.length # None THEN r.length ELSE r.max

\* What a chunk needs beyond what is reserved already.
Missing(r, n) ==
  LET size == r.size["inbound"] + n IN
  IF size > r.reserved THEN size - r.reserved ELSE 0

ReadChunk(h) ==
  LET r == request[h] IN
  /\ r.stage = "reading"
  /\ \E n \in 1..(Length(r) - r.size["inbound"]) :
       Acquire(h, Missing(r, n), [r EXCEPT !.size["inbound"] = @ + n])

EndOfBody(h) ==
  LET r == request[h] IN
  /\ r.stage = "reading"
  /\ r.length # None => r.size["inbound"] = r.length
  /\ ShrinkTo(h, r.size["inbound"], [r EXCEPT !.stage = "read"])

\* The raw fields copy the body, at worst all of it.  No body is not JSON.
Decode(h) ==
  LET r == request[h] IN
  /\ r.stage = "read"
  /\ r.size["inbound"] > 0
  /\ Acquire(h, r.size["inbound"],
             [r EXCEPT !.stage = "decoded", !.held = @ \cup {"decoded"},
                       !.size["decoded"] = r.size["inbound"]])

\* An execution profile changed the fields: they are encoded anew.
StartNormalize(h) ==
  LET r == request[h] IN
  /\ r.stage = "decoded"
  /\ Acquire(h, RewriteReservation(r.max), [r EXCEPT !.stage = "normalizing"])

FinishNormalize(h) ==
  LET r == request[h] IN
  /\ r.stage = "normalizing"
  /\ \E n \in 1..RewriteReservation(r.max) :
       ShrinkTo(h, r.size["decoded"] + n,
                [r EXCEPT !.stage = "normalized", !.size["inbound"] = n])

\* The failover loop begins.
EnterLoop(h) ==
  LET r == request[h] IN
  /\ r.stage \in {"decoded", "normalized"}
  /\ Step(h, [r EXCEPT !.stage = "select", !.base = r.reserved])

\* The selected account wants another model name or reasoning effort.
StartRewrite(h) ==
  LET r == request[h] IN
  /\ r.stage = "select"
  /\ Acquire(h, RewriteReservation(r.max), [r EXCEPT !.stage = "rewrite"])

FinishRewrite(h) ==
  LET r == request[h] IN
  /\ r.stage = "rewrite"
  /\ \E n \in 1..RewriteReservation(r.max) :
       ShrinkTo(h, r.base + n,
                [r EXCEPT !.stage = "send", !.size["attempt"] = n, !.held = @ \cup {"attempt"}])

KeepBody(h) ==
  LET r == request[h] IN
  /\ r.stage = "select"
  /\ Step(h, [r EXCEPT !.stage = "send"])

\* What the transport is given: the rewritten body, if there is one.
Payload(r) == IF "attempt" \in r.held THEN {"attempt"} ELSE {"inbound"}

Submit(h) ==
  LET r == request[h] IN
  /\ r.stage = "send"
  /\ Step(h, [r EXCEPT !.stage = "flight", !.lent = Payload(r)])

TransportCloses(h) ==
  /\ request[h].lent # {}
  /\ Step(h, [request[h] EXCEPT !.lent = {}])

\* The header timer fires, or the client goes away.  The timer is stopped only
\* after the body is back.
ContextEnds(h) ==
  /\ request[h].stage \in {"flight", "await"}
  /\ ~request[h].expired
  /\ Step(h, [request[h] EXCEPT !.expired = TRUE])

\* Client.Do returns, with a response or an error.
CallReturns(h) ==
  /\ request[h].stage = "flight"
  /\ Step(h, [request[h] EXCEPT !.stage = "await"])

\* What if the context were not watched while waiting for the transport?
AwaitTransportOnly(h) ==
  LET r == request[h] IN
  /\ r.stage = "await"
  /\ r.lent = {}
  /\ Step(h, [r EXCEPT !.stage = "returned", !.expired = FALSE])

\* awaitRequestBodyClose: a transport that does not close the body loses it
\* when the context ends.
AwaitBody(h) ==
  LET r == request[h] IN
  /\ r.stage = "await"
  /\ r.lent = {} \/ r.expired
  /\ Step(h, [r EXCEPT !.stage = "returned", !.lent = {}, !.expired = FALSE])

\* After a refreshed credential the same body is submitted once more.
Resend(h) ==
  LET r == request[h] IN
  /\ r.stage = "returned"
  /\ ~r.resent
  /\ Step(h, [r EXCEPT !.stage = "send", !.resent = TRUE])

\* The attempt's own body is dropped and uncharged.
DropAttempt(h) ==
  LET r == request[h] IN
  /\ r.stage = "returned"
  /\ ShrinkTo(h, r.base,
              [r EXCEPT !.stage = "answered", !.held = @ \ {"attempt"}, !.size["attempt"] = 0])

Retry(h) ==
  LET r == request[h] IN
  /\ r.stage = "answered"
  /\ r.attempt + 1 < MaxAttempts
  /\ Step(h, [r EXCEPT !.stage = "select", !.attempt = @ + 1, !.resent = FALSE])

\* Nothing is left of the request but what the transport still holds, if anything.
Abandoned(r) ==
  [Idle EXCEPT !.lent = r.lent,
               !.size = [b \in Buffers |-> IF b \in r.lent THEN r.size[b] ELSE 0]]

\* What if a charge taken for the current attempt were forgotten at the end?
ReleaseBase(h) ==
  /\ bytes' = bytes - (IF request[h].stage = "rewrite" THEN request[h].base
                       ELSE request[h].reserved)
  /\ request' = [request EXCEPT ![h] = Abandoned(request[h])]
  /\ UNCHANGED published

\* bodyByteLease.Release, on every way out.
Release(h) ==
  /\ bytes' = bytes - request[h].reserved
  /\ request' = [request EXCEPT ![h] = Abandoned(request[h])]
  /\ UNCHANGED published

\* The request is answered, or fails for a reason other than memory, or the
\* response starts to be relayed.
Finish(h) ==
  /\ request[h].stage \notin {"idle", "arrived", "flight", "await", "returned"}
  /\ Release(h)

\* What the request asks for next, if it asks for anything.
Refusable(h) ==
  LET r == request[h] IN
  \/ r.stage = "arrived" /\ r.length # None /\ ~Fits(h, r.length)
  \/ r.stage = "arrived" /\ r.length = None /\ bytes >= Budget(r.max)
  \/ /\ r.stage = "reading"
     /\ \E n \in 1..(Length(r) - r.size["inbound"]) : ~Fits(h, Missing(r, n))
  \/ r.stage = "read" /\ ~Fits(h, r.size["inbound"])
  \/ r.stage \in {"decoded", "select"} /\ ~Fits(h, RewriteReservation(r.max))

\* 429 body_memory_limit_reached.
Refuse(h) == Refusable(h) /\ Release(h)

Progress(h) ==
  \/ Accept(h) \/ ReadChunk(h) \/ EndOfBody(h) \/ Decode(h)
  \/ StartNormalize(h) \/ FinishNormalize(h) \/ EnterLoop(h)
  \/ StartRewrite(h) \/ FinishRewrite(h) \/ KeepBody(h) \/ Submit(h)
  \/ CallReturns(h) \/ AwaitBody(h) \/ Resend(h) \/ DropAttempt(h) \/ Retry(h)
  \/ Finish(h) \/ Refuse(h)

Next ==
  \/ \E max \in MaxBodies : Reload(max)
  \/ \E h \in Handlers :
       Arrive(h) \/ Progress(h) \/ TransportCloses(h) \/ ContextEnds(h)

Spec == Init /\ [][Next]_vars

-----------------------------------------------------------------------------
Stages == {"idle", "arrived", "reading", "read", "decoded", "normalizing", "normalized",
           "select", "rewrite", "send", "flight", "await", "returned", "answered"}

Requests == [stage : Stages, max : MaxBodies \cup {0}, length : Nat \cup {None},
             reserved : Nat, base : Nat, size : [Buffers -> Nat], held : SUBSET Buffers,
             lent : SUBSET Buffers, attempt : Nat, resent : BOOLEAN, expired : BOOLEAN]

TypeOK ==
  /\ published \in MaxBodies
  /\ bytes \in Nat
  /\ request \in [Handlers -> Requests]

\* The counter is exactly what the requests under way have reserved: nothing is
\* uncharged twice and nothing is leaked on any way out.
BytesAccounted == bytes = MapThenSumSet(LAMBDA h : request[h].reserved, Handlers)

Retained(h, b) == IF b \in request[h].held \cup request[h].lent THEN request[h].size[b] ELSE 0

\* What a request keeps in memory, the transport included, is charged.
RetainedIsCharged ==
  \A h \in Handlers :
    Retained(h, "inbound") + Retained(h, "decoded") + Retained(h, "attempt")
      <= request[h].reserved

\* Whatever limits reloads publish, the counter stays within the largest budget.
WithinSomeBudget == bytes = 0 \/ \E max \in MaxBodies : bytes <= Budget(max)

\* The memory of a request is charged once, as long as it is retained, and all
\* charges together stay within the budget.
ReservationsExact == TypeOK /\ BytesAccounted /\ RetainedIsCharged /\ WithinSomeBudget

\* gateway.go:994: the process-wide envelope must not cut the per-request limit:
\* a request of legal size is never refused while it is alone.
NeverRefusedAlone ==
  \A h \in Handlers :
    (\A o \in Handlers \ {h} : request[o].reserved = 0) => ~Refusable(h)

\* gateway.go:1088: a request never depends on the transport, on another request
\* or on memory coming free to go on: it can take a step of its own, or its
\* timer ends the call.  As its steps are bounded by the body and the attempts,
\* its memory comes back even from a transport that never closes a body.
NobodyStuck ==
  \A h \in Handlers :
    request[h].stage # "idle" => ENABLED (Progress(h) \/ ContextEnds(h))
=============================================================================
