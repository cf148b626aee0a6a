---------------------------- MODULE StreamRelay ----------------------------
(***************************************************************************)
(* How the failover loop reads an upstream's answer: streamResponse, which *)
(* relays it to the client, and bufferResponse, which keeps a refusal for  *)
(* later (internal/gateway/gateway.go).                                    *)
(*                                                                         *)
(* Failover says what may come of a relay; here a goroutine owns the body  *)
(* and offers what it reads on an unbuffered channel, while the handler    *)
(* inspects it, writes it to a client that may be slow or gone, and        *)
(* watches an idle timer.  Both must come together again before the        *)
(* capacity of the account is given back.                                  *)
(*                                                                         *)
(* Bytes come in chunks, of which the preview holds PreviewChunks.  What   *)
(* responseCompletion makes of them is open here (see CompletionStream): a *)
(* chunk may leave the answer open, make it whole, or spoil it.            *)
(***************************************************************************)
EXTENDS Failover

CONSTANTS
  MaxChunks,      \* chunks an upstream sends in one answer, a bound
  PreviewChunks   \* completionPreviewBytes

ASSUME RelayAssumption == MaxChunks \in Nat /\ PreviewChunks \in Nat

VARIABLES
  kind,       \* what is read: an event stream, a document, a body nobody judges, a refusal
  reader,     \* the goroutine that owns resp.Body
  open,       \* resp.Body is not closed
  offer,      \* what Read returned, offered on the channel
  step,       \* where the handler is in streamResponse or bufferResponse
  event,      \* what it took from the channel
  timer,      \* the idle timer
  expiredAt,  \* history: the handler's step when the timer ran out
  fed,        \* chunks taken from the channel
  preview,    \* chunks held back until the answer is proven
  shown,      \* chunks written to the client
  committed,  \* the header was written to the client
  verdict,    \* what responseCompletion makes of the chunks
  result      \* what streamResponse returns

relay == <<kind, reader, open, offer, step, event, timer, expiredAt, fed, preview, shown,
           committed, verdict, result>>

all == <<vars, relay>>

\* A Read may return data together with the end of the body.
Events == [data : BOOLEAN, end : {"none", "eof", "broken"}]

Nothing == [data |-> FALSE, end |-> "none"]

Failures == {"incomplete", "broken", "idle"}

NotReading ==
  /\ kind = "none" /\ reader = "none" /\ open = FALSE /\ offer = Nothing
  /\ step = "idle" /\ event = Nothing /\ timer = "stopped" /\ expiredAt = "none"
  /\ fed = 0 /\ preview = 0 /\ shown = 0 /\ committed = FALSE
  /\ verdict = "open" /\ result = "none"

RelayInit == Init /\ NotReading

\* Everything below is local to one call.
Forget ==
  /\ kind' = "none" /\ reader' = "none" /\ open' = FALSE /\ offer' = Nothing
  /\ step' = "idle" /\ event' = Nothing /\ timer' = "stopped" /\ expiredAt' = "none"
  /\ fed' = 0 /\ preview' = 0 /\ shown' = 0 /\ committed' = FALSE
  /\ verdict' = "open" /\ result' = "none"

\* Event streams and bodies nobody judges have their header written at once.
Begin(k) ==
  /\ step = "idle"
  /\ kind' = k
  /\ reader' = "reading"
  /\ open' = TRUE
  /\ step' = "select"
  /\ timer' = "running"
  /\ IF k \in {"stream", "opaque"} THEN committed' = TRUE ELSE UNCHANGED committed
  /\ UNCHANGED <<offer, event, expiredAt, fed, preview, shown, verdict, result>>

\* The answer has not the media type the request asked for: nothing is read.
Mismatched(k) ==
  /\ step = "idle"
  /\ kind' = k
  /\ step' = "returned"
  /\ result' = "incomplete"
  /\ UNCHANGED <<reader, open, offer, event, timer, expiredAt, fed, preview, shown,
                 committed, verdict>>

StartRelay ==
  /\ StartStream
  /\ IF answer.status = "success"
     THEN \E k \in {"stream", "document"} : Begin(k) \/ Mismatched(k)
     ELSE Begin("opaque")

\* A refusal is worth failing over, and is kept in case nothing better comes.
StartBuffer ==
  /\ pc = "respond"
  /\ Retryable(answer)
  /\ Begin("refusal")

-----------------------------------------------------------------------------
\* The goroutine.  Read returns something, or the end, or both.
ReadReturns(e) ==
  /\ reader = "reading"
  /\ open
  /\ e # Nothing
  /\ e.data => fed < MaxChunks
  /\ reader' = "offering"
  /\ offer' = e
  /\ UNCHANGED <<kind, open, step, event, timer, expiredAt, fed, preview, shown, committed,
                 verdict, result>>

\* Closing the body ends a Read that is under way.
ReadEnds ==
  /\ reader = "reading"
  /\ ~open
  /\ reader' = "offering"
  /\ offer' = [data |-> FALSE, end |-> "broken"]
  /\ UNCHANGED <<kind, open, step, event, timer, expiredAt, fed, preview, shown, committed,
                 verdict, result>>

\* The channel stop is closed: nobody will take the offer.
OfferDropped ==
  /\ reader = "offering"
  /\ step = "closing"
  /\ reader' = "gone"
  /\ offer' = Nothing
  /\ UNCHANGED <<kind, open, step, event, timer, expiredAt, fed, preview, shown,
                 committed, verdict, result>>

Expire ==
  /\ timer = "running"
  /\ timer' = "expired"
  /\ expiredAt' = step
  /\ UNCHANGED <<kind, reader, open, offer, step, event, fed, preview, shown, committed,
                 verdict, result>>

-----------------------------------------------------------------------------
\* Nothing proves that an opaque body or a refusal is whole.
Judged == kind \in {"stream", "document"}

\* Feed: a document that is whole may only be followed by blanks.
Verdicts == IF ~Judged THEN {"open"}
            ELSE IF verdict = "whole" THEN {"whole", "bad"} ELSE {"open", "whole", "bad"}

\* What if the timer ran on while the client is served?
TakeTimerRuns ==
  /\ step = "select"
  /\ reader = "offering"
  /\ reader' = IF offer.end = "none" THEN "reading" ELSE "gone"
  /\ event' = offer
  /\ offer' = Nothing
  /\ IF offer.data THEN /\ fed' = fed + 1
                        /\ verdict' \in Verdicts
                        /\ step' = "deliver"
                   ELSE step' = "end" /\ UNCHANGED <<fed, verdict>>
  /\ UNCHANGED <<kind, open, timer, expiredAt, preview, shown, committed, result>>

\* The handler takes an event.  The time it takes to serve the client is not
\* the upstream's: the timer is stopped and emptied, even if it just ran out.
Take ==
  /\ step = "select"
  /\ reader = "offering"
  /\ reader' = IF offer.end = "none" THEN "reading" ELSE "gone"
  /\ event' = offer
  /\ offer' = Nothing
  /\ IF offer.data THEN /\ fed' = fed + 1
                        /\ verdict' \in Verdicts
                        /\ timer' = "stopped"
                        /\ step' = "deliver"
                   ELSE step' = "end" /\ UNCHANGED <<fed, verdict, timer>>
  /\ UNCHANGED <<kind, open, expiredAt, preview, shown, committed, result>>

\* What if the body were closed only after the goroutine has ended?
LeaveOpen(r) ==
  /\ result' = r
  /\ step' = "closing"
  /\ timer' = "stopped"
  /\ event' = Nothing
  /\ UNCHANGED <<kind, reader, open, offer, expiredAt, fed, verdict>>

\* Every return of streamResponse stops the timer, tells the goroutine to stop
\* and closes the body under it.
Leave(r) ==
  /\ result' = r
  /\ step' = "closing"
  /\ timer' = "stopped"
  /\ event' = Nothing
  /\ open' = FALSE
  /\ UNCHANGED <<kind, reader, offer, expiredAt, fed, verdict>>

IdleTimeout ==
  /\ step = "select"
  /\ timer = "expired"
  /\ Leave("idle")
  /\ UNCHANGED <<preview, shown, committed>>

\* A refusal has a limit for the whole of it, too.
BufferTimeout ==
  /\ step = "select"
  /\ kind = "refusal"
  /\ Leave("idle")
  /\ UNCHANGED <<preview, shown, committed>>

Spoilt ==
  /\ step = "deliver"
  /\ verdict = "bad"
  /\ Leave("incomplete")
  /\ UNCHANGED <<preview, shown, committed>>

\* A refusal is only collected; of a document the beginning is held back.
HeldBack == kind = "refusal" \/ (~committed /\ preview < PreviewChunks)

Hold ==
  /\ step = "deliver"
  /\ verdict # "bad"
  /\ HeldBack
  /\ preview' = preview + 1
  /\ timer' = "running"
  /\ step' = "end"
  /\ UNCHANGED <<kind, reader, open, offer, event, expiredAt, fed, shown, committed, verdict,
                 result>>

Show ==
  /\ step = "deliver"
  /\ verdict # "bad"
  /\ ~HeldBack
  /\ committed' = TRUE
  /\ shown' = shown + preview + 1
  /\ preview' = 0
  /\ timer' = "running"
  /\ step' = "end"
  /\ UNCHANGED <<kind, reader, open, offer, event, expiredAt, fed, verdict, result>>

\* The client is gone, or did not read within the write deadline.
ShowFails ==
  /\ step = "deliver"
  /\ verdict # "bad"
  /\ ~HeldBack
  /\ committed' = TRUE
  /\ preview' = 0
  /\ shown' \in {shown, shown + preview}
  /\ Leave("downstream")

\* The end event of a stream has been delivered: what follows is not awaited.
Terminal == kind = "stream" /\ verdict = "whole" /\ event.data

StreamOver ==
  /\ step = "end"
  /\ Terminal
  /\ Leave("complete")
  /\ UNCHANGED <<preview, shown, committed>>

CarryOn ==
  /\ step = "end"
  /\ ~Terminal
  /\ event.end = "none"
  /\ step' = "select"
  /\ UNCHANGED <<kind, reader, open, offer, event, timer, expiredAt, fed, preview, shown,
                 committed, verdict, result>>

Broken ==
  /\ step = "end"
  /\ ~Terminal
  /\ event.end = "broken"
  /\ Leave("broken")
  /\ UNCHANGED <<preview, shown, committed>>

\* The body has ended.  Finish judges what was fed, and only then is what was
\* held back written.
BodyEnds ==
  /\ step = "end"
  /\ ~Terminal
  /\ event.end = "eof"
  /\ \/ /\ Judged /\ verdict # "whole"
        /\ Leave("incomplete")
        /\ UNCHANGED <<preview, shown, committed>>
     \/ /\ kind = "refusal"
        /\ Leave("complete")
        /\ UNCHANGED <<preview, shown, committed>>
     \/ /\ kind = "opaque" \/ (Judged /\ verdict = "whole")
        /\ committed' = TRUE
        /\ preview' = 0
        /\ \/ Leave("complete") /\ shown' = shown + preview
           \/ preview > 0 /\ Leave("downstream") /\ UNCHANGED shown

\* The deferred function returns when the goroutine has ended.
AwaitReader ==
  /\ step = "closing"
  /\ reader = "gone"
  /\ step' = "returned"
  /\ UNCHANGED <<kind, reader, open, offer, event, timer, expiredAt, fed, preview, shown,
                 committed, verdict, result>>

Handler ==
  \/ Take \/ IdleTimeout \/ BufferTimeout \/ Spoilt \/ Hold \/ Show \/ ShowFails
  \/ StreamOver \/ CarryOn \/ Broken \/ BodyEnds \/ AwaitReader

-----------------------------------------------------------------------------
\* The refusal is collected: the capacity goes back, on to the next attempt.
Buffered ==
  /\ step = "returned"
  /\ StatusRetryable
  /\ Forget

\* What becomes of the request.  Where nothing was written the gateway can
\* still answer 502 itself; a client that is gone gets neither.
RelayReturns ==
  /\ step = "returned"
  /\ \/ result = "complete" /\ StreamCompletes
     \/ /\ result \in Failures
        /\ StreamBreaks
        /\ reply'.by = None <=> ~committed /\ ~gone
     \/ result = "downstream" /\ DownstreamFails
  /\ UNCHANGED relay

\* Everything of the loop that reads no body.
Elsewhere ==
  \/ \E c \in Candidates : Select(c)
  \/ SelectFails \/ RewriteFails \/ Rewrite \/ Submit \/ UrlInvalid
  \/ RefreshSucceeds \/ RefreshFails
  \/ TransportFails \/ StatusUncertain

\* The goroutine of the handler.
ServeGateway ==
  \/ Elsewhere /\ UNCHANGED relay
  \/ StartRelay \/ Buffered \/ RelayReturns
  \/ (StartBuffer \/ Handler) /\ UNCHANGED vars

RelayNext ==
  /\ \/ ServeGateway
     \/ (Upstream \/ ClientLeaves) /\ UNCHANGED relay
     \/ /\ (\E e \in Events : ReadReturns(e)) \/ ReadEnds \/ OfferDropped \/ Expire
        /\ UNCHANGED vars
     \/ pc = "done" /\ pending = {} /\ UNCHANGED all
  /\ UNCHANGED targeted

RelaySpec == RelayInit /\ [][RelayNext]_all

\* The handler runs: every other wait of it has a timer (queue, refresh,
\* response headers), and writes to the client have a deadline.  Timers run
\* out, and the goroutine runs once it is told to stop.  A Read on an open
\* body may take for ever.
RelayFairSpec ==
  /\ RelaySpec
  /\ WF_all(ServeGateway /\ UNCHANGED targeted)
  /\ WF_all(Expire /\ UNCHANGED vars)
  /\ WF_all((ReadEnds \/ OfferDropped) /\ UNCHANGED vars)

-----------------------------------------------------------------------------
RelayTypeOK ==
  /\ kind \in {"none", "stream", "document", "opaque", "refusal"}
  /\ reader \in {"none", "reading", "offering", "gone"}
  /\ open \in BOOLEAN
  /\ offer \in Events
  /\ step \in {"idle", "select", "deliver", "end", "closing", "returned"}
  /\ event \in Events
  /\ timer \in {"stopped", "running", "expired"}
  /\ expiredAt \in {"none", "select", "deliver", "end", "closing", "returned"}
  /\ fed \in Nat /\ preview \in Nat /\ shown \in Nat
  /\ committed \in BOOLEAN
  /\ verdict \in {"open", "whole", "bad"}
  /\ result \in Failures \cup {"none", "complete", "downstream"}

\* The capacity of an account is not given back, and no handler returns, while
\* the goroutine that reads the account's answer still runs.
NobodyLeftReading == lease = None => reader \in {"none", "gone"}

\* A success was proven to be one, and the client has every chunk of it.
SuccessIsDelivered ==
  reply # None /\ reply.what = "success" => verdict = "whole" /\ shown = fed

\* Of a document that fails before it outgrows the preview the client sees
\* nothing, and is told by the gateway instead.
SmallFailureHidden ==
  pc = "done" /\ kind = "document" /\ result \in Failures /\ fed <= PreviewChunks =>
    shown = 0 /\ (gone \/ reply.by = None)

\* An upstream is not blamed for silence while the handler was busy writing to a
\* client that is slow to read.
SilenceIsTheUpstreams == result = "idle" => expiredAt # "deliver"

\* What a relay leaves behind, whatever the interleaving of goroutine, timer and
\* handler: no goroutine, no half-delivered success, nothing of a small failure,
\* and no blame for a slow client.
RelayTruthful ==
  /\ RelayTypeOK /\ NobodyLeftReading /\ SuccessIsDelivered
  /\ SmallFailureHidden /\ SilenceIsTheUpstreams

\* Every request comes to its end, and gives back what it holds, however its
\* upstream breaks off, stalls or closes and whether or not the client stays.
Served == <>(pc = "done")
=============================================================================
