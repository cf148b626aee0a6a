------------------------------ MODULE Failover ------------------------------
(***************************************************************************)
(* One client request on its way through the failover loop of ServeGateway *)
(* (internal/gateway/gateway.go), with the upstreams it is submitted to.   *)
(*                                                                         *)
(* The loop selects an account, rewrites the body, submits it, and either  *)
(* relays the answer, fails over to another account, or gives up.  A       *)
(* submission runs concurrently with the gateway: once its headers are on  *)
(* the wire the upstream may execute the work at any later moment, even    *)
(* after the gateway has timed out or the client has left.                 *)
(*                                                                         *)
(* Assumed of the environment: an upstream that answers 401, 402, 403, 429 *)
(* or a targeted 404 did not and will not execute the work; neither did    *)
(* the trusted local adapter when it marks a failure as safe to retry; no  *)
(* upstream executes a request whose headers were not completely written   *)
(* (net/http reports WroteHeaders before it flushes them).                 *)
(*                                                                         *)
(* Reading an answer is one step here; StreamRelay shows how it is done.   *)
(***************************************************************************)
EXTENDS Integers, FiniteSets

CONSTANTS
  Candidates,   \* keys of the accounts or route targets that can be selected
  Trusted,      \* those served by the trusted local OAuth adapter
  MaxAttempts,  \* AttemptLimit
  None          \* no account, no answer

ASSUME FailoverAssumption ==
  /\ IsFiniteSet(Candidates)
  /\ Trusted \subseteq Candidates
  /\ MaxAttempts \in Nat \ {0}
  /\ None \notin Candidates

VARIABLES
  targeted,  \* the route is an explicit target chain, not an account pool
  pc,        \* where the handler is
  attempt,   \* iterations of the loop begun
  excluded,  \* candidates the loop will not select again
  lease,     \* the candidate whose capacity the request holds
  retained,  \* the handler still has the request body
  refreshed, \* the OAuth credential was refreshed in this attempt
  sends,     \* submissions handed to the transport
  wrote,     \* the headers of the current submission are on the wire
  pending,   \* submissions an upstream may yet execute
  executed,  \* submissions an upstream has executed
  answer,    \* the upstream response in hand
  last,      \* the buffered response of an earlier attempt, and its account
  reports,   \* reports[i]: results of attempt i told to the breaker
  gone,      \* the client's context is done
  reply,     \* what was written to the client, and on whose behalf
  record     \* the account named in the request record

vars == <<targeted, pc, attempt, excluded, lease, retained, refreshed, sends, wrote, pending,
          executed, answer, last, reports, gone, reply, record>>

upstream == <<sends, wrote, pending, executed>>

Attempts == 1..MaxAttempts

\* 401; 402, 403, 429; 404; 408, 409, 425, 5xx; 2xx; the rest.
Statuses == {"unauthorized", "refused", "missing", "uncertain", "success", "other"}

GatewayErrors == {"no_eligible_source", "source_unavailable", "capacity_exhausted",
                  "gateway_rejected", "uncertain_submission", "upstream_error",
                  "incomplete_response"}

\* A response: its status, and whether it claims to be safe to retry.
Answers == [status : Statuses, safe : BOOLEAN]

Stages == {"select", "prepare", "send", "flight", "recover", "respond", "stream", "done"}

-----------------------------------------------------------------------------
Init ==
  /\ targeted \in BOOLEAN
  /\ pc = "select" /\ attempt = 0 /\ excluded = {} /\ lease = None
  /\ retained = TRUE /\ refreshed = FALSE
  /\ sends = 0 /\ wrote = FALSE /\ pending = {} /\ executed = {}
  /\ answer = None /\ last = None
  /\ reports = [i \in Attempts |-> 0]
  /\ gone = FALSE /\ reply = None /\ record = None

\* The client disconnects.
ClientLeaves ==
  /\ pc # "done"
  /\ gone' = TRUE
  /\ UNCHANGED <<pc, attempt, excluded, lease, retained, refreshed, upstream,
                 answer, last, reports, reply, record>>

\* Every return of the loop: lease and body are given back.
Return(written) ==
  /\ pc' = "done"
  /\ reply' = written
  /\ lease' = None
  /\ retained' = FALSE
  /\ UNCHANGED <<attempt, excluded, refreshed, upstream, answer, last, gone>>

\* The account is told how attempt ended.
Report == reports' = [reports EXCEPT ![attempt] = @ + 1]

\* The gateway answers on its own behalf.
Fail(code) == Return([by |-> None, what |-> code])

\* What if the record kept the account tried last?
WriteLastUnattributed ==
  /\ Return([by |-> last.by, what |-> last.what])
  /\ UNCHANGED record

\* The buffered response of an earlier attempt is replayed to the client.
WriteLast ==
  /\ Return([by |-> last.by, what |-> last.what])
  /\ record' = last.by

-----------------------------------------------------------------------------
\* A candidate is selected and its capacity acquired.  In a target chain the
\* candidates passed over are not revisited.
Select(c) ==
  /\ pc = "select"
  /\ c \notin excluded
  /\ \E skipped \in IF targeted THEN SUBSET (Candidates \ (excluded \cup {c})) ELSE {{}} :
       excluded' = excluded \cup skipped \cup {c}
  /\ pc' = "prepare"
  /\ attempt' = attempt + 1
  /\ lease' = c
  /\ record' = c
  /\ UNCHANGED <<retained, refreshed, upstream, answer, last, reports, gone, reply>>

\* No candidate can be selected.  The pool is exhausted, or what is left is
\* unavailable or full; without a buffered response the queue has timed out.
SelectFails ==
  /\ pc = "select"
  /\ UNCHANGED reports
  /\ \/ last # None /\ WriteLast
     \/ last = None /\ gone /\ Return(None) /\ UNCHANGED record
     \/ /\ last = None /\ ~gone /\ UNCHANGED record
        /\ \E code \in {"no_eligible_source", "source_unavailable", "capacity_exhausted"} :
             /\ Candidates \subseteq excluded => code = "no_eligible_source"
             /\ Fail(code)

\* The body-memory budget refuses the rewrite, or the rewrite fails.
RewriteFails ==
  /\ pc = "prepare"
  /\ Fail("gateway_rejected")
  /\ UNCHANGED <<reports, record>>

Rewrite ==
  /\ pc = "prepare"
  /\ pc' = "send"
  /\ refreshed' = FALSE
  /\ UNCHANGED <<attempt, excluded, lease, retained, upstream, answer, last,
                 reports, gone, reply, record>>

\* doUpstream hands the body to the transport.
Submit ==
  /\ pc = "send"
  /\ pc' = "flight"
  /\ sends' = sends + 1
  /\ wrote' = FALSE
  /\ UNCHANGED <<attempt, excluded, lease, retained, refreshed, pending, executed,
                 answer, last, reports, gone, reply, record>>

\* The upstream URL cannot be built: not known to be safe, so not retried.
UrlInvalid ==
  /\ pc = "send"
  /\ IF gone THEN Return(None) /\ UNCHANGED reports
             ELSE Fail("uncertain_submission") /\ Report
  /\ UNCHANGED record

\* WroteHeaders: from here on the upstream has the request.
HeadersWritten ==
  /\ pc = "flight"
  /\ ~wrote
  /\ wrote' = TRUE
  /\ pending' = pending \cup {sends}
  /\ UNCHANGED <<pc, attempt, excluded, lease, retained, refreshed, sends, executed,
                 answer, last, reports, gone, reply, record>>

\* An upstream executes a submission, whatever the gateway is doing by then.
Execute(s) ==
  /\ s \in pending
  /\ pending' = pending \ {s}
  /\ executed' = executed \cup {s}
  /\ UNCHANGED <<pc, attempt, excluded, lease, retained, refreshed, sends, wrote,
                 answer, last, reports, gone, reply, record>>

\* An explicit refusal settles the submission; a success has executed it; any
\* other status may come from a proxy that does not know.  Only the trusted
\* adapter's claim that nothing was submitted is known to be true.
Honest(a) ==
  /\ a.status \in {"unauthorized", "refused", "missing"} => sends \notin executed
  /\ a.status = "success" => sends \in executed
  /\ a.safe /\ lease \in Trusted => sends \notin executed /\ a.status # "success"

Settled(a) ==
  \/ a.status \in {"unauthorized", "refused", "missing"}
  \/ a.safe /\ lease \in Trusted

\* Response headers arrive.  A 401 of a trusted account is worth one refresh.
Respond(a) ==
  /\ pc = "flight"
  /\ wrote
  /\ Honest(a)
  /\ answer' = a
  /\ pending' = IF Settled(a) THEN pending \ {sends} ELSE pending
  /\ pc' = IF a.status = "unauthorized" /\ lease \in Trusted /\ ~refreshed
           THEN "recover" ELSE "respond"
  /\ UNCHANGED <<attempt, excluded, lease, retained, refreshed, sends, wrote, executed,
                 last, reports, gone, reply, record>>

\* The refreshed credential is tried once, in the same attempt.
RefreshSucceeds ==
  /\ pc = "recover"
  /\ ~gone
  /\ refreshed' = TRUE
  /\ pc' = "send"
  /\ answer' = None
  /\ UNCHANGED <<attempt, excluded, lease, retained, upstream, last, reports, gone, reply, record>>

RefreshFails ==
  /\ pc = "recover"
  /\ pc' = "respond"
  /\ UNCHANGED <<attempt, excluded, lease, retained, refreshed, upstream, answer, last,
                 reports, gone, reply, record>>

-----------------------------------------------------------------------------
\* On to the next attempt, still holding the body.
Continue ==
  /\ attempt < MaxAttempts
  /\ pc' = "select"
  /\ lease' = None
  /\ answer' = None
  /\ UNCHANGED <<attempt, excluded, retained, refreshed, upstream, gone, reply, record>>

\* What if a reset connection were always worth another attempt?
TransportFailsRetried ==
  /\ pc = "flight"
  /\ \/ gone /\ Return(None) /\ UNCHANGED <<reports, record>>
     \/ ~gone /\ Report /\ Continue /\ UNCHANGED last
     \/ ~gone /\ Report /\ attempt = MaxAttempts /\ Fail("upstream_error") /\ UNCHANGED record

\* The transport fails: refused connection, reset, header timeout, or the
\* client's cancellation.  Only a request that never touched the wire may be
\* submitted again, and not even that one if its failed write was reported.
TransportFails ==
  /\ pc = "flight"
  /\ \/ gone /\ Return(None) /\ UNCHANGED <<reports, record>>
     \/ /\ ~gone
        /\ Report
        /\ \/ ~wrote /\ Continue /\ UNCHANGED last
           \/ Fail("uncertain_submission") /\ UNCHANGED record
           \/ /\ ~wrote /\ attempt = MaxAttempts
              /\ \/ last # None /\ WriteLast
                 \/ last = None /\ Fail("upstream_error") /\ UNCHANGED record

\* What if any upstream's claim that a retry is safe were believed?
RetrySafeIfClaimed(a) == a.safe

\* retryableStatusForOperation, corrected by what the trusted adapter attests.
RetrySafe(a) == a.safe /\ lease \in Trusted

Uncertain(a) == a.status = "uncertain" /\ ~RetrySafe(a)

Retryable(a) ==
  \/ a.status \in {"unauthorized", "refused"}
  \/ a.status = "uncertain" /\ RetrySafe(a)
  \/ a.status = "missing" /\ targeted

\* The upstream may have accepted the work: tell the client, submit no more.
StatusUncertain ==
  /\ pc = "respond"
  /\ Uncertain(answer)
  /\ Report
  /\ Fail("uncertain_submission")
  /\ UNCHANGED record

\* The refusal is buffered, the lease given back before anything is written.
\* A targeted 404 says nothing about the account's health.
StatusRetryable ==
  /\ pc = "respond"
  /\ Retryable(answer)
  /\ IF answer.status = "missing" THEN UNCHANGED reports ELSE Report
  /\ \/ /\ Continue
        /\ last' = [by |-> lease, what |-> answer.status]
     \/ /\ attempt = MaxAttempts
        /\ Return([by |-> lease, what |-> answer.status])
        /\ UNCHANGED record

\* Anything else is relayed; the body is dropped before the stream starts.
StartStream ==
  /\ pc = "respond"
  /\ ~Uncertain(answer) /\ ~Retryable(answer)
  /\ pc' = "stream"
  /\ retained' = FALSE
  /\ UNCHANGED <<attempt, excluded, lease, refreshed, upstream, answer, last,
                 reports, gone, reply, record>>

\* The relay is complete: a success, or a status that says nothing of health.
StreamCompletes ==
  /\ pc = "stream"
  /\ Return([by |-> lease, what |-> answer.status])
  /\ Report
  /\ UNCHANGED record

\* The upstream breaks off, or its answer is incomplete.  Either part of it is
\* with the client already, or the gateway can still answer 502 itself.  A
\* client that is gone keeps the account from being blamed.
StreamBreaks ==
  /\ pc = "stream"
  /\ Return([by |-> lease, what |-> "broken"]) \/ Fail("incomplete_response")
  /\ IF gone THEN UNCHANGED reports ELSE Report
  /\ UNCHANGED record

\* Writing to the client fails: not the account's fault.
DownstreamFails ==
  /\ pc = "stream"
  /\ Return([by |-> lease, what |-> "broken"])
  /\ UNCHANGED <<reports, record>>

Gateway ==
  \/ \E c \in Candidates : Select(c)
  \/ SelectFails \/ RewriteFails \/ Rewrite \/ Submit \/ UrlInvalid
  \/ RefreshSucceeds \/ RefreshFails
  \/ TransportFails \/ StatusUncertain \/ StatusRetryable \/ StartStream

Upstream ==
  \/ HeadersWritten
  \/ \E s \in pending : Execute(s)
  \/ \E a \in Answers : Respond(a)

Next ==
  /\ \/ Gateway \/ Upstream \/ ClientLeaves
     \/ StreamCompletes \/ StreamBreaks \/ DownstreamFails
     \/ pc = "done" /\ pending = {} /\ UNCHANGED vars
  /\ UNCHANGED targeted

Spec == Init /\ [][Next]_vars

-----------------------------------------------------------------------------
Replies == [by : Candidates, what : Statuses \cup {"broken"}]
             \cup [by : {None}, what : GatewayErrors]

TypeOK ==
  /\ targeted \in BOOLEAN
  /\ pc \in Stages
  /\ attempt \in 0..MaxAttempts
  /\ excluded \in SUBSET Candidates
  /\ lease \in Candidates \cup {None}
  /\ retained \in BOOLEAN
  /\ refreshed \in BOOLEAN
  /\ sends \in Nat
  /\ wrote \in BOOLEAN
  /\ pending \in SUBSET Nat
  /\ executed \in SUBSET Nat
  /\ answer \in Answers \cup {None}
  /\ last \in [by : Candidates, what : Statuses] \cup {None}
  /\ reports \in [Attempts -> Nat]
  /\ gone \in BOOLEAN
  /\ reply \in Replies \cup {None}
  /\ record \in Candidates \cup {None}

\* Nothing is submitted while an earlier submission has been executed or may
\* yet be: not after a timeout, not to another account, not after a refresh.
NothingOutstanding == sends' # sends => executed = {} /\ pending = {}

NoReplay == [][NothingOutstanding]_vars

\* The request record names the account whose answer the client received, also
\* when a later failover failed and an earlier answer was replayed.
AnswerAttributed ==
  pc = "done" /\ reply # None => reply.by \in {record, None}

\* An attempt is reported to its account's breaker at most once, whatever
\* combination of transport, status and stream failures it meets.
ReportedOnce == \A i \in Attempts : reports[i] <= IF i <= attempt THEN 1 ELSE 0

\* What a request can cost the upstreams: one submission for every attempt, all
\* on different candidates, and one more where a credential was refreshed.
SubmissionsBounded == sends <= attempt + Cardinality(excluded \cap Trusted)

\* What the request leaves behind is truthful and what it costs is bounded:
\* well-formed state, one report for each attempt, a record of the account that
\* answered, and no more submissions than attempts and refreshes pay for.
AttemptsAccounted == TypeOK /\ ReportedOnce /\ AnswerAttributed /\ SubmissionsBounded

-----------------------------------------------------------------------------
Once == INSTANCE SubmitOnce WITH
  executions <- Cardinality(executed),
  outcome <- IF pc # "done" THEN "open"
             ELSE IF reply # None /\ reply.what = "success" THEN "success" ELSE "failure"

ImplementsSubmitOnce == Once!Spec
=============================================================================
