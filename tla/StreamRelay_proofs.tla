------------------------- MODULE StreamRelay_proofs -------------------------
(***************************************************************************)
(* Proofs about Failover and StreamRelay for any set of candidates, any    *)
(* number of attempts and both ways of routing.  A request is executed at  *)
(* most once, and its answer, its record and its health reports agree.     *)
(* StreamRelay implements Failover, so this holds as well of requests      *)
(* whose answers are read chunk by chunk, and what a relay leaves behind   *)
(* is true, for any number of chunks and any preview.                      *)
(***************************************************************************)
EXTENDS StreamRelay, FiniteSetTheorems, TLAPS

-----------------------------------------------------------------------------
(* The inductive invariant of the loop.                                    *)

\* Stages with a selected candidate.
Busy == {"prepare", "send", "flight", "recover", "respond", "stream"}

\* Stages at which nothing may be outstanding: the next submission is ahead.
Quiet == {"select", "prepare", "send", "recover"}

\* No upstream holds a submission of this request or has executed one.
NothingOut == pending = {} /\ executed = {}

\* What the stage says about the handler's own variables.
StageInv ==
  /\ pc = "select" => attempt < MaxAttempts /\ lease = None
  /\ pc \in Busy => /\ attempt \in Attempts
                    /\ lease \in Candidates
                    /\ record = lease
  /\ pc \in {"recover", "respond", "stream"} => answer \in Answers
  /\ pc = "recover" => answer.status = "unauthorized"
  /\ pc # "done" => reply = None
  /\ last # None => last.what # "success"

\* The heart of NoReplay.  Only the current submission can be outstanding; it
\* is not before its headers are written, not once an answer has settled it,
\* and not when the loop is about to submit again.
SubmissionInv ==
  /\ pending \cup executed \subseteq {sends}
  /\ pending \cap executed = {}
  /\ pc \in Quiet => NothingOut
  /\ pc = "flight" /\ ~wrote => NothingOut
  /\ pc = "respond" /\ Settled(answer) => NothingOut
  /\ pc \in {"respond", "stream"} /\ answer.status = "success" => executed # {}
  /\ reply # None /\ reply.what = "success" => executed # {}

\* The current attempt has not been reported while it is under way.
ReportInv ==
  /\ \A i \in Attempts : i > attempt => reports[i] = 0
  /\ pc \in Busy => reports[attempt] = 0

\* Trusted candidates tried in earlier attempts: each has paid for a refresh.
Earlier == Cardinality((excluded \ {lease}) \cap Trusted)

\* What the submissions so far have cost, at each stage: an attempt pays for one,
\* and the trusted candidate it holds for one more after its refresh.
CostInv ==
  /\ pc \in Busy => lease \in excluded
  /\ pc \in Busy \ {"prepare"} /\ (refreshed \/ pc = "recover") => lease \in Trusted
  /\ pc = "recover" => ~refreshed
  /\ pc = "select" => SubmissionsBounded
  /\ pc = "prepare" => sends < attempt + Earlier
  /\ pc = "send" => sends < attempt + Earlier + IF refreshed THEN 1 ELSE 0
  /\ pc \in {"flight", "recover", "respond", "stream"} =>
       sends <= attempt + Earlier + IF refreshed THEN 1 ELSE 0
  /\ SubmissionsBounded

IInv == /\ TypeOK /\ StageInv /\ SubmissionInv /\ ReportInv
        /\ ReportedOnce /\ AnswerAttributed /\ CostInv

-----------------------------------------------------------------------------
(* Inductiveness.                                                          *)

\* The invariant holds before the first attempt.
LEMMA InitInv == Init => IInv
<1> SUFFICES ASSUME Init PROVE IInv
  OBVIOUS
<1> USE FailoverAssumption DEF Init
<1>1. TypeOK
  <2>1. /\ pc \in Stages /\ attempt \in 0..MaxAttempts /\ sends \in Nat
        /\ reports \in [Attempts -> Nat]
    BY DEF Stages
  <2>2. /\ excluded \in SUBSET Candidates /\ pending \in SUBSET Nat /\ executed \in SUBSET Nat
        /\ lease \in Candidates \cup {None} /\ answer \in Answers \cup {None}
        /\ last \in [by : Candidates, what : Statuses] \cup {None}
        /\ reply \in Replies \cup {None} /\ record \in Candidates \cup {None}
    BY Zenon
  <2>3. targeted \in BOOLEAN /\ retained \in BOOLEAN /\ refreshed \in BOOLEAN /\ wrote \in BOOLEAN /\ gone \in BOOLEAN
    OBVIOUS
  <2>4. QED
    BY <2>1, <2>2, <2>3 DEF TypeOK
<1>2. StageInv
  BY DEF StageInv, Busy
<1>3. SubmissionInv
  BY DEF SubmissionInv, Quiet, NothingOut
<1>4. ReportInv /\ ReportedOnce
  BY DEF ReportInv, ReportedOnce, Attempts, Busy
<1>5. AnswerAttributed
  BY DEF AnswerAttributed
<1>6. CostInv
  BY FS_EmptySet DEF CostInv, SubmissionsBounded, Busy
<1>7. QED
  BY <1>1, <1>2, <1>3, <1>4, <1>5, <1>6 DEF IInv

\* Telling the breaker counts one report for the current attempt only.
LEMMA ReportEffect ==
  ASSUME TypeOK, attempt \in Attempts, Report
  PROVE  /\ reports' \in [Attempts -> Nat]
         /\ reports'[attempt] = reports[attempt] + 1
         /\ \A i \in Attempts : i # attempt => reports'[i] = reports[i]
  BY DEF TypeOK, Report

\* Types are preserved.
LEMMA TypeStep ==
  ASSUME TypeOK, StageInv, [Next]_vars
  PROVE  TypeOK'
<1>0. targeted' \in BOOLEAN
  BY DEF TypeOK, Next, vars
<1> USE FailoverAssumption, <1>0 DEF TypeOK, StageInv, Attempts, Stages, Busy, upstream
<1>1. CASE ClientLeaves
  BY <1>1 DEF ClientLeaves
<1>2. ASSUME NEW c \in Candidates, Select(c) PROVE TypeOK'
  BY <1>2 DEF Select
<1>3. CASE SelectFails
  <2>1. ASSUME last # None
        PROVE  [by |-> last.by, what |-> last.what] \in Replies /\ last.by \in Candidates
    BY <2>1 DEF Replies
  <2>2. ASSUME NEW code \in {"no_eligible_source", "source_unavailable", "capacity_exhausted"}
        PROVE  [by |-> None, what |-> code] \in Replies
    BY DEF Replies, GatewayErrors
  <2> HIDE DEF Statuses, GatewayErrors, Replies
  <2>3. QED
    BY <1>3, <2>1, <2>2 DEF SelectFails, WriteLast, Fail, Return
<1>4. CASE RewriteFails \/ Rewrite \/ Submit
  <2>1. [by |-> None, what |-> "gateway_rejected"] \in Replies
    BY DEF Replies, GatewayErrors
  <2>2. CASE RewriteFails
    BY <2>2, <2>1 DEF RewriteFails, Fail, Return
  <2>3. CASE Rewrite
    BY <2>3 DEF Rewrite
  <2>4. CASE Submit
    <3>1. sends' \in Nat
      <4>1. sends' = sends + 1
        BY <2>4 DEF Submit
      <4> HIDE DEF Attempts, Stages, Busy
      <4>2. QED
        BY <4>1
    <3>2. wrote' \in BOOLEAN /\ pc' \in Stages
      BY <2>4 DEF Submit
    <3>3. QED
      BY <2>4, <3>1, <3>2 DEF Submit
  <2>5. QED
    BY <1>4, <2>2, <2>3, <2>4
<1>5. CASE UrlInvalid
  <2>1. [by |-> None, what |-> "uncertain_submission"] \in Replies
    BY DEF Replies, GatewayErrors
  <2>2. reports' \in [Attempts -> Nat]
    BY <1>5, ReportEffect DEF UrlInvalid
  <2>3. QED
    BY <1>5, <2>1, <2>2 DEF UrlInvalid, Fail, Return
<1>6. CASE HeadersWritten
  BY <1>6 DEF HeadersWritten
<1>7. ASSUME NEW s \in pending, Execute(s) PROVE TypeOK'
  BY <1>7 DEF Execute
<1>8. ASSUME NEW a \in Answers, Respond(a) PROVE TypeOK'
  BY <1>8 DEF Respond
<1>9. CASE RefreshSucceeds \/ RefreshFails
  BY <1>9 DEF RefreshSucceeds, RefreshFails
<1>10. CASE TransportFails
  <2>1. ASSUME last # None
        PROVE  [by |-> last.by, what |-> last.what] \in Replies /\ last.by \in Candidates
    BY <2>1 DEF Replies
  <2>2. ASSUME NEW code \in {"uncertain_submission", "upstream_error"}
        PROVE  [by |-> None, what |-> code] \in Replies
    BY DEF Replies, GatewayErrors
  <2>3. QED
    BY <1>10, <2>1, <2>2, ReportEffect DEF TransportFails, Continue, WriteLast, Fail, Return
<1>11. CASE StatusUncertain
  BY <1>11, ReportEffect DEF StatusUncertain, Fail, Return, Replies, GatewayErrors
<1>12. CASE StatusRetryable
  <2>1. [by |-> lease, what |-> answer.status] \in Replies
    BY <1>12 DEF StatusRetryable, Replies, Answers
  <2>2. [by |-> lease, what |-> answer.status] \in [by : Candidates, what : Statuses]
    BY <1>12 DEF StatusRetryable, Answers
  <2>3. QED
    BY <1>12, <2>1, <2>2, ReportEffect DEF StatusRetryable, Continue, Return
<1>13. CASE StartStream
  BY <1>13 DEF StartStream
<1>14. CASE StreamCompletes \/ StreamBreaks \/ DownstreamFails
  <2>1. /\ [by |-> None, what |-> "incomplete_response"] \in Replies
        /\ [by |-> lease, what |-> "broken"] \in Replies
        /\ [by |-> lease, what |-> answer.status] \in Replies
    BY <1>14 DEF StreamCompletes, StreamBreaks, DownstreamFails, Replies, GatewayErrors, Answers
  <2>2. QED
    BY <1>14, <2>1, ReportEffect DEF StreamCompletes, StreamBreaks, DownstreamFails, Fail, Return
<1>15. CASE UNCHANGED vars
  BY <1>15 DEF vars
<1>16. QED
  BY <1>1, <1>2, <1>3, <1>4, <1>5, <1>6, <1>7, <1>8, <1>9, <1>10, <1>11, <1>12, <1>13,
     <1>14, <1>15 DEF Next, Gateway, Upstream

\* The handler's own variables stay in step with its stage, and whatever is
\* written to the client is on behalf of the account on record.
LEMMA HandlerStep ==
  ASSUME TypeOK, StageInv, AnswerAttributed, [Next]_vars
  PROVE  StageInv' /\ AnswerAttributed'
<1> USE FailoverAssumption DEF TypeOK, StageInv, AnswerAttributed, Attempts, Busy, upstream
<1>1. CASE ClientLeaves
  BY <1>1 DEF ClientLeaves
<1>2. ASSUME NEW c \in Candidates, Select(c) PROVE StageInv' /\ AnswerAttributed'
  BY <1>2 DEF Select
<1>3. CASE SelectFails
  BY <1>3 DEF SelectFails, WriteLast, Fail, Return
<1>4. CASE RewriteFails \/ Rewrite \/ Submit
  BY <1>4 DEF RewriteFails, Rewrite, Submit, Fail, Return
<1>5. CASE UrlInvalid
  BY <1>5 DEF UrlInvalid, Fail, Return
<1>6. CASE HeadersWritten
  BY <1>6 DEF HeadersWritten
<1>7. ASSUME NEW s \in pending, Execute(s) PROVE StageInv' /\ AnswerAttributed'
  BY <1>7 DEF Execute
<1>8. ASSUME NEW a \in Answers, Respond(a) PROVE StageInv' /\ AnswerAttributed'
  BY <1>8 DEF Respond
<1>9. CASE RefreshSucceeds \/ RefreshFails
  <2>1. CASE RefreshSucceeds
    BY <2>1 DEF RefreshSucceeds
  <2>2. CASE RefreshFails
    BY <2>2 DEF RefreshFails
  <2>3. QED
    BY <1>9, <2>1, <2>2
<1>10. CASE TransportFails
  BY <1>10 DEF TransportFails, Continue, WriteLast, Fail, Return
<1>11. CASE StatusUncertain
  BY <1>11 DEF StatusUncertain, Fail, Return
<1>12. CASE StatusRetryable
  BY <1>12 DEF StatusRetryable, Retryable, Continue, Return
<1>13. CASE StartStream
  BY <1>13 DEF StartStream
<1>14. CASE StreamCompletes \/ StreamBreaks \/ DownstreamFails
  BY <1>14 DEF StreamCompletes, StreamBreaks, DownstreamFails, Fail, Return
<1>15. CASE UNCHANGED vars
  BY <1>15 DEF vars
<1>16. QED
  BY <1>1, <1>2, <1>3, <1>4, <1>5, <1>6, <1>7, <1>8, <1>9, <1>10, <1>11, <1>12, <1>13,
     <1>14, <1>15 DEF Next, Gateway, Upstream

\* Only the submission in flight is ever outstanding.
LEMMA SubmissionStep ==
  ASSUME TypeOK, StageInv, SubmissionInv, [Next]_vars
  PROVE  SubmissionInv'
<1> USE FailoverAssumption DEF TypeOK, StageInv, SubmissionInv, Busy, Quiet, NothingOut, upstream
<1>a. ASSUME UNCHANGED upstream, pc' = "done",
             reply' # None /\ reply'.what = "success" => executed # {}
      PROVE  SubmissionInv'
  BY <1>a
<1>1. CASE ClientLeaves
  BY <1>1 DEF ClientLeaves, Settled
<1>2. ASSUME NEW c \in Candidates, Select(c) PROVE SubmissionInv'
  BY <1>2 DEF Select
<1>3. CASE SelectFails
  <2>1. reply' # None => reply'.what # "success"
    BY <1>3 DEF SelectFails, WriteLast, Fail, Return
  <2>2. QED
    BY <1>3, <1>a, <2>1 DEF SelectFails, WriteLast, Fail, Return
<1>4. CASE RewriteFails \/ Rewrite
  <2>1. CASE RewriteFails
    BY <2>1, <1>a DEF RewriteFails, Fail, Return
  <2>2. CASE Rewrite
    BY <2>2 DEF Rewrite
  <2>3. QED
    BY <1>4, <2>1, <2>2
<1>5. CASE Submit
  BY <1>5 DEF Submit
<1>6. CASE UrlInvalid
  <2>1. reply' # None => reply'.what # "success"
    BY <1>6 DEF UrlInvalid, Fail, Return
  <2>2. QED
    BY <1>6, <1>a, <2>1 DEF UrlInvalid, Fail, Return
<1>7. CASE HeadersWritten
  BY <1>7 DEF HeadersWritten
<1>8. ASSUME NEW s \in pending, Execute(s) PROVE SubmissionInv'
  BY <1>8 DEF Execute, Settled
<1>9. ASSUME NEW a \in Answers, Respond(a) PROVE SubmissionInv'
  \* An honest answer that settles the submission finds it not executed.
  <2>1. Settled(a) => executed = {} /\ pending \ {sends} = {}
    BY <1>9 DEF Respond, Honest, Settled
  <2>2. a.status = "success" => executed # {}
    BY <1>9 DEF Respond, Honest
  <2>3. a.status = "unauthorized" => Settled(a)
    BY DEF Settled
  <2>4. Settled(answer)' <=> Settled(a)
    BY <1>9 DEF Respond, Settled
  <2>5. QED
    BY <1>9, <2>1, <2>2, <2>3, <2>4 DEF Respond
<1>10. CASE RefreshSucceeds
  BY <1>10 DEF RefreshSucceeds
<1>11. CASE RefreshFails
  BY <1>11 DEF RefreshFails, Settled
<1>12. CASE TransportFails
  <2>1. CASE pc' = "done"
    <3>1. reply' # None => reply'.what # "success"
      BY <1>12, <2>1 DEF TransportFails, Continue, WriteLast, Fail, Return
    <3>2. UNCHANGED upstream
      BY <1>12 DEF TransportFails, Continue, WriteLast, Fail, Return
    <3>3. QED
      BY <1>a, <2>1, <3>1, <3>2
  <2>2. CASE pc' # "done"
    BY <1>12, <2>2 DEF TransportFails, Continue, WriteLast, Fail, Return
  <2>3. QED
    BY <2>1, <2>2
<1>13. CASE StatusUncertain
  BY <1>13 DEF StatusUncertain, Fail, Return
<1>14. CASE StatusRetryable
  <2>1. Settled(answer) /\ answer.status # "success"
    BY <1>14 DEF StatusRetryable, Retryable, RetrySafe, Settled
  <2>2. QED
    BY <1>14, <2>1 DEF StatusRetryable, Continue, Return
<1>15. CASE StartStream
  BY <1>15 DEF StartStream
<1>16. CASE StreamCompletes \/ StreamBreaks \/ DownstreamFails
  <2>1. reply' # None /\ reply'.what = "success" => answer.status = "success"
    BY <1>16 DEF StreamCompletes, StreamBreaks, DownstreamFails, Fail, Return
  <2>2. UNCHANGED upstream /\ pc' = "done" /\ pc = "stream"
    BY <1>16 DEF StreamCompletes, StreamBreaks, DownstreamFails, Fail, Return
  <2>3. QED
    BY <1>a, <2>1, <2>2
<1>17. CASE UNCHANGED vars
  BY <1>17 DEF vars, Settled
<1>18. QED
  BY <1>1, <1>2, <1>3, <1>4, <1>5, <1>6, <1>7, <1>8, <1>9, <1>10, <1>11, <1>12, <1>13,
     <1>14, <1>15, <1>16, <1>17 DEF Next, Gateway, Upstream

\* An attempt is reported by the step that ends it.
LEMMA ReportStep ==
  ASSUME TypeOK, StageInv, ReportInv, ReportedOnce, [Next]_vars
  PROVE  ReportInv' /\ ReportedOnce'
<1> USE FailoverAssumption DEF TypeOK, StageInv, ReportInv, ReportedOnce, Attempts, Busy, upstream
<1>1. ASSUME NEW c \in Candidates, Select(c) PROVE ReportInv' /\ ReportedOnce'
  BY <1>1 DEF Select
<1>2. CASE UNCHANGED <<attempt, reports>> /\ (pc \in Busy \/ pc' \notin Busy)
  BY <1>2
<1>3. ASSUME Report, UNCHANGED attempt, pc \in Busy, pc' \notin Busy
      PROVE  ReportInv' /\ ReportedOnce'
  BY <1>3, ReportEffect
<1> USE <1>2, <1>3
<1>4. CASE ClientLeaves \/ HeadersWritten \/ Rewrite \/ RewriteFails \/ Submit
  BY <1>4 DEF ClientLeaves, HeadersWritten, Rewrite, RewriteFails, Submit, Fail, Return
<1>5. CASE SelectFails
  BY <1>5 DEF SelectFails, WriteLast, Fail, Return
<1>6. CASE UrlInvalid
  BY <1>6 DEF UrlInvalid, Fail, Return
<1>7. ASSUME NEW s \in pending, Execute(s) PROVE ReportInv' /\ ReportedOnce'
  BY <1>7 DEF Execute
<1>8. ASSUME NEW a \in Answers, Respond(a) PROVE ReportInv' /\ ReportedOnce'
  BY <1>8 DEF Respond
<1>9. CASE RefreshSucceeds \/ RefreshFails \/ StartStream
  BY <1>9 DEF RefreshSucceeds, RefreshFails, StartStream
<1>10. CASE TransportFails
  BY <1>10 DEF TransportFails, Continue, WriteLast, Fail, Return
<1>11. CASE StatusUncertain
  BY <1>11 DEF StatusUncertain, Fail, Return
<1>12. CASE StatusRetryable
  BY <1>12 DEF StatusRetryable, Continue, Return
<1>13. CASE StreamCompletes \/ StreamBreaks \/ DownstreamFails
  BY <1>13 DEF StreamCompletes, StreamBreaks, DownstreamFails, Fail, Return
<1>14. CASE UNCHANGED vars
  BY <1>14 DEF vars
<1>15. QED
  BY <1>1, <1>4, <1>5, <1>6, <1>7, <1>8, <1>9, <1>10, <1>11, <1>12, <1>13, <1>14
     DEF Next, Gateway, Upstream

\* How the trusted candidates tried so far are counted.
LEMMA TrustedTried ==
  ASSUME TypeOK
  PROVE  /\ Cardinality(excluded \cap Trusted) \in Nat
         /\ Earlier \in Nat
         /\ Earlier <= Cardinality(excluded \cap Trusted)
         /\ lease \in excluded \cap Trusted =>
              Earlier + 1 = Cardinality(excluded \cap Trusted)
<1>1. IsFiniteSet(excluded \cap Trusted)
  BY FS_Subset, FailoverAssumption DEF TypeOK
<1>2. (excluded \ {lease}) \cap Trusted = (excluded \cap Trusted) \ {lease}
  OBVIOUS
<1>3. Cardinality(excluded \cap Trusted) \in Nat
  BY <1>1, FS_CardinalityType
<1>4. CASE lease \in excluded \cap Trusted
  <2>1. Earlier = Cardinality(excluded \cap Trusted) - 1
    BY <1>1, <1>2, <1>4, FS_RemoveElement DEF Earlier
  <2>2. Earlier \in Nat
    BY <1>1, <1>2, FS_RemoveElement, FS_Subset, FS_CardinalityType DEF Earlier
  <2>3. QED
    BY <1>3, <2>1, <2>2
<1>5. CASE lease \notin excluded \cap Trusted
  BY <1>2, <1>3, <1>5 DEF Earlier
<1>6. QED
  BY <1>4, <1>5, <1>3

\* Selecting a candidate leaves all those tried before among the earlier ones.
LEMMA SelectTried ==
  ASSUME TypeOK, NEW c \in Candidates, Select(c)
  PROVE  /\ Earlier' \in Nat
         /\ Cardinality(excluded \cap Trusted) <= Earlier'
<1>1. excluded \cap Trusted \subseteq (excluded' \ {lease'}) \cap Trusted
  BY DEF Select
<1>2. IsFiniteSet((excluded' \ {lease'}) \cap Trusted)
  BY FS_Subset, FailoverAssumption
<1>3. QED
  BY <1>1, <1>2, FS_Subset, FS_CardinalityType DEF Earlier

\* No attempt submits more often than it pays for.
LEMMA CostStep ==
  ASSUME TypeOK, TypeOK', StageInv, CostInv, [Next]_vars
  PROVE  CostInv'
<1> DEFINE tried == Cardinality(excluded \cap Trusted)
<1>a. /\ tried \in Nat /\ Earlier \in Nat /\ Earlier <= tried
      /\ lease \in excluded \cap Trusted => Earlier + 1 = tried
  BY TrustedTried
<1>b. attempt \in Nat /\ sends \in Nat
  BY FailoverAssumption DEF TypeOK
<1>c. UNCHANGED excluded => tried' = tried
  OBVIOUS
<1>d. UNCHANGED <<excluded, lease>> => Earlier' = Earlier
  BY DEF Earlier
<1> HIDE DEF tried
<1>e. SubmissionsBounded <=> sends <= attempt + tried
  BY DEF SubmissionsBounded, tried
<1>f. SubmissionsBounded' <=> sends' <= attempt' + tried'
  BY DEF SubmissionsBounded, tried
<1>g. ASSUME UNCHANGED <<excluded, attempt, sends>>, pc' \in {"select", "done"}
      PROVE  CostInv'
  BY <1>c, <1>e, <1>f, <1>g DEF CostInv, Busy
<1>2. ASSUME NEW c \in Candidates, Select(c) PROVE CostInv'
  <2>1. pc' = "prepare" /\ lease' \in excluded' /\ attempt' = attempt + 1 /\ sends' = sends
    BY <1>2 DEF Select, upstream
  <2>2. tried <= Earlier' /\ Earlier' \in Nat
    BY <1>2, SelectTried DEF tried
  <2>3. Earlier' <= tried' /\ tried' \in Nat
    <3>1. (excluded' \ {lease'}) \cap Trusted \subseteq excluded' \cap Trusted
      OBVIOUS
    <3>2. IsFiniteSet(excluded' \cap Trusted)
      BY FS_Subset, FailoverAssumption
    <3>3. QED
      BY <3>1, <3>2, FS_Subset, FS_CardinalityType DEF Earlier, tried
  <2>4. sends <= attempt + tried
    BY <1>2, <1>e DEF Select, CostInv
  <2>5. PICK t \in Nat, e \in Nat, n \in Nat : t = tried /\ e = Earlier' /\ n = tried'
    BY <1>a, <2>2, <2>3
  <2>6. sends <= attempt + t /\ t <= e /\ e <= n
    BY <2>2, <2>3, <2>4, <2>5
  <2>7. sends < attempt + 1 + e /\ sends <= attempt + 1 + n
    BY <1>b, <2>6
  <2>8. sends' < attempt' + e /\ sends' <= attempt' + n
    BY <2>1, <2>7
  <2>9. QED
    BY <1>f, <2>1, <2>5, <2>8 DEF CostInv, Busy
<1> USE <1>a, <1>b, <1>c, <1>d, <1>e, <1>f DEF CostInv, Busy, upstream
<1>1. CASE ClientLeaves \/ HeadersWritten \/ StartStream
  BY <1>1 DEF ClientLeaves, HeadersWritten, StartStream
<1>3. CASE SelectFails
  BY <1>3, <1>g DEF SelectFails, WriteLast, Fail, Return
<1>4. CASE RewriteFails
  BY <1>4, <1>g DEF RewriteFails, Fail, Return
<1>5. CASE Rewrite
  BY <1>5 DEF Rewrite
<1>6. CASE Submit
  BY <1>6 DEF Submit
<1>7. CASE UrlInvalid
  BY <1>7, <1>g DEF UrlInvalid, Fail, Return
<1>8. ASSUME NEW s \in pending, Execute(s) PROVE CostInv'
  BY <1>8 DEF Execute
<1>9. ASSUME NEW a \in Answers, Respond(a) PROVE CostInv'
  BY <1>9 DEF Respond
<1>10. CASE RefreshSucceeds
  BY <1>10 DEF RefreshSucceeds
<1>11. CASE RefreshFails
  BY <1>11 DEF RefreshFails
<1>12. CASE TransportFails
  BY <1>12, <1>g DEF TransportFails, Continue, WriteLast, Fail, Return
<1>13. CASE StatusUncertain
  BY <1>13, <1>g DEF StatusUncertain, Fail, Return
<1>14. CASE StatusRetryable
  BY <1>14, <1>g DEF StatusRetryable, Continue, Return
<1>15. CASE StreamCompletes \/ StreamBreaks \/ DownstreamFails
  BY <1>15, <1>g DEF StreamCompletes, StreamBreaks, DownstreamFails, Fail, Return
<1>16. CASE UNCHANGED vars
  BY <1>16 DEF vars
<1>17. QED
  BY <1>1, <1>2, <1>3, <1>4, <1>5, <1>6, <1>7, <1>8, <1>9, <1>10, <1>11, <1>12, <1>13,
     <1>14, <1>15, <1>16 DEF Next, Gateway, Upstream

\* The invariant holds of every reachable state.
THEOREM FailoverInvariant == Spec => []IInv
<1>1. IInv /\ [Next]_vars => IInv'
  BY TypeStep, HandlerStep, SubmissionStep, ReportStep, CostStep DEF IInv
<1>2. QED
  BY InitInv, <1>1, PTL DEF Spec

-----------------------------------------------------------------------------
(* The properties the runs check.                                          *)

\* Every variable of the handler and of the upstreams keeps its type.
THEOREM FailoverTypeOK == Spec => []TypeOK
  BY FailoverInvariant, PTL DEF IInv

\* However the attempts of a request end, each is reported to the breaker of
\* its account at most once.
THEOREM FailoverReportedOnce == Spec => []ReportedOnce
  BY FailoverInvariant, PTL DEF IInv

\* The request record names the account that answered, also when the buffered
\* answer of an earlier attempt is replayed.
THEOREM FailoverAnswerAttributed == Spec => []AnswerAttributed
  BY FailoverInvariant, PTL DEF IInv

\* A request costs one submission for each attempt and one more for each trusted
\* candidate, whose credential may be refreshed once.
THEOREM FailoverSubmissionsBounded == Spec => []SubmissionsBounded
  BY FailoverInvariant, PTL DEF IInv, CostInv

\* The four together: what the breaker, the statistics and the log are told of a
\* request is true, and its cost is bounded.
THEOREM FailoverAttemptsAccounted == Spec => []AttemptsAccounted
  BY FailoverTypeOK, FailoverReportedOnce, FailoverAnswerAttributed,
     FailoverSubmissionsBounded, PTL DEF AttemptsAccounted

\* A body goes to the transport only while no upstream has executed the work
\* or may yet do so: failover and credential refresh never replay a request.
THEOREM FailoverNoReplay == Spec => NoReplay
<1>1. ASSUME IInv, [Next]_vars, sends' # sends
      PROVE  executed = {} /\ pending = {}
  <2>1. Submit
    BY <1>1 DEF Next, Gateway, Upstream, vars, upstream, ClientLeaves, Select, SelectFails,
                RewriteFails, Rewrite, UrlInvalid, HeadersWritten, Execute, Respond,
                RefreshSucceeds, RefreshFails, TransportFails, StatusUncertain, StatusRetryable,
                StartStream, StreamCompletes, StreamBreaks, DownstreamFails, Continue,
                WriteLast, Fail, Return
  <2>2. QED
    BY <1>1, <2>1 DEF Submit, IInv, SubmissionInv, Quiet, NothingOut
<1>2. IInv /\ [Next]_vars => [NothingOutstanding]_vars
  BY <1>1 DEF NothingOutstanding
<1>3. QED
  BY <1>2, FailoverInvariant, PTL DEF Spec, NoReplay

-----------------------------------------------------------------------------
(* Failover implements SubmitOnce.                                         *)

\* Nothing or one submission: what the client pays for.
LEMMA ExecutionCount ==
  ASSUME NEW S, NEW k, S \subseteq {k}
  PROVE  Cardinality(S) = IF S = {} THEN 0 ELSE 1
<1>1. CASE S = {}
  BY <1>1, FS_EmptySet
<1>2. CASE S = {k}
  BY <1>2, FS_Singleton
<1>3. QED
  BY <1>1, <1>2

\* The upstreams change what they have executed by executing one submission,
\* and the handler's outcome does not change with it.
LEMMA ExecutedOnlyByUpstream ==
  ASSUME [Next]_vars
  PROVE  \/ executed' = executed
         \/ \E s \in pending : Execute(s)
  BY DEF Next, Gateway, Upstream, vars, upstream, ClientLeaves, Select, SelectFails,
         RewriteFails, Rewrite, Submit, UrlInvalid, HeadersWritten, Execute, Respond,
         RefreshSucceeds, RefreshFails, TransportFails, StatusUncertain, StatusRetryable,
         StartStream, StreamCompletes, StreamBreaks, DownstreamFails, Continue,
         WriteLast, Fail, Return

\* A finished request stays finished.
LEMMA DoneIsFinal ==
  ASSUME [Next]_vars, pc = "done"
  PROVE  pc' = "done" /\ reply' = reply
  BY DEF Next, Gateway, Upstream, vars, upstream, ClientLeaves, Select, SelectFails,
         RewriteFails, Rewrite, Submit, UrlInvalid, HeadersWritten, Execute, Respond,
         RefreshSucceeds, RefreshFails, TransportFails, StatusUncertain, StatusRetryable,
         StartStream, StreamCompletes, StreamBreaks, DownstreamFails

\* A request starts open and not executed.
LEMMA OnceInit == Init => Once!Init
  BY FS_EmptySet DEF Init, Once!Init

\* Every step executes the work for the first time, closes the request, or is
\* not visible to the client.
LEMMA OnceStep ==
  ASSUME IInv, IInv', [Next]_vars
  PROVE  [Once!Next]_(Once!onceVars)
<1> DEFINE n == Cardinality(executed)
<1>1. n = (IF executed = {} THEN 0 ELSE 1) /\ n' = IF executed' = {} THEN 0 ELSE 1
  <2>1. executed \subseteq {sends} /\ executed' \subseteq {sends'}
    BY DEF IInv, SubmissionInv
  <2>2. QED
    BY <2>1, ExecutionCount
<1>2. ASSUME NEW s \in pending, Execute(s)
      PROVE  n = 0 /\ n' = 1 /\ UNCHANGED <<pc, reply>>
  BY <1>1, <1>2 DEF Execute, IInv, SubmissionInv
<1>3. ASSUME executed' = executed, pc # "done", pc' = "done",
             reply' # None, reply'.what = "success"
      PROVE  n = 1 /\ n' = n
  BY <1>1, <1>3 DEF IInv, SubmissionInv
<1> HIDE DEF n
<1>4. CASE \E s \in pending : Execute(s)
  BY <1>2, <1>4 DEF Once!Next, Once!Execute, n
<1>5. CASE executed' = executed
  <2>1. n' = n
    BY <1>5 DEF n
  <2>2. CASE pc # "done" /\ pc' = "done"
    BY <1>3, <1>5, <2>1, <2>2 DEF Once!Next, Once!Succeed, Once!GiveUp, n
  <2>3. CASE pc = "done" \/ pc' # "done"
    BY <2>1, <2>3, DoneIsFinal DEF Once!onceVars, n
  <2>4. QED
    BY <2>2, <2>3
<1>6. QED
  BY <1>4, <1>5, ExecutedOnlyByUpstream

\* A client that sees only its reply and the effects of its work cannot tell
\* how many accounts were tried: the work is done at most once, and a success
\* is reported only for work that was done.
THEOREM FailoverImplementsSubmitOnce == Spec => ImplementsSubmitOnce
  BY OnceInit, OnceStep, FailoverInvariant, PTL
     DEF Spec, ImplementsSubmitOnce, Once!Spec

-----------------------------------------------------------------------------
(* StreamRelay implements Failover.                                        *)

\* Every step of a relay is a step of the loop or invisible to it.
LEMMA RelayStep == [RelayNext]_all => [Next]_vars
<1> SUFFICES ASSUME [RelayNext]_all PROVE [Next]_vars
  OBVIOUS
<1>1. CASE UNCHANGED all
  BY <1>1 DEF all
<1>2. CASE RelayNext
  <2>1. CASE ServeGateway
    <3>1. Elsewhere => Gateway
      BY DEF Elsewhere, Gateway
    <3>2. StartRelay => Gateway
      BY DEF StartRelay, Gateway
    <3>3. Buffered => Gateway
      BY DEF Buffered, Gateway
    <3>4. RelayReturns => StreamCompletes \/ StreamBreaks \/ DownstreamFails
      BY DEF RelayReturns
    <3>5. QED
      BY <1>2, <2>1, <3>1, <3>2, <3>3, <3>4 DEF RelayNext, ServeGateway, Next
  <2>2. CASE Upstream \/ ClientLeaves
    BY <1>2, <2>2 DEF RelayNext, Next
  <2>3. CASE UNCHANGED vars
    BY <2>3
  <2>4. QED
    BY <1>2, <2>1, <2>2, <2>3 DEF RelayNext, all
<1>3. QED
  BY <1>1, <1>2

\* Reading an answer chunk by chunk implements the loop that reads it in one step.
THEOREM RelayImplementsFailover == RelaySpec => Spec
<1>1. RelayInit => Init
  BY DEF RelayInit
<1>2. QED
  BY <1>1, RelayStep, PTL DEF RelaySpec, Spec

\* What the breaker, the statistics and the log are told is true, and the cost
\* of a request is bounded, however its answers are read.
THEOREM RelayAttemptsAccounted == RelaySpec => []AttemptsAccounted
  BY RelayImplementsFailover, FailoverAttemptsAccounted

\* Nothing is submitted again because a relay or a buffer broke off.
THEOREM RelayNoReplay == RelaySpec => NoReplay
  BY RelayImplementsFailover, FailoverNoReplay

\* The client cannot tell how many accounts were tried, nor how they were read.
THEOREM RelayImplementsSubmitOnce == RelaySpec => ImplementsSubmitOnce
  BY RelayImplementsFailover, FailoverImplementsSubmitOnce

-----------------------------------------------------------------------------
(* The inductive invariant of a relay.                                     *)

\* Which body is read at which stage of the loop.
StageOfRelay ==
  /\ step = "idle" => NotReading
  /\ step # "idle" => kind # "none"
  /\ pc \notin {"respond", "stream", "done"} => step = "idle"
  /\ pc = "respond" /\ step # "idle" => kind = "refusal" /\ Retryable(answer)
  /\ pc = "stream" => step # "idle"
  /\ pc = "done" => step \in {"idle", "returned"}
  /\ kind = "refusal" => pc = "respond"
  /\ kind \in {"stream", "document"} /\ pc = "stream" => answer.status = "success"
  /\ kind = "opaque" /\ pc = "stream" => answer.status # "success"
  /\ step = "returned" => reader \in {"none", "gone"}
  /\ result # "none" <=> step \in {"closing", "returned"}

\* Where the chunks are that were taken.
ChunksInv ==
  /\ kind \in {"stream", "opaque"} /\ step # "returned" => committed
  /\ committed => preview = 0 /\ kind # "refusal"
  /\ kind = "document" /\ ~committed => shown = 0
  /\ kind # "refusal" /\ step \in {"select", "end"} => fed = shown + preview
  /\ kind # "refusal" /\ step = "deliver" => fed = shown + preview + 1
  /\ kind = "document" /\ committed /\ result \in Failures \cup {"none"} => fed > PreviewChunks
  /\ result = "complete" /\ kind \in {"stream", "document"} =>
       verdict = "whole" /\ shown = fed

\* The timer stands still while the client is written to.
TimerInv ==
  /\ step = "deliver" => timer = "stopped"
  /\ expiredAt # "deliver"

\* What a finished request was answered, and by which relay.
AnswerInv ==
  /\ reply # None /\ reply.what = "success" =>
       result = "complete" /\ kind \in {"stream", "document"}
  /\ pc = "done" /\ kind = "document" /\ result \in Failures =>
       gone \/ committed \/ reply.by = None

RelayInv ==
  RelayTypeOK /\ StageOfRelay /\ ChunksInv /\ TimerInv /\ AnswerInv

-----------------------------------------------------------------------------
(* Inductiveness.                                                          *)

\* A fresh relay satisfies everything that is said of its own variables.
LEMMA FreshRelay ==
  ASSUME NotReading
  PROVE  /\ RelayTypeOK /\ ChunksInv /\ TimerInv
         /\ kind = "none" /\ reader = "none" /\ result = "none" /\ step = "idle"
  BY DEF NotReading, RelayTypeOK, Events, Nothing, ChunksInv, TimerInv, Failures

\* No answer is read at first.
LEMMA RelayInitInv == RelayInit => RelayInv
<1> SUFFICES ASSUME RelayInit PROVE RelayInv
  OBVIOUS
<1>1. NotReading /\ pc = "select" /\ reply = None
  BY DEF RelayInit, Init
<1>2. StageOfRelay
  BY <1>1, FreshRelay DEF StageOfRelay
<1>3. AnswerInv
  BY <1>1, FreshRelay DEF AnswerInv
<1>4. QED
  BY <1>1, <1>2, <1>3, FreshRelay DEF RelayInv

\* The steps of the loop that read no body find no relay under way.
LEMMA ElsewhereStep ==
  ASSUME IInv, RelayInv, Elsewhere, UNCHANGED relay
  PROVE  RelayInv'
<1>1. step = "idle"
  <2>1. pc \in {"select", "prepare", "send", "flight", "recover"}
        \/ (pc = "respond" /\ Uncertain(answer))
    BY DEF Elsewhere, Select, SelectFails, RewriteFails, Rewrite, Submit, UrlInvalid,
           RefreshSucceeds, RefreshFails, TransportFails, StatusUncertain
  <2>2. Uncertain(answer) => ~Retryable(answer)
    BY DEF Uncertain, Retryable
  <2>3. QED
    BY <2>1, <2>2 DEF RelayInv, StageOfRelay
<1>2. NotReading /\ NotReading'
  BY <1>1 DEF RelayInv, StageOfRelay, relay, NotReading
<1>3. reply' = None \/ reply'.what # "success"
  BY DEF IInv, StageInv, Elsewhere, Select, SelectFails, RewriteFails, Rewrite, Submit,
         UrlInvalid, RefreshSucceeds, RefreshFails, TransportFails, StatusUncertain,
         WriteLast, Fail, Return, Continue
<1>4. pc' # "stream"
  BY DEF Elsewhere, Select, SelectFails, RewriteFails, Rewrite, Submit, UrlInvalid,
         RefreshSucceeds, RefreshFails, TransportFails, StatusUncertain, WriteLast, Fail,
         Return, Continue
<1>5. StageOfRelay'
  BY <1>2, <1>4, FreshRelay DEF StageOfRelay, NotReading
<1>6. AnswerInv'
  BY <1>2, <1>3 DEF AnswerInv, NotReading
<1>7. (RelayTypeOK /\ ChunksInv /\ TimerInv)'
  BY <1>2 DEF NotReading, RelayTypeOK, Events, Nothing, ChunksInv, TimerInv, Failures
<1>8. QED
  BY <1>5, <1>6, <1>7 DEF RelayInv

\* Upstreams and the client leave the relay alone.
LEMMA OutsideStep ==
  ASSUME IInv, RelayInv, Upstream \/ ClientLeaves, UNCHANGED relay, UNCHANGED targeted
  PROVE  RelayInv'
<1> USE DEF RelayInv, StageOfRelay, AnswerInv, relay
<1>1. (RelayTypeOK /\ ChunksInv /\ TimerInv)'
  BY DEF RelayTypeOK, ChunksInv, TimerInv
<1>2. NotReading' <=> NotReading
  BY DEF NotReading
<1>3. ASSUME UNCHANGED <<pc, answer, lease, targeted, reply>>, pc # "done" \/ UNCHANGED gone
      PROVE  RelayInv'
  <2>1. Retryable(answer)' <=> Retryable(answer)
    BY <1>3 DEF Retryable, RetrySafe
  <2>2. StageOfRelay'
    BY <1>2, <1>3, <2>1
  <2>3. AnswerInv'
    BY <1>3
  <2>4. QED
    BY <1>1, <2>2, <2>3
<1>4. CASE ClientLeaves
  BY <1>3, <1>4 DEF ClientLeaves
<1>5. CASE HeadersWritten
  BY <1>3, <1>5 DEF HeadersWritten
<1>6. ASSUME NEW s \in pending, Execute(s) PROVE RelayInv'
  BY <1>3, <1>6 DEF Execute
<1>7. ASSUME NEW a \in Answers, Respond(a) PROVE RelayInv'
  <2>1. pc = "flight" /\ pc' \in {"recover", "respond"} /\ UNCHANGED <<reply, gone>>
    BY <1>7 DEF Respond
  <2>2. step = "idle"
    BY <2>1
  <2>3. StageOfRelay' /\ AnswerInv'
    BY <1>2, <2>1, <2>2, FreshRelay
  <2>4. QED
    BY <1>1, <2>3
<1>8. QED
  BY <1>4, <1>5, <1>6, <1>7 DEF Upstream

\* The loop starts to relay an answer, or to buffer a refusal.
LEMMA StartStep ==
  ASSUME IInv, RelayInv, StartRelay \/ (StartBuffer /\ UNCHANGED vars)
  PROVE  RelayInv'
<1>1. step = "idle" /\ NotReading
  BY DEF StartRelay, StartBuffer, Begin, Mismatched, RelayInv, StageOfRelay
<1>2. pc = "respond" /\ reply = None /\ reply' = None /\ answer' = answer
  BY DEF StartRelay, StartStream, StartBuffer, vars, IInv, StageInv
<1>3. CASE StartBuffer /\ UNCHANGED vars
  <2>1. pc' = "respond" /\ Retryable(answer)'
    BY <1>3 DEF StartBuffer, vars, Retryable, RetrySafe
  <2>2. QED
    BY <1>1, <1>2, <1>3, <2>1 DEF StartBuffer, Begin, NotReading, RelayInv, RelayTypeOK, Events,
       Nothing, Failures, StageOfRelay, ChunksInv, TimerInv, AnswerInv
<1>4. CASE StartRelay
  <2>1. pc' = "stream"
    BY <1>4 DEF StartRelay, StartStream
  <2>2. ASSUME NEW k \in {"stream", "document", "opaque"}, Begin(k) \/ Mismatched(k),
               k = "opaque" <=> answer.status # "success"
        PROVE  RelayInv'
    <3> USE <1>1, <1>2, <2>1 DEF NotReading, Failures
    <3>1. CASE Begin(k)
      <4>1. RelayTypeOK'
        BY <2>2, <3>1 DEF Begin, RelayTypeOK, Events, Nothing
      <4>2. ChunksInv' /\ TimerInv'
        BY <2>2, <3>1 DEF Begin, ChunksInv, TimerInv
      <4>3. StageOfRelay' /\ AnswerInv'
        BY <2>2, <3>1 DEF Begin, StageOfRelay, AnswerInv
      <4>4. QED
        BY <4>1, <4>2, <4>3 DEF RelayInv
    <3>2. CASE Mismatched(k)
      <4>1. (RelayTypeOK /\ ChunksInv /\ TimerInv)'
        BY <2>2, <3>2 DEF Mismatched, RelayTypeOK, Events, Nothing, ChunksInv, TimerInv
      <4>2. StageOfRelay' /\ AnswerInv'
        BY <2>2, <3>2 DEF Mismatched, StageOfRelay, AnswerInv
      <4>3. QED
        BY <4>1, <4>2 DEF RelayInv
    <3>3. QED
      BY <2>2, <3>1, <3>2
  <2>3. QED
    BY <1>4, <2>2 DEF StartRelay
<1>5. QED
  BY <1>3, <1>4

\* The loop takes note of what came of a relay or a buffer.
LEMMA ReturnStep ==
  ASSUME IInv, RelayInv, Buffered \/ RelayReturns
  PROVE  RelayInv'
<1>1. CASE Buffered
  <2>1. NotReading'
    BY <1>1 DEF Buffered, Forget, NotReading
  <2>2. pc' # "stream" /\ (reply' = None \/ reply'.what # "success")
    BY <1>1 DEF Buffered, StatusRetryable, Retryable, Return, Continue, IInv, StageInv
  <2>3. QED
    BY <2>1, <2>2 DEF NotReading, RelayInv, RelayTypeOK, Events, Nothing, Failures, StageOfRelay,
       ChunksInv, TimerInv, AnswerInv
<1>2. CASE RelayReturns
  <2>1. pc = "stream" /\ pc' = "done" /\ UNCHANGED <<answer, gone>> /\ UNCHANGED relay
    BY <1>2 DEF RelayReturns, StreamCompletes, StreamBreaks, DownstreamFails, Fail, Return
  <2>2. (RelayTypeOK /\ ChunksInv /\ TimerInv)'
    BY <2>1 DEF RelayInv, RelayTypeOK, ChunksInv, TimerInv, relay
  <2>3. StageOfRelay'
    BY <1>2, <2>1 DEF RelayReturns, RelayInv, StageOfRelay, relay, NotReading
  <2>4. kind \in {"stream", "document", "opaque"}
    BY <2>1 DEF RelayInv, StageOfRelay, RelayTypeOK
  <2>5. reply'.what = "success" => result = "complete" /\ answer.status = "success"
    BY <1>2 DEF RelayReturns, StreamCompletes, StreamBreaks, DownstreamFails, Fail, Return, Failures
  <2>6. result \in Failures => gone \/ committed \/ reply'.by = None
    BY <1>2 DEF RelayReturns, Failures
  <2>7. AnswerInv'
    BY <2>1, <2>4, <2>5, <2>6 DEF AnswerInv, RelayInv, StageOfRelay, relay
  <2>8. QED
    BY <2>2, <2>3, <2>7 DEF RelayInv
<1>3. QED
  BY <1>1, <1>2

\* While a body is read the loop stands still, and so does its part of the
\* invariant.
LEMMA StandsStill ==
  ASSUME IInv, RelayInv, UNCHANGED vars, kind' = kind, step # "idle", step' # "idle",
         pc = "done" => UNCHANGED <<step, result, committed>>,
         step' = "returned" => reader' \in {"none", "gone"},
         result' # "none" <=> step' \in {"closing", "returned"}
  PROVE  StageOfRelay' /\ AnswerInv'
<1>1. UNCHANGED <<pc, answer, lease, targeted, reply, gone>>
  BY DEF vars
<1>2. Retryable(answer)' <=> Retryable(answer)
  BY <1>1 DEF Retryable, RetrySafe
<1>3. StageOfRelay'
  BY <1>1, <1>2 DEF RelayInv, StageOfRelay
<1>4. AnswerInv'
  BY <1>1 DEF RelayInv, AnswerInv, StageOfRelay, IInv, StageInv
<1>5. QED
  BY <1>3, <1>4

\* The goroutine and the timer.
LEMMA ReaderStep ==
  ASSUME IInv, RelayInv, UNCHANGED vars,
         (\E e \in Events : ReadReturns(e)) \/ ReadEnds \/ OfferDropped \/ Expire
  PROVE  RelayInv'
<1>1. step # "idle"
  BY DEF RelayInv, StageOfRelay, NotReading, ReadReturns, ReadEnds, OfferDropped, Expire
<1>2. UNCHANGED <<kind, step, event, fed, preview, shown, committed, verdict, result>>
  BY DEF ReadReturns, ReadEnds, OfferDropped, Expire
<1>3. step = "returned" => reader' \in {"none", "gone"}
  BY DEF RelayInv, StageOfRelay, ReadReturns, ReadEnds, OfferDropped, Expire
<1>4. StageOfRelay' /\ AnswerInv'
  BY <1>1, <1>2, <1>3, StandsStill DEF RelayInv, StageOfRelay
<1>5. ChunksInv'
  BY <1>2 DEF RelayInv, ChunksInv
<1>6. RelayTypeOK' /\ TimerInv'
  <2> USE <1>1, <1>2 DEF RelayInv, RelayTypeOK, TimerInv
  <2>1. ASSUME NEW e \in Events, ReadReturns(e) PROVE RelayTypeOK' /\ TimerInv'
    BY <2>1 DEF ReadReturns
  <2>2. CASE ReadEnds
    BY <2>2 DEF ReadEnds, Events
  <2>3. CASE OfferDropped
    BY <2>3 DEF OfferDropped, Events, Nothing
  <2>4. CASE Expire
    BY <2>4 DEF Expire
  <2>5. QED
    BY <2>1, <2>2, <2>3, <2>4
<1>7. QED
  BY <1>4, <1>5, <1>6 DEF RelayInv

\* The handler: every chunk it takes is shown, held back or, with the answer, lost.
LEMMA HandlerReadStep ==
  ASSUME IInv, RelayInv, UNCHANGED vars, Handler
  PROVE  RelayInv'
<1>1. step \in {"select", "deliver", "end", "closing"} /\ pc # "done" /\ kind # "none"
  BY DEF RelayInv, StageOfRelay, Handler, Take, IdleTimeout, BufferTimeout, Spoilt, Hold, Show,
         ShowFails, StreamOver, CarryOn, Broken, BodyEnds, AwaitReader
<1>2. /\ kind' = kind /\ step' # "idle"
      /\ step' = "returned" => reader' \in {"none", "gone"}
      /\ result' # "none" <=> step' \in {"closing", "returned"}
  BY <1>1 DEF RelayInv, StageOfRelay, Handler, Take, IdleTimeout, BufferTimeout, Spoilt, Hold, Show,
         ShowFails, StreamOver, CarryOn, Broken, BodyEnds, AwaitReader, Leave
<1>3. StageOfRelay' /\ AnswerInv'
  BY <1>1, <1>2, StandsStill
<1>4. RelayTypeOK'
  <2> USE <1>1 DEF RelayInv, RelayTypeOK, StageOfRelay
  <2>1. Nothing \in Events
    BY DEF Nothing, Events
  <2>2. ASSUME NEW r \in Failures \cup {"complete", "downstream"}, Leave(r),
               preview' \in Nat, shown' \in Nat, committed' \in BOOLEAN
        PROVE  RelayTypeOK'
    BY <2>1, <2>2 DEF Leave
  <2>3. CASE Take
    <3>1. fed + 1 \in Nat /\ Verdicts \subseteq {"open", "whole", "bad"}
      BY DEF Verdicts
    <3>2. fed' \in Nat /\ verdict' \in {"open", "whole", "bad"}
      BY <2>3, <3>1 DEF Take
    <3>3. step' \in {"deliver", "end"} /\ timer' \in {"stopped", "running", "expired"}
      BY <2>3 DEF Take
    <3>4. reader' \in {"reading", "gone"} /\ offer' \in Events /\ event' \in Events
      BY <2>1, <2>3 DEF Take
    <3>5. UNCHANGED <<kind, open, expiredAt, preview, shown, committed, result>>
      BY <2>3 DEF Take
    <3>6. QED
      BY <3>2, <3>3, <3>4, <3>5
  <2>4. CASE IdleTimeout
    BY <2>2, <2>4 DEF IdleTimeout, Failures
  <2>5. CASE BufferTimeout
    BY <2>2, <2>5 DEF BufferTimeout, Failures
  <2>6. CASE Spoilt
    BY <2>2, <2>6 DEF Spoilt, Failures
  <2>7. CASE StreamOver
    BY <2>2, <2>7 DEF StreamOver
  <2>8. CASE Broken
    BY <2>2, <2>8 DEF Broken, Failures
  <2>9. CASE Hold
    BY <2>9 DEF Hold
  <2>10. CASE Show
    BY <2>10 DEF Show
  <2>11. CASE CarryOn \/ AwaitReader
    BY <2>11 DEF CarryOn, AwaitReader
  <2>12. CASE ShowFails
    BY <2>2, <2>12 DEF ShowFails
  <2>13. CASE BodyEnds
    <3>1. /\ preview' = 0 \/ preview' = preview
          /\ shown' = shown + preview \/ shown' = shown
          /\ committed' = TRUE \/ committed' = committed
      BY <2>13 DEF BodyEnds
    <3>2. Leave("complete") \/ Leave("incomplete") \/ Leave("downstream")
      BY <2>13 DEF BodyEnds
    <3>3. preview' \in Nat /\ shown' \in Nat
      <4>1. preview \in Nat /\ shown \in Nat
        OBVIOUS
      <4>2. QED
        BY <3>1, <4>1
    <3>4. committed' \in BOOLEAN
      BY <3>1
    <3>5. QED
      BY <2>2, <3>2, <3>3, <3>4 DEF Failures
  <2>14. QED
    BY <2>3, <2>4, <2>5, <2>6, <2>7, <2>8, <2>9, <2>10, <2>11, <2>12, <2>13 DEF Handler
<1>5. TimerInv'
  BY DEF RelayInv, TimerInv, Handler, Take, IdleTimeout, BufferTimeout, Spoilt, Hold, Show,
         ShowFails, StreamOver, CarryOn, Broken, BodyEnds, AwaitReader, Leave
<1>6. ChunksInv'
  <2> USE RelayAssumption, <1>1, <1>2 DEF RelayInv, RelayTypeOK, StageOfRelay, ChunksInv, Failures
  <2>1. CASE Take
    BY <2>1 DEF Take
  <2>2. CASE IdleTimeout \/ BufferTimeout
    BY <2>2 DEF IdleTimeout, BufferTimeout, Leave
  <2>3. CASE Spoilt
    BY <2>3 DEF Spoilt, Leave
  <2>4. CASE Hold
    <3>1. step = "deliver" /\ step' = "end" /\ result = "none" /\ ~committed
      BY <2>4 DEF Hold, HeldBack
    <3>2. /\ preview' = preview + 1
          /\ UNCHANGED <<kind, fed, shown, committed, verdict, result>>
      BY <2>4 DEF Hold
    <3>3. fed \in Nat /\ preview \in Nat /\ shown \in Nat
      OBVIOUS
    <3>4. kind # "refusal" => fed' = shown' + preview'
      BY <3>1, <3>2, <3>3
    <3>5. QED
      BY <3>1, <3>2, <3>4
  <2>5. CASE Show
    <3>1. /\ step = "deliver" /\ step' = "end" /\ result = "none" /\ kind # "refusal"
          /\ committed \/ preview >= PreviewChunks
      BY <2>5 DEF Show, HeldBack
    <3>2. /\ committed' = TRUE /\ preview' = 0 /\ shown' = shown + preview + 1
          /\ UNCHANGED <<kind, fed, verdict, result>>
      BY <2>5 DEF Show
    <3>3. fed \in Nat /\ preview \in Nat /\ shown \in Nat /\ PreviewChunks \in Nat
      OBVIOUS
    <3>4. fed = shown + preview + 1
      BY <3>1
    <3>5. fed' = shown' + preview'
      BY <3>2, <3>3, <3>4
    <3>6. kind = "document" => fed > PreviewChunks
      <4>1. CASE committed
        BY <3>1, <4>1
      <4>2. CASE preview >= PreviewChunks
        BY <3>3, <3>4, <4>2
      <4>3. QED
        BY <3>1, <4>1, <4>2
    <3>7. QED
      BY <3>1, <3>2, <3>5, <3>6
  <2>6. CASE ShowFails
    BY <2>6 DEF ShowFails, HeldBack, Leave
  <2>7. CASE StreamOver
    BY <2>7 DEF StreamOver, Terminal, Leave
  <2>8. CASE CarryOn \/ AwaitReader
    BY <2>8 DEF CarryOn, AwaitReader
  <2>9. CASE Broken
    BY <2>9 DEF Broken, Leave
  <2>10. CASE BodyEnds
    BY <2>10 DEF BodyEnds, Judged, Leave
  <2>11. QED
    BY <2>1, <2>2, <2>3, <2>4, <2>5, <2>6, <2>7, <2>8, <2>9, <2>10 DEF Handler
<1>7. QED
  BY <1>3, <1>4, <1>5, <1>6 DEF RelayInv

\* The invariant holds of every reachable state.
THEOREM RelayInvariant == RelaySpec => [](IInv /\ RelayInv)
<1>1. ASSUME IInv, RelayInv, [RelayNext]_all PROVE RelayInv'
  <2>1. CASE UNCHANGED all
    <3>1. UNCHANGED vars /\ UNCHANGED relay
      BY <2>1 DEF all
    <3>2. UNCHANGED <<pc, answer, lease, targeted, reply, gone>>
      BY <3>1 DEF vars
    <3>3. Retryable(answer)' <=> Retryable(answer)
      BY <3>2 DEF Retryable, RetrySafe
    <3>4. QED
      BY <1>1, <3>1, <3>2, <3>3 DEF relay, RelayInv, RelayTypeOK, StageOfRelay, NotReading,
         ChunksInv, TimerInv, AnswerInv
  <2>2. CASE RelayNext
    BY <1>1, <2>1, <2>2, ElsewhereStep, OutsideStep, StartStep, ReturnStep, ReaderStep,
       HandlerReadStep DEF RelayNext, ServeGateway, all
  <2>3. QED
    BY <1>1, <2>1, <2>2
<1>2. RelaySpec => []IInv
  BY RelayImplementsFailover, FailoverInvariant
<1>3. QED
  BY RelayInitInv, <1>1, <1>2, PTL DEF RelaySpec

\* What a relay leaves behind is true: no goroutine outlives its handler or its
\* lease, a success is whole, a small failure hidden, a slow client not held
\* against the upstream.
THEOREM RelayIsTruthful == RelaySpec => []RelayTruthful
<1>1. ASSUME IInv, RelayInv PROVE RelayTruthful
  <2> USE <1>1 DEF IInv, RelayInv
  <2>1. NobodyLeftReading
    <3>1. lease = None => pc \notin Busy
      BY FailoverAssumption DEF StageInv
    <3>2. pc \notin Busy => step \in {"idle", "returned"}
      BY DEF StageOfRelay, Busy
    <3>3. QED
      BY <3>1, <3>2 DEF NobodyLeftReading, StageOfRelay, NotReading
  <2>2. SuccessIsDelivered
    BY DEF SuccessIsDelivered, AnswerInv, ChunksInv
  <2>3. SmallFailureHidden
    BY RelayAssumption DEF SmallFailureHidden, AnswerInv, ChunksInv, RelayTypeOK
  <2>4. SilenceIsTheUpstreams
    BY DEF SilenceIsTheUpstreams, TimerInv
  <2>5. QED
    BY <2>1, <2>2, <2>3, <2>4 DEF RelayTruthful
<1>2. QED
  BY <1>1, RelayInvariant, PTL

=============================================================================
