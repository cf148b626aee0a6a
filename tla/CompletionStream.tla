--------------------------- MODULE CompletionStream ---------------------------
(***************************************************************************)
(* When is a streamed answer complete?  (internal/gateway                  *)
(* response_completion.go, completion_stream_contract.go,                  *)
(* completion_json_contract.go, completion_requirements.go.)               *)
(*                                                                         *)
(* The gateway reads the events of an answer one after the other and keeps *)
(* a small state: choices and tool calls under way.  Of three protocols it *)
(* must tell the answer that fulfils the request from one that was cut     *)
(* short, repeats itself or contradicts itself.  The second half of the    *)
(* module says what a whole answer is, looking at all of it at once.       *)
(*                                                                         *)
(* Texts (arguments, names, identities) are sequences of fragments, as     *)
(* they arrive; which sequences are JSON objects is given.  An event has   *)
(* one choice and one call at most.  Sizes of texts and the syntax of      *)
(* events are left out; "error" stands for the events that are failures    *)
(* themselves: wrong syntax, wrong types, conflicting names, errors.       *)
(***************************************************************************)
EXTENDS Integers, FiniteSets, SequencesExt

CONSTANTS
  Asks,         \* requests: [operation, choices, mode, serial, tools, events], where
                \* events are what the upstream may send
  Objects,      \* texts that are JSON objects
  EmptyObject,  \* the one without fields
  MaxTools,     \* maxCompletionTools (128 in the code)
  MaxFrames,    \* bound of the events of an answer
  MaxRepeats,   \* MaxRepeats[a]: bound of the events that come again
  None          \* no choice, call or reason

ASSUME CompletionStreamAssumption ==
  /\ EmptyObject \in Objects
  /\ MaxTools \in Nat \ {0} /\ MaxFrames \in Nat
  /\ MaxRepeats \in [Asks -> Nat]
  /\ \A a \in Asks : /\ a.operation \in {"chat", "responses", "messages"}
                     /\ a.choices \in Nat \ {0}
                     /\ a.mode \in {"auto", "none", "required"}

VARIABLES
  ask,     \* what the request asked for
  parser,  \* responseCompletion
  read     \* history: the events of the answer

vars == <<ask, parser, read>>

\* The one function_call of a choice uses a slot of its own.
LegacySlot == MaxTools - 1

With(f, k, v) == [x \in DOMAIN f \cup {k} |-> IF x = k THEN v ELSE f[x]]

\* A text that came in one piece and names a tool of the request.
AcceptsTool(name) == ask.mode # "none" /\ \E t \in ask.tools : name = <<t>>

Start ==
  [choices |-> <<>>, calls |-> <<>>, ids |-> {}, started |-> FALSE, reason |-> "",
   terminal |-> FALSE, failed |-> FALSE]

-----------------------------------------------------------------------------
(* OpenAI chat: choices with texts or calls, each finished, then [DONE].   *)

ToolReasons == {"tool_calls", "function_call"}

Choice(p, i) ==
  IF i \in DOMAIN p.choices THEN p.choices[i]
  ELSE [payload |-> FALSE, finished |-> FALSE, legacy |-> FALSE, calls |-> <<>>]

IndexOf(d) == IF d.index = None THEN 0 ELSE d.index

Calls(p) ==
  {<<i, s>> \in (DOMAIN p.choices) \X (0..MaxTools) : s \in DOMAIN p.choices[i].calls}

\* The choice after the delta, its finish_reason left aside.
Merge(ch, d) ==
  LET e == d.call
      old == IF e.slot \in DOMAIN ch.calls THEN ch.calls[e.slot]
             ELSE [id |-> <<>>, name |-> <<>>, kind |-> "", args |-> <<>>]
      new == [id |-> old.id \o e.id, name |-> old.name \o e.name,
              kind |-> IF e.kind = "" THEN old.kind ELSE e.kind, args |-> old.args \o e.part]
      texted == [ch EXCEPT !.payload = @ \/ d.text]
  IN  IF e = None THEN texted
      ELSE [texted EXCEPT !.calls = With(@, e.slot, new), !.legacy = @ \/ e.kind = "legacy"]

CallAccepted(p, ch, e) ==
  /\ e.slot \in 0..(MaxTools - 1)
  /\ e.slot \in DOMAIN ch.calls \/ Cardinality(Calls(p)) < MaxTools
  /\ IF e.kind = "legacy" THEN ch.legacy \/ ch.calls = <<>>
     ELSE /\ ~ch.legacy
          /\ ask.mode # "none"
          /\ ask.serial /\ ch.calls # <<>> => e.slot \in DOMAIN ch.calls
          /\ e.slot \in DOMAIN ch.calls /\ e.kind # "" => ch.calls[e.slot].kind \in {"", e.kind}

\* What if the identities of other choices were not looked at?
FinishAcceptedAlone(p, ch, finish) ==
  LET slots == DOMAIN ch.calls
      ids == {ch.calls[s].id : s \in slots}
  IN  /\ ask.mode = "required" \/ finish \in ToolReasons => slots # {}
      /\ slots # {} => finish \in ToolReasons
      /\ slots = {} => ch.payload
      /\ ch.legacy \/ Cardinality(ids) = Cardinality(slots)
      /\ \A s \in slots :
           /\ ch.calls[s].kind \in {"function", "legacy"}
           /\ ch.legacy \/ ch.calls[s].id # <<>>
           /\ AcceptsTool(ch.calls[s].name)
           /\ ch.calls[s].args \in Objects

\* A choice finishes with its calls complete, of their own identity, and with
\* the reason that goes with calls, or it finishes with some text.
FinishAccepted(p, ch, finish) ==
  LET slots == DOMAIN ch.calls
      ids == {ch.calls[s].id : s \in slots}
  IN  /\ ask.mode = "required" \/ finish \in ToolReasons => slots # {}
      /\ slots # {} => finish \in ToolReasons
      /\ slots = {} => ch.payload
      /\ ch.legacy \/ (Cardinality(ids) = Cardinality(slots) /\ ids \cap p.ids = {})
      /\ \A s \in slots :
           /\ ch.calls[s].kind \in {"function", "legacy"}
           /\ ch.legacy \/ ch.calls[s].id # <<>>
           /\ AcceptsTool(ch.calls[s].name)
           /\ ch.calls[s].args \in Objects

ChatAccepts(p, f) ==
  \/ f.kind = "done" /\ \A i \in 0..(ask.choices - 1) : Choice(p, i).finished
  \/ f.kind = "chunk" /\ f.choice = None
  \/ /\ f.kind = "chunk" /\ f.choice # None
     /\ LET d == f.choice
            ch == Choice(p, IndexOf(d))
        IN  /\ d.index = None => ask.choices = 1
            /\ IndexOf(d) \in 0..(ask.choices - 1)
            /\ ~ch.finished
            /\ d.call # None => CallAccepted(p, ch, d.call)
            /\ d.finish # None => FinishAccepted(p, Merge(ch, d), d.finish)

ChatAfter(p, f) ==
  IF f.kind = "done" THEN [p EXCEPT !.terminal = TRUE]
  ELSE IF f.choice = None THEN p
  ELSE LET d == f.choice
           i == IndexOf(d)
           ch == Merge(Choice(p, i), d)
           final == d.finish # None
       IN  [p EXCEPT !.choices = With(@, i, [ch EXCEPT !.finished = final]),
                     !.ids = IF final /\ ~ch.legacy
                               THEN @ \cup {ch.calls[s].id : s \in DOMAIN ch.calls} ELSE @]

-----------------------------------------------------------------------------
(* OpenAI Responses: items of which calls are followed from                *)
(* output_item.added to output_item.done; response.completed repeats all.  *)

NewCall == [id |-> <<>>, callId |-> <<>>, name |-> <<>>, args |-> <<>>,
            deltas |-> FALSE, started |-> FALSE, argumentsDone |-> FALSE, done |-> FALSE]

Native(p, s) == IF s \in DOMAIN p.calls THEN p.calls[s] ELSE NewCall

Known(new, old) == IF new = <<>> THEN old ELSE new

Identify(call, f) ==
  [call EXCEPT !.id = Known(f.id, @), !.callId = Known(f.callId, @), !.name = Known(f.name, @)]

Agrees(call, f) ==
  /\ f.id = <<>> \/ call.id \in {<<>>, f.id}
  /\ f.callId = <<>> \/ call.callId \in {<<>>, f.callId}
  /\ f.name = <<>> \/ call.name \in {<<>>, f.name}

\* The answer as a JSON document: what is asked of its items.
DocumentAccepted(items) ==
  LET calls == {k \in DOMAIN items : items[k].type = "function_call"} IN
  /\ \A k \in DOMAIN items : items[k].type = "message" => items[k].payload
  /\ \A k \in calls : /\ items[k].callId # <<>>
                      /\ AcceptsTool(items[k].name)
                      /\ items[k].args \in Objects
  /\ \A k, l \in calls : items[k].callId = items[l].callId => k = l
  /\ Cardinality(calls) <= MaxTools
  /\ ask.serial => Cardinality(calls) <= 1
  /\ ask.mode = "required" => calls # {}

\* ... and of the document against the calls that were streamed.
CompletedAccepted(p, items) ==
  /\ DocumentAccepted(items)
  /\ \A k \in DOMAIN items :
       items[k].type = "function_call" => (k - 1) \in DOMAIN p.calls /\ p.calls[k - 1].done
  /\ \A s \in DOMAIN p.calls :
       /\ s < Len(items) /\ p.calls[s].done
       /\ items[s + 1].type = "function_call"
       /\ items[s + 1].id = p.calls[s].id /\ items[s + 1].callId = p.calls[s].callId
       /\ items[s + 1].name = p.calls[s].name /\ items[s + 1].args = p.calls[s].args

CallEvents == {"added", "delta", "argumentsDone", "itemDone"}

ResponsesAccepts(p, f) ==
  \/ f.kind = "other"
  \/ f.kind = "completed" /\ f.status = "completed" /\ CompletedAccepted(p, f.items)
  \/ /\ f.kind \in CallEvents
     /\ f.slot \in 0..(MaxTools - 1)
     /\ ask.serial /\ p.calls # <<>> => f.slot \in DOMAIN p.calls
     /\ f.slot \in DOMAIN p.calls \/ Cardinality(DOMAIN p.calls) < MaxTools
     /\ ask.mode # "none"
     /\ Agrees(Native(p, f.slot), f)
     /\ LET call == Identify(Native(p, f.slot), f) IN
        CASE f.kind = "added" ->
               /\ ~call.started
               /\ call.id # <<>> /\ call.callId # <<>> /\ AcceptsTool(call.name)
          [] f.kind = "delta" -> call.started /\ ~call.argumentsDone
          [] f.kind = "argumentsDone" ->
               /\ call.started /\ ~call.argumentsDone
               /\ f.part \in Objects /\ (call.deltas => f.part = call.args)
          [] f.kind = "itemDone" ->
               /\ call.started /\ call.argumentsDone /\ ~call.done
               /\ f.part \in Objects /\ (call.deltas => f.part = call.args)
               /\ f.id # <<>> /\ f.callId # <<>> /\ f.name # <<>>

ResponsesAfter(p, f) ==
  IF f.kind = "other" THEN p
  ELSE IF f.kind = "completed" THEN [p EXCEPT !.terminal = TRUE]
  ELSE LET call == Identify(Native(p, f.slot), f)
           new == CASE f.kind = "added" -> [call EXCEPT !.started = TRUE]
                    [] f.kind = "delta" ->
                         [call EXCEPT !.deltas = TRUE, !.args = @ \o f.part]
                    [] f.kind = "argumentsDone" ->
                         [call EXCEPT !.argumentsDone = TRUE, !.deltas = TRUE,
                                      !.args = IF call.deltas THEN @ ELSE f.part]
                    [] f.kind = "itemDone" -> [call EXCEPT !.done = TRUE]
       IN  [p EXCEPT !.calls = With(@, f.slot, new)]

-----------------------------------------------------------------------------
(* Anthropic Messages: content blocks, a message_delta with the reason, and *)
(* message_stop.                                                           *)

ToolBlocks(p) == {s \in DOMAIN p.calls : p.calls[s].kind = "tool_use"}

DeltaFits(kind, type) ==
  CASE type = "input_json_delta" -> kind = "tool_use"
    [] type = "text_delta" -> kind = "text"
    [] type \in {"thinking_delta", "signature_delta"} -> kind = "thinking"
    [] OTHER -> TRUE

\* What if deltas had to repeat an input that is empty?
BlockCompleteStrict(call) ==
  call.kind = "tool_use" =>
    /\ call.id # <<>> /\ AcceptsTool(call.name) /\ call.args \in Objects
    /\ call.deltas => call.initial = call.args

BlockComplete(call) ==
  call.kind = "tool_use" =>
    /\ call.id # <<>> /\ AcceptsTool(call.name) /\ call.args \in Objects
    /\ call.deltas => call.initial \in {EmptyObject, call.args}

MessagesAccepts(p, f) ==
  CASE f.kind \in {"ping", "messageStart", "messageDelta"} -> TRUE
    [] f.kind = "messageStop" ->
         /\ \A s \in DOMAIN p.calls : p.calls[s].done
         /\ ask.mode = "required" => ToolBlocks(p) # {}
         /\ p.reason = "tool_use" <=> ToolBlocks(p) # {}
         /\ p.started /\ p.reason # ""
    [] f.kind = "blockStart" ->
         /\ f.slot \notin DOMAIN p.calls /\ f.slot \in 0..(MaxTools - 1)
         /\ Cardinality(DOMAIN p.calls) < MaxTools
         /\ f.type = "tool_use" =>
              /\ ask.serial => p.ids = {}
              /\ f.id \notin p.ids /\ f.id # <<>>
              /\ AcceptsTool(f.name) /\ f.part \in Objects
    [] f.kind = "blockDelta" ->
         /\ f.slot \in DOMAIN p.calls /\ ~p.calls[f.slot].done
         /\ DeltaFits(p.calls[f.slot].kind, f.type)
    [] f.kind = "blockStop" ->
         /\ f.slot \in DOMAIN p.calls /\ ~p.calls[f.slot].done
         /\ BlockComplete(p.calls[f.slot])
    [] OTHER -> FALSE

MessagesAfter(p, f) ==
  CASE f.kind = "ping" -> p
    [] f.kind = "messageStart" -> [p EXCEPT !.started = @ \/ f.content]
    [] f.kind = "messageDelta" -> [p EXCEPT !.reason = IF f.reason = "" THEN @ ELSE f.reason]
    [] f.kind = "messageStop" -> [p EXCEPT !.terminal = TRUE]
    [] f.kind = "blockStart" ->
         [p EXCEPT !.calls = With(@, f.slot,
                     [kind |-> f.type, id |-> f.id, name |-> f.name, initial |-> f.part,
                      args |-> f.part, deltas |-> FALSE, done |-> FALSE]),
                   !.ids = IF f.type = "tool_use" THEN @ \cup {f.id} ELSE @]
    [] f.kind = "blockDelta" ->
         IF f.type # "input_json_delta" THEN p
         ELSE [p EXCEPT !.calls[f.slot].args = IF p.calls[f.slot].deltas THEN @ \o f.part
                                               ELSE f.part,
                        !.calls[f.slot].deltas = TRUE]
    [] f.kind = "blockStop" -> [p EXCEPT !.calls[f.slot].done = TRUE]

-----------------------------------------------------------------------------
Accepts(p, f) ==
  CASE ask.operation = "chat" -> ChatAccepts(p, f)
    [] ask.operation = "responses" -> ResponsesAccepts(p, f)
    [] ask.operation = "messages" -> MessagesAccepts(p, f)

After(p, f) ==
  CASE ask.operation = "chat" -> ChatAfter(p, f)
    [] ask.operation = "responses" -> ResponsesAfter(p, f)
    [] ask.operation = "messages" -> MessagesAfter(p, f)

\* An event is dispatched: nothing follows the terminal one, and the first
\* failure is final.
Feed(p, f) ==
  IF p.failed THEN p
  ELSE IF ~p.terminal /\ f.kind # "error" /\ Accepts(p, f) THEN After(p, f)
  ELSE [p EXCEPT !.failed = TRUE]

Init ==
  /\ ask \in Asks
  /\ parser = Start
  /\ read = <<>>

Observe(f) ==
  /\ Len(read) < MaxFrames
  /\ read' = Append(read, f)
  /\ Len(read') - Cardinality(ToSet(read')) <= MaxRepeats[ask]
  /\ parser' = Feed(parser, f)
  /\ UNCHANGED ask

Next == \E f \in ask.events : Observe(f)

Spec == Init /\ [][Next]_vars

\* Finish at the end of the answer.
Complete == parser.terminal /\ ~parser.failed

-----------------------------------------------------------------------------
(* Whole answers: the reference, stated about all the events at once.      *)

ReadIs(Test(_)) == SelectSeq(read, Test)

\* The text of a field over some events or deltas.
Text(events, Field(_)) == FlattenSeq([k \in DOMAIN events |-> Field(events[k])])

OnlyAtEnd(kind) ==
  read # <<>> /\ \A k \in DOMAIN read : read[k].kind = kind <=> k = Len(read)

TypeOK ==
  /\ ask \in Asks
  /\ Len(read) <= MaxFrames
  /\ ToSet(read) \subseteq ask.events
  /\ {parser.terminal, parser.failed, parser.started} \subseteq BOOLEAN

Deltas ==
  LET events == ReadIs(LAMBDA f : f.kind = "chunk" /\ f.choice # None) IN
  [k \in DOMAIN events |-> events[k].choice]

DeltasOf(i) == SelectSeq(Deltas, LAMBDA d : IndexOf(d) = i)

CallDeltas(i, s) ==
  LET ds == SelectSeq(DeltasOf(i), LAMBDA d : d.call # None /\ d.call.slot = s) IN
  [k \in DOMAIN ds |-> ds[k].call]

CalledBy(i) == {s \in 0..MaxTools : CallDeltas(i, s) # <<>>}

CallId(i, s) == Text(CallDeltas(i, s), LAMBDA e : e.id)

Modern(i, s) == \A e \in ToSet(CallDeltas(i, s)) : e.kind # "legacy"

WholeChatCall(i, s) ==
  LET es == CallDeltas(i, s)
      kinds == {e.kind : e \in ToSet(es)}
  IN  /\ AcceptsTool(Text(es, LAMBDA e : e.name))
      /\ Text(es, LAMBDA e : e.part) \in Objects
      /\ \/ kinds = {"legacy"} /\ CalledBy(i) = {s}
         \/ kinds \in {{"function"}, {"function", ""}} /\ CallId(i, s) # <<>>

WholeChoice(i) ==
  LET ds == DeltasOf(i)
      finish == Last(ds).finish
  IN  /\ ds # <<>>
      /\ \A k \in DOMAIN ds : ds[k].finish # None <=> k = Len(ds)
      /\ \A s \in CalledBy(i) : s < MaxTools /\ WholeChatCall(i, s)
      /\ finish \in ToolReasons <=> CalledBy(i) # {}
      /\ CalledBy(i) = {} => \E d \in ToSet(ds) : d.text
      /\ ask.mode = "required" => CalledBy(i) # {}
      /\ ask.serial => Cardinality(CalledBy(i)) <= 1

WholeChat ==
  LET called == UNION {{<<i, s>> : s \in CalledBy(i)} : i \in 0..(ask.choices - 1)} IN
  /\ OnlyAtEnd("done")
  /\ \A d \in ToSet(Deltas) : /\ IndexOf(d) < ask.choices
                             /\ d.index = None => ask.choices = 1
  /\ \A i \in 0..(ask.choices - 1) : WholeChoice(i)
  /\ Cardinality(called) <= MaxTools
  /\ \A c, d \in called :
       c # d /\ Modern(c[1], c[2]) /\ Modern(d[1], d[2]) =>
         CallId(c[1], c[2]) # CallId(d[1], d[2])

\* The events of a call, in the only order they may have.
CallOf(s) == ReadIs(LAMBDA f : f.kind \in CallEvents /\ f.slot = s)

Streamed == {s \in 0..MaxTools : CallOf(s) # <<>>}

WholeCall(s, item) ==
  LET fs == CallOf(s)
      n == Len(fs)
      deltas == SubSeq(fs, 2, n - 2)
  IN  /\ n >= 3
      /\ fs[1].kind = "added" /\ fs[1].id # <<>> /\ fs[1].callId # <<>>
      /\ fs[n - 1].kind = "argumentsDone" /\ fs[n].kind = "itemDone"
      /\ \A f \in ToSet(deltas) : f.kind = "delta"
      /\ deltas # <<>> => Text(deltas, LAMBDA f : f.part) = item.args
      /\ fs[n - 1].part = item.args /\ fs[n].part = item.args
      /\ \A f \in ToSet(fs) : /\ f.id \in {<<>>, item.id}
                             /\ f.callId \in {<<>>, item.callId}
                             /\ f.name \in {<<>>, item.name}
      /\ <<>> \notin {fs[1].name, fs[n].id, fs[n].callId, fs[n].name}

WholeResponses ==
  /\ OnlyAtEnd("completed")
  /\ Last(read).status = "completed"
  /\ ask.mode = "none" => Streamed = {}
  /\ LET items == Last(read).items IN
     /\ DocumentAccepted(items)
     /\ Streamed = {k - 1 : k \in {l \in DOMAIN items : items[l].type = "function_call"}}
     /\ \A s \in Streamed : WholeCall(s, items[s + 1])

Block(s) ==
  ReadIs(LAMBDA f : f.kind \in {"blockStart", "blockDelta", "blockStop"} /\ f.slot = s)

Blocks == {s \in 0..MaxTools : Block(s) # <<>>}

Tools == {s \in Blocks : Head(Block(s)).kind = "blockStart" /\ Head(Block(s)).type = "tool_use"}

WholeBlock(s) ==
  LET fs == Block(s)
      n == Len(fs)
      first == fs[1]
      deltas == SelectSeq(fs, LAMBDA f : f.kind = "blockDelta" /\ f.type = "input_json_delta")
      text == Text(deltas, LAMBDA f : f.part)
  IN  /\ n >= 2 /\ first.kind = "blockStart" /\ fs[n].kind = "blockStop"
      /\ \A k \in 2..(n - 1) : fs[k].kind = "blockDelta" /\ DeltaFits(first.type, fs[k].type)
      /\ s \in Tools =>
           /\ first.id # <<>> /\ AcceptsTool(first.name) /\ first.part \in Objects
           /\ deltas # <<>> => text \in Objects /\ first.part \in {EmptyObject, text}

WholeMessages ==
  LET reasons == ReadIs(LAMBDA f : f.kind = "messageDelta" /\ f.reason # "") IN
  /\ OnlyAtEnd("messageStop")
  /\ \E f \in ToSet(read) : f.kind = "messageStart" /\ f.content
  /\ reasons # <<>>
  /\ \A s \in Blocks : s < MaxTools /\ WholeBlock(s)
  /\ Cardinality(Blocks) <= MaxTools
  /\ Last(reasons).reason = "tool_use" <=> Tools # {}
  /\ ask.mode = "required" => Tools # {}
  /\ ask.serial => Cardinality(Tools) <= 1
  /\ \A s, t \in Tools : Block(s)[1].id = Block(t)[1].id => s = t

Whole ==
  /\ \A f \in ToSet(read) : f.kind # "error"
  /\ CASE ask.operation = "chat" -> WholeChat
       [] ask.operation = "responses" -> WholeResponses
       [] ask.operation = "messages" -> WholeMessages

\* response_completion.go Finish: whatever events come, in whatever order, only
\* an answer that is whole is taken for complete: each choice and call finished
\* once, nothing repeated, missing or contradicting what was streamed before.
CompleteIsWhole == TypeOK /\ (Complete => Whole)

\* ... and no whole answer is refused, at its end or on the way.
WholeIsComplete == Whole => Complete
=============================================================================
