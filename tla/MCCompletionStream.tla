-------------------------- MODULE MCCompletionStream --------------------------
(***************************************************************************)
(* Instances of CompletionStream for TLC: a few requests, and events that  *)
(* whole and broken answers to them are made of.                           *)
(***************************************************************************)
EXTENDS CompletionStream

CONSTANTS a, b, t, u

Empty == <<"{}">>
Part1 == <<"{x">>
Part2 == <<"}">>
Full == <<"{x", "}">>

MCObjects == {Empty, Full}

Ask(operation, choices, mode, serial, events) ==
  [operation |-> operation, choices |-> choices, mode |-> mode, serial |-> serial,
   tools |-> {t}, events |-> events]

-----------------------------------------------------------------------------
Done == [kind |-> "done"]
Error == [kind |-> "error"]
Usage == [kind |-> "chunk", choice |-> None]

Chunk(index, text, call, finish) ==
  [kind |-> "chunk",
   choice |-> [index |-> index, text |-> text, call |-> call, finish |-> finish]]

Spoken(index) == Chunk(index, TRUE, None, None)

Finished(index, reason) == Chunk(index, FALSE, None, reason)

Called(index, slot, id, name, kind, part) ==
  Chunk(index, FALSE,
        [slot |-> slot, id |-> id, name |-> name, kind |-> kind, part |-> part], None)

ChatAsks ==
  { Ask("chat", 2, "auto", FALSE,
        {Called(0, 0, <<a>>, <<t>>, "function", Full),
         Called(1, 0, <<a>>, <<t>>, "function", Full),
         Called(1, 0, <<b>>, <<t>>, "function", Full), Spoken(1), Finished(0, "tool_calls"),
         Finished(1, "tool_calls"), Finished(1, "stop"), Done}),
    Ask("chat", 1, "auto", FALSE,
        {Called(0, 0, <<a>>, <<t>>, "function", Part1), Called(0, 0, <<>>, <<>>, "", Part2),
         Called(0, 1, <<b>>, <<t>>, "function", Full),
         Called(0, 1, <<a>>, <<>>, "function", Full),
         Called(0, LegacySlot, <<>>, <<t>>, "legacy", Full), Finished(0, "tool_calls"), Done}),
    Ask("chat", 1, "required", TRUE,
        {Called(None, 0, <<a>>, <<t>>, "function", Full),
         Called(0, 1, <<b>>, <<t>>, "function", Full),
         Called(0, LegacySlot, <<>>, <<t>>, "legacy", Full),
         Called(0, 0, <<a>>, <<u>>, "function", Full),
         Finished(0, "function_call"), Finished(0, "stop"), Done}) } \cup
  { Ask("chat", 1, mode, FALSE,
        {Usage, Spoken(None), Called(0, 0, <<a>>, <<t>>, "function", Full), Error,
         Finished(0, "stop"), Finished(0, "tool_calls"), Done}) : mode \in {"auto", "none"} }

-----------------------------------------------------------------------------
Other == [kind |-> "other"]

Item(kind, slot, id, callId, name, part) ==
  [kind |-> kind, slot |-> slot, id |-> id, callId |-> callId, name |-> name, part |-> part]

Added(slot, id, callId, name) == Item("added", slot, id, callId, name, <<>>)

Delta(slot, part) == Item("delta", slot, <<a>>, <<>>, <<>>, part)

ArgumentsDone(slot, part) == Item("argumentsDone", slot, <<>>, <<>>, <<>>, part)

ItemDone(slot, id, part) == Item("itemDone", slot, id, id, <<t>>, part)

Completed(items) == [kind |-> "completed", status |-> "completed", items |-> items]

Message(payload) ==
  [type |-> "message", payload |-> payload, id |-> <<>>, callId |-> <<>>, name |-> <<>>,
   args |-> <<>>]

Function(id, args) ==
  [type |-> "function_call", payload |-> FALSE, id |-> id, callId |-> id, name |-> <<t>>,
   args |-> args]

ResponsesAsks ==
  { Ask("responses", 1, "auto", FALSE,
        {Added(0, <<a>>, <<a>>, <<t>>), Delta(0, Part1), Delta(0, Part2), ArgumentsDone(0, Full),
         ItemDone(0, <<a>>, Full), Completed(<<Function(<<a>>, Full)>>),
         Completed(<<Function(<<a>>, Empty)>>)}),
    Ask("responses", 1, "auto", FALSE,
        {Added(0, <<a>>, <<a>>, <<t>>), ArgumentsDone(0, Full), ItemDone(0, <<a>>, Full),
         Added(1, <<b>>, <<b>>, <<t>>), Added(1, <<b>>, <<a>>, <<t>>), ArgumentsDone(1, Empty),
         ItemDone(1, <<b>>, Empty),
         Completed(<<Function(<<a>>, Full), Function(<<b>>, Empty)>>)}) } \cup
  { Ask("responses", 1, mode, TRUE,
        {Other, Error, Added(1, <<b>>, <<b>>, <<t>>), ArgumentsDone(1, Full),
         ItemDone(1, <<b>>, Full), Completed(<<Message(TRUE)>>),
         Completed(<<Message(TRUE), Function(<<b>>, Full)>>),
         [kind |-> "completed", status |-> "incomplete", items |-> <<Message(TRUE)>>]}) :
      mode \in {"auto", "required", "none"} }

-----------------------------------------------------------------------------
MessageStart(content) == [kind |-> "messageStart", content |-> content]

MessageDelta(reason) == [kind |-> "messageDelta", reason |-> reason]

MessageStop == [kind |-> "messageStop"]

BlockStart(slot, type, id, input) ==
  [kind |-> "blockStart", slot |-> slot, type |-> type, id |-> id, name |-> <<t>>, part |-> input]

BlockDelta(slot, type, part) ==
  [kind |-> "blockDelta", slot |-> slot, type |-> type, part |-> part]

BlockStop(slot) == [kind |-> "blockStop", slot |-> slot]

MessagesAsks ==
  { Ask("messages", 1, "auto", FALSE,
        {MessageStart(TRUE), BlockStart(0, "tool_use", <<a>>, Empty),
         BlockDelta(0, "input_json_delta", Part1), BlockDelta(0, "input_json_delta", Part2),
         BlockStop(0), MessageDelta("tool_use"), MessageStop}),
    Ask("messages", 1, "required", FALSE,
        {MessageStart(TRUE), MessageStart(FALSE), BlockStart(0, "text", <<>>, <<>>),
         BlockDelta(0, "text_delta", <<>>), BlockDelta(0, "input_json_delta", Full),
         BlockStart(0, "tool_use", <<a>>, Full), BlockStop(0), MessageDelta("tool_use"),
         MessageStop}),
    Ask("messages", 1, "auto", FALSE,
        {MessageStart(TRUE), BlockStart(0, "text", <<>>, <<>>), BlockDelta(0, "text_delta", <<>>),
         BlockDelta(0, "input_json_delta", Full), BlockStop(0), MessageDelta("end_turn"),
         MessageDelta("tool_use"), MessageStop}) } \cup
  { Ask("messages", 1, "auto", serial,
        {MessageStart(TRUE), BlockStart(0, "tool_use", <<a>>, Full), BlockStop(0),
         BlockStart(1, "tool_use", <<a>>, Full), BlockStart(1, "tool_use", <<b>>, Empty),
         BlockStop(1), MessageDelta("tool_use"), MessageStop}) : serial \in BOOLEAN }

-----------------------------------------------------------------------------
MCAsks == ChatAsks \cup ResponsesAsks \cup MessagesAsks

\* Where there are many events, each comes once at most.
MCMaxRepeats == [k \in MCAsks |-> IF Cardinality(k.events) <= 7 THEN 1 ELSE 0]
=============================================================================
