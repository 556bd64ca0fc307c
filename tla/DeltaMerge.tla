----------------------------- MODULE DeltaMerge -----------------------------
(***************************************************************************)
(* The accumulation half of proxy/streaming.rs: what the observer of a     *)
(* pass-through stream makes of the lines it has copied, once the stream   *)
(* has ended.  Statistics, dumps and the detection of defects all read the *)
(* answer put together here.                                               *)
(***************************************************************************)
EXTENDS StreamSynthesis

CONSTANTS MaxBlockIndex     \* MAX_TRACKED_BLOCK_INDEX

\* A line of the stream: an `event:` line with its name, a `data:` line with
\* what its payload is (a chunk, a frame, [DONE], no JSON), a blank line.
Line(field, name, kind, json) == [field |-> field, name |-> name, kind |-> kind, json |-> json]
EventLine(name) == Line("event", name, Absent, Absent)
DataLine(kind, json) == Line("data", Absent, kind, json)
Blank == Line("blank", Absent, Absent, Absent)

ChunkLines(chunk) == <<DataLine("chunk", chunk), Blank>>
DoneLines == <<DataLine("done", Absent), Blank>>
FrameLines(frame) == <<EventLine(frame.event), DataLine("frame", frame), Blank>>

is_anthropic_event(name) ==
  name \in {"message_start", "content_block_start", "content_block_delta", "content_block_stop",
            "message_delta", "message_stop", "ping", "error"}

\* What one line says of the format; `choices` is looked at first.
Verdict(line) ==
  CASE line.field = "event" /\ line.name \in {"message_start", "content_block_delta"} -> "Anthropic"
    [] line.field = "data" /\ line.kind = "chunk" ->
         IF line.json.choices # Absent THEN "OpenAI" ELSE "Unknown"
    [] line.field = "data" /\ line.kind = "frame" ->
         IF is_anthropic_event(line.json.event) THEN "Anthropic" ELSE "Unknown"
    [] OTHER -> "Unknown"

\* detect_format: the first line that decides.
detect_format(lines) ==
  LET known == SelectSeq(lines, LAMBDA l : Verdict(l) # "Unknown")
  IN  IF known = <<>> THEN "Unknown" ELSE Verdict(known[1])

AfterLine(acc, line) ==
  CASE line.field = "blank" -> [acc EXCEPT !.type = Absent]
    [] line.field = "event" -> [acc EXCEPT !.type = line.name]
    [] line.field = "data" /\ line.kind \in {"chunk", "frame"} ->
         [acc EXCEPT !.events = Append(@, [event_type |-> acc.type, kind |-> line.kind, json |-> line.json])]
    [] OTHER -> acc

\* parse_sse_events: the payloads that are JSON, each with the type of its event.
parse_sse_events(lines) ==
  FoldLeft(AfterLine, [type |-> Absent, events |-> <<>>], lines).events

---------------------------------------------------------------------------
\* merge_chunk.
SeededMessage == [NoMessage EXCEPT !.role = "assistant", !.content = Null, !.tool_calls = Null]

\* seed_choice: a choice to accumulate into.
seed_choice(choice) ==
  [choice EXCEPT !.delta = Absent,
                 !.message = IF choice.delta # Absent \/ choice.message = Absent THEN SeededMessage ELSE @]

Joining(old, new) == IF Present(old) THEN old \o new ELSE new

\* The name lands on a nameless slot or completes a split one; the same name
\* sent again is skipped.
MergedName(old, new) ==
  IF ~Present(new) \/ new = <<>> THEN old
  ELSE IF Present(old) /\ old # <<>> /\ old # new THEN old \o new
  ELSE new

\* merge_tool_call_slot: a continuation fragment.
merge_tool_call_slot(slot, call) ==
  [slot EXCEPT !.name = MergedName(@, call.name),
               !.arguments = IF Present(call.arguments) THEN Joining(@, call.arguments) ELSE @]

Padded(s, n) == s \o [i \in 1 .. (IF n > Len(s) THEN n - Len(s) ELSE 0) |-> Null]

\* Mutant: a fragment with no index opens a slot of its own.
merge_tool_call_bug(calls, call) ==
  IF call.index = Absent THEN Append(calls, call)
  ELSE LET padded == Padded(calls, call.index + 1)
       IN  [padded EXCEPT ![call.index + 1] = IF @ = Null THEN call ELSE merge_tool_call_slot(@, call)]

\* One fragment of the tool calls: by its index, or onto the last slot in use.
merge_tool_call(calls, call) ==
  LET used == {i \in 1 .. Len(calls) : calls[i] # Null}
      padded == Padded(calls, call.index + 1)
  IN  IF call.index \in {Absent, Null, Other}
      THEN IF used = {} THEN Append(calls, call)
           ELSE [calls EXCEPT ![Max(used)] = merge_tool_call_slot(@, call)]
      ELSE IF call.index > MaxBlockIndex THEN calls
      ELSE [padded EXCEPT ![call.index + 1] = IF @ = Null THEN call ELSE merge_tool_call_slot(@, call)]

\* A delta's tool calls: the first array is taken as it is.
MergedCalls(old, new) ==
  IF new = Absent \/ old = Absent THEN old
  ELSE IF old = Null THEN new
  ELSE IF Present(old) /\ Present(new) THEN FoldLeft(merge_tool_call, old, new)
  ELSE old

\* One choice of a chunk onto the choice accumulated so far.
MergedChoice(acc, choice) ==
  LET d == choice.delta
      m == acc.message
      merged == [role |-> OrElse(d.role, m.role),
                 content |-> IF Present(d.content) THEN Joining(m.content, d.content) ELSE m.content,
                 reasoning_text |-> IF Present(d.reasoning_text)
                                    THEN Joining(m.reasoning_text, d.reasoning_text) ELSE m.reasoning_text,
                 reasoning_opaque |-> IF d.reasoning_opaque = Absent THEN m.reasoning_opaque ELSE d.reasoning_opaque,
                 tool_calls |-> MergedCalls(m.tool_calls, d.tool_calls)]
  IN  [acc EXCEPT !.message = IF Present(choice.delta) /\ Present(m) THEN merged ELSE m,
                  !.finish_reason = IF choice.finish_reason \in {Absent, Null} THEN @ ELSE choice.finish_reason]

\* merge_stream_stats: the last usage and timings that are there, the last model
\* and metrics that are not null.
merge_stream_stats(acc, chunk) ==
  (IF Field(chunk, "metrics") \in {Absent, Null} THEN <<>> ELSE [metrics |-> chunk.metrics]) @@
  [acc EXCEPT !.usage = IF chunk.usage = Absent THEN @ ELSE chunk.usage,
              !.timings = IF chunk.timings = Absent THEN @ ELSE chunk.timings,
              !.model = IF chunk.model \in {Absent, Null} THEN @ ELSE chunk.model]

\* The choices of a chunk, by their position in it; one that is new is seeded.
MergedChoices(acc, choices) ==
  [i \in 1 .. Max({Len(acc), Len(choices)}) |->
     IF i > Len(choices) THEN acc[i]
     ELSE MergedChoice(IF i > Len(acc) THEN seed_choice(choices[i]) ELSE acc[i], choices[i])]

\* merge_chunk: the first chunk is merged into its own empty envelope.
merge_chunk(acc, chunk) ==
  LET base == IF acc = Absent THEN [chunk EXCEPT !.choices = <<>>] ELSE acc
  IN  merge_stream_stats(IF Present(base.choices) /\ Present(chunk.choices)
                         THEN [base EXCEPT !.choices = MergedChoices(base.choices, chunk.choices)] ELSE base,
                         chunk)

---------------------------------------------------------------------------
\* merge_anthropic_events.
NoAnthropicMessage ==
  [AnthropicMessage(Absent, Absent, Absent, <<>>, Absent, Absent) EXCEPT !.type = Absent]

\* A block that a delta meets before its start.
BlockForDelta(delta) ==
  [NoBlock EXCEPT !.type = CASE delta.type = "thinking_delta" -> "thinking"
                             [] delta.type = "input_json_delta" -> "tool_use"
                             [] OTHER -> "text"]

MergedBlock(block, delta) ==
  IF block = Other THEN block
  ELSE [block EXCEPT !.text = IF Present(delta.text) THEN Joining(@, delta.text) ELSE @,
                     !.thinking = IF Present(delta.thinking) THEN Joining(@, delta.thinking) ELSE @,
                     !.input = IF Present(delta.partial_json) THEN Joining(@, delta.partial_json) ELSE @]

WithBlock(message, idx, block) ==
  [message EXCEPT !.content = [Padded(@, idx + 1) EXCEPT ![idx + 1] = block]]

Tracked(message, frame) ==
  OrElse(frame.index, 0) <= MaxBlockIndex /\ Present(message.content)

\* One event onto the message; a type on the event line goes before the one in
\* the data.
MergedEvent(message, event) ==
  LET frame == event.json
      type == OrElse(event.event_type, IF event.kind = "frame" THEN frame.event ELSE Absent)
      idx == OrElse(frame.index, 0)
      old == Padded(message.content, idx + 1)[idx + 1]
  IN  CASE type = "message_start" /\ frame.message # Absent ->
             [frame.message EXCEPT !.content = IF @ = Absent THEN <<>> ELSE @]
        [] type = "content_block_start" /\ frame.content_block # Absent /\ Tracked(message, frame) ->
             WithBlock(message, idx, frame.content_block)
        [] type = "content_block_delta" /\ frame.delta # Absent /\ Tracked(message, frame) ->
             WithBlock(message, idx, MergedBlock(IF old = Null THEN BlockForDelta(frame.delta) ELSE old, frame.delta))
        [] type = "message_delta" ->
             [message EXCEPT
                !.stop_reason = IF Present(frame.delta) THEN OrElse(frame.delta.stop_reason, @) ELSE @,
                !.usage = IF frame.usage = Absent THEN @
                          ELSE IF @ = Absent THEN frame.usage
                          ELSE IF Present(@) /\ frame.usage.output_tokens # Absent
                          THEN [@ EXCEPT !.output_tokens = frame.usage.output_tokens] ELSE @]
        [] OTHER -> message

merge_anthropic_events(events) == FoldLeft(MergedEvent, NoAnthropicMessage, events)

\* parse_accumulated_sse: the answer the stream added up to, if its format is
\* known.
parse_accumulated_sse(lines) ==
  LET events == parse_sse_events(lines)
  IN  CASE detect_format(lines) = "Anthropic" -> merge_anthropic_events(events)
        [] detect_format(lines) = "OpenAI" -> FoldLeft(LAMBDA acc, e : merge_chunk(acc, e.json), Absent, events)
        [] detect_format(lines) = "Unknown" -> Absent

\* scan_unparsed_events: the events with a payload that is not JSON.
unparsed_events(lines) ==
  LET bad == {i \in 1 .. Len(lines) : lines[i].field = "data" /\ lines[i].kind = "unparsed"}
  IN  Cardinality({i \in bad : ~\E j \in bad : j < i /\ \A k \in j .. i : lines[k].field # "blank"})
===========================================================================
