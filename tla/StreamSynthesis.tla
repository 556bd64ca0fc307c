-------------------------- MODULE StreamSynthesis --------------------------
(***************************************************************************)
(* proxy/synthesis.rs: the event stream made from a buffered answer, for a *)
(* client that asked for a stream.  An OpenAI answer becomes OpenAI chunks *)
(* or, for /v1/messages, Anthropic frames; an Anthropic answer becomes     *)
(* Anthropic frames.                                                       *)
(***************************************************************************)
EXTENDS WireTypes

CONSTANTS Space      \* the symbol that is white space

\* Where the next piece ends: behind the last white space of the window, or at
\* its end when there is none or nothing follows.
CutAt(rest, window) ==
  LET spaces == {i \in 1 .. window : rest[i] = Space}
  IN  IF window < Len(rest) /\ spaces # {} THEN Max(spaces) ELSE window

Window(rest, max_size) == Min({Len(rest), Max({max_size, 1})})

\* split_chars: pieces of at most max_size symbols, of one when that is 0; From[i] are
\* those of the text from its i-th symbol on.
Pieces(text, max_size) ==
  LET From[i \in 1 .. Len(text) + 1] ==
        IF i > Len(text) THEN <<>>
        ELSE LET rest == SubSeq(text, i, Len(text))
                 cut == CutAt(rest, Window(rest, max_size))
             IN  <<SubSeq(rest, 1, cut)>> \o From[i + cut]
  IN  From[1]

\* Mutant: the white space a piece ends with is trimmed.
split_chars_bug(text, max_size) ==
  LET trimmed(piece) == IF Last(piece) = Space THEN Front(piece) ELSE piece
      pieces == Pieces(text, max_size)
  IN  IF Len(text) <= max_size THEN <<text>> ELSE [i \in DOMAIN pieces |-> trimmed(pieces[i])]

split_chars(text, max_size) == IF Len(text) <= max_size THEN <<text>> ELSE Pieces(text, max_size)

---------------------------------------------------------------------------
\* parse_raw_completion: the fields a stream needs have their types.  (`created`
\* and `object` decide nothing.)
WellFormed(raw) ==
  /\ raw # Other
  /\ Present(raw.id) /\ Present(raw.model)
  /\ Present(Field(raw, "choices")) /\ raw.choices # <<>>
  /\ \A choice \in Range(raw.choices) :
       /\ choice # Other
       /\ Present(choice.message)
       /\ choice.index \notin {Null, Other}
       /\ choice.finish_reason # Other

\* Its extras: the top-level fields the parser does not know.
extras(raw) == Restrict(raw, DOMAIN raw \ {"id", "model", "choices", "usage", "timings"})

\* The envelope of a chunk: one choice with one delta field, or the finish; the
\* extras ride on every chunk.
sse_envelope(raw, event, data, idx) ==
  extras(raw) @@
  Completion(raw.id, raw.model,
             <<IF event = "finish_reason"
               THEN Choice(idx, Absent, NoMessage, data)
               ELSE Choice(idx, Absent, [NoMessage EXCEPT ![event] = data], Null)>>,
             Absent, Absent)

\* The finish the backend gave, or the one its tool calls imply.
FinishReason(choice) ==
  OrElse(choice.finish_reason,
         IF OrElse(choice.message.tool_calls, <<>>) # <<>> THEN "tool_calls" ELSE "stop")

ContentChunks(content, max_size) ==
  CASE content \in {Absent, Null} -> <<>>
    [] content = Other -> <<content>>
    [] content = <<>> -> <<>>
    [] OTHER -> split_chars(content, max_size)

\* One choice: role, reasoning, text in pieces, all tool calls in one chunk, the
\* finish; the last choice's finish carries usage and timings.
synthesize_choice_chunks(raw, choice, idx, last, max_size) ==
  LET m == choice.message
      field(event) == IF Present(m[event]) THEN <<sse_envelope(raw, event, m[event], idx)>> ELSE <<>>
      pieces == ContentChunks(m.content, max_size)
      finish == sse_envelope(raw, "finish_reason", FinishReason(choice), idx)
  IN  field("role") \o field("reasoning_text") \o field("reasoning_opaque")
      \o [i \in 1 .. Len(pieces) |-> sse_envelope(raw, "content", pieces[i], idx)]
      \o (IF OrElse(m.tool_calls, <<>>) = <<>> THEN <<>> ELSE field("tool_calls"))
      \o <<IF last THEN [finish EXCEPT !.usage = IF Present(raw.usage) THEN raw.usage ELSE Absent,
                                       !.timings = IF Present(raw.timings) THEN raw.timings ELSE Absent]
           ELSE finish>>

\* synthesize_openai_chunks, as the lines the client receives.
synthesize_openai_chunks(raw, max_size) ==
  LET chunks(n) == LET c == raw.choices[n]
                   IN  synthesize_choice_chunks(raw, c, IF c.index = Absent THEN n - 1 ELSE c.index,
                                                n = Len(raw.choices), max_size)
  IN  FlattenSeq([n \in 1 .. Len(raw.choices) |-> chunks(n)])

---------------------------------------------------------------------------
\* Anthropic frames: the event name and the fields of its data.
Frame(event, index, block, delta, message, usage) ==
  [event |-> event, index |-> index, content_block |-> block, delta |-> delta,
   message |-> message, usage |-> usage]

Started(index, block) == Frame("content_block_start", index, block, Absent, Absent, Absent)
Stopped(index) == Frame("content_block_stop", index, Absent, Absent, Absent, Absent)

NoDelta == [type |-> Absent, text |-> Absent, thinking |-> Absent, partial_json |-> Absent,
            signature |-> Absent, stop_reason |-> Absent]
TextDelta(text) == [NoDelta EXCEPT !.type = "text_delta", !.text = text]
ThinkingDelta(text) == [NoDelta EXCEPT !.type = "thinking_delta", !.thinking = text]
JsonDelta(text) == [NoDelta EXCEPT !.type = "input_json_delta", !.partial_json = text]
SignatureDelta(sig) == [NoDelta EXCEPT !.type = "signature_delta", !.signature = sig]

\* A block's frames: its start, its deltas, its stop.
BlockFrames(index, start, deltas) ==
  <<Started(index, start)>>
  \o [i \in 1 .. Len(deltas) |-> Frame("content_block_delta", index, Absent, deltas[i], Absent, Absent)]
  \o <<Stopped(index)>>

TextDeltas(text, max_size) ==
  LET pieces == split_chars(text, max_size) IN [i \in 1 .. Len(pieces) |-> TextDelta(pieces[i])]

ThinkingDeltas(text, max_size) ==
  LET pieces == split_chars(text, max_size) IN [i \in 1 .. Len(pieces) |-> ThinkingDelta(pieces[i])]

\* The `{}` a tool_use block starts with: no string.
EmptyInput == Other

\* What convert_openai_to_claude_sse makes of one message: its blocks, each with
\* the deltas that fill it.  The arguments ride unparsed.
ConvertedBlocks(m, minted, max_size) ==
  LET calls == OrElse(m.tool_calls, <<>>)
      blocks ==
        (IF OrElse(m.reasoning_text, <<>>) = <<>> THEN <<>>
         ELSE <<[start |-> ThinkingBlock(<<>>, Absent), deltas |-> ThinkingDeltas(m.reasoning_text, max_size)]>>)
        \o (IF m.content = Other THEN <<[start |-> Other, deltas |-> <<>>]>>
            ELSE IF OrElse(m.content, <<>>) = <<>> THEN <<>>
            ELSE <<[start |-> TextBlock(<<>>), deltas |-> TextDeltas(m.content, max_size)]>>)
        \o [i \in 1 .. Len(calls) |->
              [start |-> ToolUseBlock(OrElse(calls[i].id, minted), OrElse(calls[i].name, <<>>), EmptyInput),
               deltas |-> <<JsonDelta(OrElse(calls[i].arguments, <<>>))>>]]
  IN  IF blocks = <<>> THEN <<[start |-> TextBlock(<<>>), deltas |-> <<>>]>> ELSE blocks

\* One numbering over the blocks of all choices.
Numbered(perChoice) ==
  LET blocks == FlattenSeq(perChoice)
  IN  FlattenSeq([i \in 1 .. Len(blocks) |-> BlockFrames(i - 1, blocks[i].start, blocks[i].deltas)])

\* Usage with Anthropic's names beside OpenAI's.
MappedUsage(usage) ==
  IF ~Present(usage) THEN [NoUsage EXCEPT !.input_tokens = 0, !.output_tokens = 0]
  ELSE [usage EXCEPT !.input_tokens = IF usage.prompt_tokens = Absent THEN @ ELSE usage.prompt_tokens,
                     !.output_tokens = IF usage.completion_tokens = Absent THEN @ ELSE usage.completion_tokens]

Envelope(start, blocks, stop_reason, usage) ==
  <<Frame("message_start", Absent, Absent, Absent, start, Absent)>>
  \o blocks
  \o <<Frame("message_delta", Absent, Absent, [NoDelta EXCEPT !.stop_reason = stop_reason], Absent, usage),
       Frame("message_stop", Absent, Absent, Absent, Absent, Absent)>>

\* convert_openai_to_claude_sse: no frame at all for an answer that is malformed.  The
\* extras are merged into the message and win over a field of its own of the same name.
convert_openai_to_claude_sse(raw, minted, max_size) ==
  LET perChoice == [n \in 1 .. Len(raw.choices) |->
                      ConvertedBlocks(raw.choices[n].message, minted, max_size)]
      tools == \E c \in Range(raw.choices) : OrElse(c.message.tool_calls, <<>>) # <<>>
      finish == Last(raw.choices).finish_reason
      usage == MappedUsage(raw.usage)
  IN  IF ~WellFormed(raw) THEN <<>>
      ELSE Envelope(extras(raw) @@
                    AnthropicMessage(raw.id, OrElse(raw.choices[1].message.role, "assistant"), raw.model,
                                     <<>>, Null, usage),
                    Numbered(perChoice),
                    IF Present(finish) THEN StopOf(finish) ELSE IF tools THEN "tool_use" ELSE "end_turn",
                    usage)

\* synthesize_anthropic_chunks: the frames of an answer that is Anthropic's
\* already and was parsed as such.  Opaque blocks ride whole in their start, tool
\* results with the fields the type has.
AnthropicBlocks(block, max_size) ==
  CASE BlockKind(block) = "Text" ->
         [start |-> TextBlock(<<>>), deltas |-> TextDeltas(block.text, max_size)]
    [] BlockKind(block) = "Thinking" ->
         [start |-> ThinkingBlock(<<>>, IF Present(block.signature) THEN block.signature ELSE Absent),
          deltas |-> ThinkingDeltas(block.thinking, max_size)
                     \o (IF Present(block.signature) THEN <<SignatureDelta(block.signature)>> ELSE <<>>)]
    [] BlockKind(block) = "ToolUse" ->
         [start |-> ToolUseBlock(block.id, block.name, EmptyInput),
          deltas |-> <<JsonDelta(Serialized(block.input))>>]
    [] OTHER -> [start |-> BlockOnWire(block), deltas |-> <<>>]

synthesize_anthropic_chunks(msg, max_size) ==
  Envelope([msg EXCEPT !.type = "message", !.content = <<>>, !.stop_reason = Null, !.usage.output_tokens = 0],
           Numbered(<<[i \in 1 .. Len(msg.content) |-> AnthropicBlocks(msg.content[i], max_size)]>>),
           OrElse(msg.stop_reason,
                  IF \E b \in Range(msg.content) : BlockKind(b) = "ToolUse" THEN "tool_use" ELSE "end_turn"),
           [NoUsage EXCEPT !.output_tokens = msg.usage.output_tokens])
===========================================================================
