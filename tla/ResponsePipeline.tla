-------------------------- MODULE ResponsePipeline --------------------------
(***************************************************************************)
(* The way of an answer through the proxy.                                 *)
(*                                                                         *)
(* A buffered answer is repaired, turned into a stream when the client     *)
(* asked for one, and read by the client.  The client is the observer's    *)
(* own accumulation (DeltaMerge): the two halves of the proxy were written *)
(* apart and have to agree on what a stream says.                          *)
(*                                                                         *)
(* A backend's own stream arrives delta by delta, cut wherever the backend *)
(* likes, and is accumulated.                                              *)
(***************************************************************************)
EXTENDS ResponseFixes, DeltaMerge

CONSTANTS
  Letter,        \* a symbol that is not white space
  MaxText,       \* bound of the model: symbols of a text
  MaxEntries,    \* bound of the model: entries of an arguments string
  MaxDeltas      \* bound of the model: deltas of a backend's own stream

VARIABLES
  stage,      \* buffered, fixed, streamed, read; or open for a backend's own stream
  api,        \* the API the client called: openai or anthropic
  chunk_size, \* synthesis.chunk_size_chars
  registry,   \* the fixes in use
  request,    \* the client's request, as far as the fixes look at it
  original,   \* the backend's answer
  answer,     \* the answer after the fixes
  lines,      \* the lines of the stream
  seen,       \* what reading the stream gave
  sent        \* a backend's own stream: what its deltas said

vars == <<stage, api, chunk_size, registry, request, original, answer, lines, seen, sent>>

Minted == <<"toolu">>

HasChoices(a) == "choices" \in DOMAIN a

---------------------------------------------------------------------------
\* handle_non_streaming_response, the repairs.
Repair ==
  /\ stage = "buffered"
  /\ answer' = IF HasChoices(original)
               THEN apply_fixes_with_context(registry, original, request) ELSE original
  /\ stage' = "fixed"
  /\ UNCHANGED <<api, chunk_size, registry, request, original, lines, seen, sent>>

\* The same, the client wants a stream: an answer that cannot become one is
\* forwarded as it is (openai) or ends the stream with an error (anthropic).
LinesOfFrames(frames) == FlattenSeq([i \in 1 .. Len(frames) |-> FrameLines(frames[i])])
LinesOfChunks(chunks) == FlattenSeq([i \in 1 .. Len(chunks) |-> ChunkLines(chunks[i])]) \o DoneLines

Synthesize ==
  /\ stage = "fixed"
  /\ lines' = IF api = "openai"
              THEN IF WellFormed(answer) THEN LinesOfChunks(synthesize_openai_chunks(answer, chunk_size)) ELSE <<>>
              ELSE IF IsAnthropic(answer)
              THEN LinesOfFrames(synthesize_anthropic_chunks(ParsedMessage(answer), chunk_size))
              ELSE LinesOfFrames(convert_openai_to_claude_sse(answer, Minted, chunk_size))
  /\ stage' = "streamed"
  /\ UNCHANGED <<api, chunk_size, registry, request, original, answer, seen, sent>>

Read ==
  /\ stage = "streamed"
  /\ seen' = parse_accumulated_sse(lines)
  /\ stage' = "read"
  /\ UNCHANGED <<api, chunk_size, registry, request, original, answer, lines, sent>>

---------------------------------------------------------------------------
\* A backend's own stream.
Text(n) == [i \in 1 .. n |-> Letter]

ChunkOf(delta) == Completion(<<"id">>, <<"model">>, <<Choice(0, Absent, delta, Null)>>, Absent, Absent)

Receive(chunk) ==
  /\ stage = "open"
  /\ Len(lines) < 2 * MaxDeltas
  /\ lines' = lines \o ChunkLines(chunk)
  /\ seen' = parse_accumulated_sse(lines')
  /\ UNCHANGED <<stage, api, chunk_size, registry, request, original, answer>>

\* A chunk with no choices: usage, or an empty array.
UsageChunk ==
  \E choices \in {Absent, <<>>} :
    /\ Receive([ChunkOf(NoMessage) EXCEPT !.choices = choices, !.usage = [NoUsage EXCEPT !.prompt_tokens = 1]])
    /\ sent' = [sent EXCEPT !.usage = TRUE]

ContentDelta ==
  /\ Receive(ChunkOf([NoMessage EXCEPT !.content = <<Letter>>]))
  /\ sent' = [sent EXCEPT !.content = Append(@, Letter)]

\* A call is opened with its name, by index, in order; later fragments carry its
\* index, or none when it is the last one, and may repeat the name.
OpenCall ==
  LET n == Len(sent.calls)
      name == <<"name", n>>
  IN  /\ n < 2
      /\ Receive(ChunkOf([NoMessage EXCEPT !.tool_calls = <<ToolCall(n, <<"id">>, name, <<>>)>>]))
      /\ sent' = [sent EXCEPT !.calls = Append(@, [name |-> name, arguments |-> <<>>])]

ArgumentDelta ==
  \E n \in 1 .. Len(sent.calls), token \in {"a", "b"}, again \in BOOLEAN, indexed \in BOOLEAN :
    /\ indexed \/ n = Len(sent.calls)
    /\ Receive(ChunkOf([NoMessage EXCEPT !.tool_calls =
                 <<ToolCall(IF indexed THEN n - 1 ELSE Absent, Absent,
                            IF again THEN sent.calls[n].name ELSE Absent, <<token>>)>>]))
    /\ sent' = [sent EXCEPT !.calls[n].arguments = Append(@, token)]

---------------------------------------------------------------------------
\* The answers the model begins with.
SomeCall(index, arguments) == ToolCall(index, <<"id">>, <<"write">>, arguments)

Texts == {Absent, Null} \cup UNION {[1 .. n -> {Letter, Space}] : n \in 0 .. MaxText}

GoodArguments == <<Entry("ok", "content", "p"), Entry("ok", "filePath", "p"), Close>>

CallLists ==
  {Absent, Null, <<>>, <<SomeCall(0, GoodArguments)>>,
   <<SomeCall(0, GoodArguments), [SomeCall(1, GoodArguments) EXCEPT !.id = Absent]>>}

Messages(texts, reasonings) ==
  {[NoMessage EXCEPT !.role = role, !.content = content, !.reasoning_text = reasoning, !.tool_calls = calls] :
     role \in {Absent, "assistant"}, content \in texts, reasoning \in reasonings, calls \in CallLists}

\* Every answer has one field the proxy does not know; some have more, named as a
\* message's own fields are.
Measured == [metrics |-> <<"measured">>]
Extras ==
  {<<>>, [role |-> <<"critic">>], [role |-> Other], [type |-> <<"kind">>], [stop_reason |-> "refusal"], [content |-> Other],
   [type |-> <<"kind">>, role |-> <<"critic">>], [type |-> <<"kind">>, role |-> <<"critic">>, content |-> Other]}

Answered(choices, usage) == Measured @@ Completion(<<"id">>, <<"model">>, choices, usage, Absent)

SomeUsage == [NoUsage EXCEPT !.prompt_tokens = 3, !.completion_tokens = 2, !.cached = 1]

\* Well-formed completions: every text, and two choices of few texts.
OneChoice ==
  {Answered(<<Choice(0, m, Absent, finish)>>, usage) :
     m \in Messages(Texts, {Absent, <<>>, <<Letter, Space, Letter>>}),
     finish \in {Absent, Null, "length"}, usage \in {Absent, SomeUsage}}

TwoChoices ==
  LET few == Messages({Null, <<Letter, Letter, Space>>}, {Absent, <<Letter, Letter>>})
  IN  {Answered(<<Choice(0, m, Absent, Absent), Choice(Absent, n, Absent, "stop")>>, SomeUsage) :
         m \in few, n \in few}

ExtraFields ==
  {more @@ Answered(<<Choice(0, m, Absent, finish)>>, usage) :
     more \in Extras, m \in Messages({Null, <<Letter, Space, Letter>>}, {Absent}),
     finish \in {Absent, "stop"}, usage \in {Absent, SomeUsage}}

\* Answers parse_raw_completion rejects.
MalformedAnswers ==
  LET good == Answered(<<Choice(0, [NoMessage EXCEPT !.role = "assistant"], Absent, Absent)>>, Absent)
  IN  {[good EXCEPT !.id = Absent], [good EXCEPT !.model = Other], [good EXCEPT !.choices = <<>>],
       [good EXCEPT !.choices = Other], [good EXCEPT !.choices[1].message = Absent],
       [good EXCEPT !.choices[1].index = Null], [good EXCEPT !.choices[1].finish_reason = Other]}

\* Anthropic answers.
AnthropicAnswers ==
  LET blocks == {TextBlock(<<Letter, Space, Letter>>), ThinkingBlock(<<Letter, Letter>>, Absent),
                 ThinkingBlock(<<Letter>>, <<"sig">>), ToolUseBlock(<<"id">>, <<"write">>, Front(GoodArguments)),
                 [ToolResultBlock(<<Letter>>) EXCEPT !.id = <<"id">>],
                 [NoBlock EXCEPT !.type = "unknown"], [NoBlock EXCEPT !.type = "text", !.text = Other],
                 [ToolResultBlock(<<Letter>>) EXCEPT !.id = <<"id">>, !.text = <<Letter>>]}
      usages == {Absent, [NoUsage EXCEPT !.input_tokens = 3, !.cached = 1],
                 [NoUsage EXCEPT !.input_tokens = 3, !.output_tokens = 2]}
      message(content, stop, usage) ==
        Measured @@ AnthropicMessage(<<"id">>, "assistant", <<"model">>, content, stop, usage)
  IN  {message(content, stop, usage) :
         content \in UNION {[1 .. n -> blocks] : n \in 0 .. 2}, stop \in {Absent, "max_tokens"}, usage \in usages}
      \cup {[message(<<>>, Absent, Absent) EXCEPT !.role = Other], message(<<>>, Absent, Null)}

\* Arguments strings with every kind of defect.
Entries == {Entry("ok", "content", "p"), Entry("ok", "filePath", "p"), Entry("ok", "filePath", "q"),
            Entry("ok", "filePath", "quoted"), Entry("ok", "x", "nested"), Entry("slot", "", "q"),
            Entry("broken", "filePath", "q")}

Documents(n) ==
  {d \o ending : d \in UNION {[1 .. k -> Entries] : k \in 0 .. n},
                 ending \in {<<>>, <<Close>>, <<Close, Trailing>>}}

ToolRequests ==
  {Absent, [tools |-> Absent], [tools |-> [n \in {<<"write">>} |-> <<"content", "filePath">>]],
   [tools |-> [n \in {<<"write">>} |-> <<"content", "x">>]]}

DefectiveAnswers ==
  LET calling(calls) == Answered(<<Choice(0, [NoMessage EXCEPT !.tool_calls = calls], Absent, Absent)>>, Absent)
  IN  {calling(<<SomeCall(0, d)>>) : d \in Documents(MaxEntries)}
      \cup {calling(<<SomeCall(index, d), SomeCall(0, e)>>) : index \in {Absent, Null}, d, e \in Documents(1)}

Registries == {create_registry_from_config([enabled |-> TRUE, modules |-> [n \in {} |-> TRUE]]),
               create_registry_from_config([enabled |-> TRUE, modules |-> [n \in {"toolcall_malformed_arguments_fix"} |-> FALSE]]),
               create_registry_from_config([enabled |-> FALSE, modules |-> [n \in {} |-> TRUE]])}
AllFixes == RegistrationOrder

NothingSent == [content |-> <<>>, calls |-> <<>>, usage |-> FALSE]

Init ==
  /\ answer = Absent /\ lines = <<>> /\ seen = Absent /\ sent = NothingSent
  /\ \/ /\ stage = "buffered" /\ api \in {"openai", "anthropic"} /\ chunk_size \in {0, 2}
        /\ registry = AllFixes /\ request = Absent
        /\ original \in OneChoice \cup TwoChoices \cup ExtraFields \cup MalformedAnswers
     \/ /\ stage = "buffered" /\ api = "anthropic" /\ chunk_size \in {1, 2}
        /\ registry = AllFixes /\ request = Absent
        /\ original \in AnthropicAnswers
     \/ /\ stage = "buffered" /\ api = "openai" /\ chunk_size = 2
        /\ registry \in Registries /\ request \in ToolRequests
        /\ original \in DefectiveAnswers
     \/ /\ stage = "open" /\ api = "openai" /\ chunk_size = 0
        /\ registry = AllFixes /\ request = Absent /\ original = Absent

Next ==
  \/ Repair \/ Synthesize \/ Read
  \/ UsageChunk \/ ContentDelta \/ OpenCall \/ ArgumentDelta

Spec == Init /\ [][Next]_vars

---------------------------------------------------------------------------
MessageCalls(a) == IF Present(a.choices) /\ a.choices # <<>> THEN Calls(a.choices[1].message) ELSE <<>>

\* "Callers therefore receive the ORIGINAL or a fully-fixed response" and
\* "Deleting a proven instance of it is the damage this fix must never do"
\* (toolcall_bad_filepath_fix.rs): arguments are left alone, or they become
\* valid, with one filePath, the first the model wrote, with every body that
\* stood before the defect, and with no value the model did not write.
RepairsAreSafe ==
  stage # "open" /\ stage # "buffered" /\ HasChoices(original) =>
    \A i \in 1 .. Len(MessageCalls(original)) :
      LET d == MessageCalls(original)[i].arguments
          e == MessageCalls(answer)[i].arguments
          proven == {d[j] : j \in {j \in 1 .. Len(d) : AllOk(SubSeq(d, 1, j))}}
          paths == {entry \in proven : entry.key = "filePath"}
      IN  \/ e = d
          \/ /\ ValidJson(e)
             /\ top_level_key_count(e, "filePath") <= 1
             /\ {entry \in proven : entry.key = "content"} \subseteq Range(e)
             /\ paths # {} => d[Min({j \in 1 .. Len(d) : d[j].key = "filePath"})] \in Range(e)
             /\ {entry.value : entry \in Range(Body(e))} \subseteq {entry.value : entry \in Range(d)}

\* "Registration order is load-bearing" (fixes/mod.rs): one pass through the
\* fixes is enough; a second finds nothing it could still repair, and every
\* tool call has an index after it.
RepairsSettle ==
  stage = "fixed" /\ HasChoices(original) =>
    /\ apply_fixes_with_context(registry, answer, request) = answer
    /\ registry # <<>> => \A call \in Range(MessageCalls(answer)) : ~needs_index_fix(call)

\* The message a client can know of: empty fields are not sent.
Sent(m) ==
  [m EXCEPT !.role = OrElse(@, "assistant"),
            !.content = IF OrElse(@, <<>>) = <<>> THEN Null ELSE @,
            !.tool_calls = IF OrElse(@, <<>>) = <<>> THEN Null ELSE @]

ChunksOf(idx) ==
  SelectSeq(lines, LAMBDA l : l.field = "data" /\ l.kind = "chunk" /\ l.json.choices[1].index = idx)

Readable(block) == IF block.type = "tool_use" THEN [block EXCEPT !.input = InputOf(@)] ELSE block

\* What the reader holds of a message's blocks.
Understood(content) == [i \in 1 .. Len(content) |-> Readable(content[i])]

\* What is left of a block that was parsed: the fields its type has, and nothing
\* invented for a signature it lacks.
Kept(block) ==
  IF BlockKind(block) = "Thinking" THEN ThinkingBlock(block.thinking, OrElse(block.signature, Absent))
  ELSE BlockOnWire(block)

\* "Unknown top-level backend fields ride every chunk exactly as they arrived"
\* (synthesis.rs): every choice, its message and finish, the usage and
\* every unknown field are read again from an OpenAI stream.
ChunksReadBack ==
  \A n \in 1 .. Len(answer.choices) :
    LET got == parse_accumulated_sse(ChunksOf(OrElse(answer.choices[n].index, n - 1)))
    IN  /\ got.choices[1].message = Sent(answer.choices[n].message)
        /\ got.choices[1].finish_reason = FinishReason(answer.choices[n])
        /\ \A name \in DOMAIN answer \ {"choices", "usage", "timings"} : got[name] = answer[name]
        /\ n = Len(answer.choices) => got.usage = answer.usage

\* What the Anthropic stream of an OpenAI answer says: the blocks of all its choices,
\* the finish of the last one, the counts under both names, and every unknown field,
\* which is read in place of the message's own when they share a name.  (A finish of
\* that kind is the exception: the message_delta has the last word.)
ConversionReadsBack ==
  LET own(name) == name \notin DOMAIN answer
      calls == \E c \in Range(answer.choices) : Len(OrElse(c.message.tool_calls, <<>>)) > 0
      finish == Last(answer.choices).finish_reason
  IN  /\ \A name \in DOMAIN answer \ {"choices", "usage", "timings", "stop_reason"} : seen[name] = answer[name]
      /\ own("type") => seen.type = "message"
      /\ own("role") => seen.role = OrElse(answer.choices[1].message.role, "assistant")
      /\ own("content") /\ (\A c \in Range(answer.choices) : c.message.reasoning_text # <<>>) =>
           Understood(seen.content) =
             FlattenSeq([n \in 1 .. Len(answer.choices) |-> BlocksOfMessage(answer.choices[n].message, Minted)])
      /\ seen.stop_reason = CASE finish = "stop" -> "end_turn"
                              [] finish = "length" -> "max_tokens"
                              [] OTHER -> IF calls THEN "tool_use" ELSE "end_turn"
      /\ IF Present(answer.usage)
         THEN seen.usage = [answer.usage EXCEPT !.input_tokens = answer.usage.prompt_tokens,
                                                !.output_tokens = answer.usage.completion_tokens]
         ELSE seen.usage.input_tokens = 0 /\ seen.usage.output_tokens = 0

\* What is left of an answer that parses as an Anthropic message: its names, its blocks,
\* its finish or the one its blocks imply, and the two counts.  The rest is lost: the
\* unknown fields, the counts of the cache, the choices of a completion taken for a
\* message.
MessageReadsBack ==
  LET content == OrElse(Field(answer, "content"), <<>>)
      uses_tools == \E b \in Range(content) : BlockKind(b) = "ToolUse"
      count(name) == IF Present(Field(answer, "usage")) /\ answer.usage[name] # Absent THEN answer.usage[name] ELSE 0
  IN  /\ DOMAIN seen = DOMAIN NoAnthropicMessage
      /\ \A name \in {"id", "role", "model"} : seen[name] = answer[name]
      /\ Understood(seen.content) = [i \in 1 .. Len(content) |-> Kept(content[i])]
      /\ seen.stop_reason = IF Present(Field(answer, "stop_reason")) THEN answer.stop_reason
                            ELSE IF uses_tools THEN "tool_use" ELSE "end_turn"
      /\ seen.usage = [NoUsage EXCEPT !.input_tokens = count("input_tokens"),
                                      !.output_tokens = count("output_tokens")]

\* "Known fields must keep their wire types", "unknown fields survive by construction",
\* "every choice is emitted" (synthesis.rs): whoever reads the stream made from an answer
\* gets back what that kind of stream can say of it, whatever the chunk size, and no
\* stream is made from an answer that is malformed.
StreamReadsBack ==
  stage = "read" =>
    IF api = "anthropic" /\ IsAnthropic(answer) THEN MessageReadsBack
    ELSE IF ~WellFormed(answer) THEN lines = <<>>
    ELSE IF api = "openai" THEN ChunksReadBack ELSE ConversionReadsBack

Frames == SelectSeq(lines, LAMBDA l : l.field = "data" /\ l.kind = "frame")

\* "every choice is emitted with gap-free global block indices" (synthesis.rs):
\* blocks are numbered without a gap, each is opened, filled and closed before
\* the next, and no piece of text is longer than the chunk size.
FramesWellFormed ==
  stage = "streamed" /\ Frames # <<>> =>
    LET f(k) == Frames[k].json
        count(k, event) == Cardinality({j \in 1 .. k : f(j).event = event})
        last == Len(Frames)
    IN  /\ f(1).event = "message_start" /\ f(last - 1).event = "message_delta" /\ f(last).event = "message_stop"
        /\ \A k \in 2 .. last - 2 :
             /\ f(k).index = count(k, "content_block_start") - 1
             /\ f(k).index = count(k - 1, "content_block_stop")
             /\ f(k).event = "content_block_delta" /\ Present(f(k).delta.text) =>
                  Len(f(k).delta.text) <= Max({chunk_size, 1})
        /\ count(last, "content_block_start") = count(last, "content_block_stop")

\* "dropping it truncates the arguments mid-JSON", "every later choice delta finds
\* no merge target and is silently dropped" (streaming.rs): wherever the backend
\* cuts its text and its tool calls, however it interleaves them, whether it
\* repeats names, leaves indices out or begins with a usage chunk, the
\* accumulated answer is what its deltas said.
DeltasReassemble ==
  stage = "open" /\ seen # Absent =>
    LET message == seen.choices[1].message
    IN  /\ sent.content # <<>> => message.content = sent.content
        /\ sent.calls # <<>> =>
             /\ Len(message.tool_calls) = Len(sent.calls)
             /\ \A n \in 1 .. Len(sent.calls) :
                  [name |-> message.tool_calls[n].name, arguments |-> message.tool_calls[n].arguments] = sent.calls[n]
        /\ sent.usage => Present(seen.usage)

\* The conversions of api/openai.rs undo each other: a completion that becomes an
\* Anthropic message and a completion again says the same (its first choice).
ConversionsAgree ==
  stage = "buffered" /\ HasChoices(original) /\ WellFormed(original) /\ request = Absent
    /\ original.choices[1].message.reasoning_text # <<>> =>
    LET there == ToAnthropic(original, Minted)
        back == ToCompletion(there).choices[1]
        m == original.choices[1].message
    IN  /\ OrElse(back.message.content, <<>>) = OrElse(m.content, <<>>)
        /\ back.message.reasoning_text = m.reasoning_text
        /\ Len(OrElse(back.message.tool_calls, <<>>)) = Len(OrElse(m.tool_calls, <<>>))
        /\ \A n \in 1 .. Len(OrElse(m.tool_calls, <<>>)) :
             /\ back.message.tool_calls[n].index = n - 1
             /\ ValidJson(m.tool_calls[n].arguments) /\ Duplicated(m.tool_calls[n].arguments) = {} =>
                  back.message.tool_calls[n].arguments = m.tool_calls[n].arguments
        /\ Present(original.choices[1].finish_reason) => back.finish_reason = original.choices[1].finish_reason
===========================================================================
