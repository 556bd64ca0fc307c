----------------------------- MODULE WireTypes -----------------------------
(***************************************************************************)
(* The JSON documents of the two chat APIs, as far as the proxy looks into *)
(* them (api/openai.rs), and the conversions between the two formats.      *)
(*                                                                         *)
(* A JSON object is a record that has every field the proxy knows, with    *)
(* Absent in the fields it lacks; at the top level it may have more, which *)
(* the proxy does not know.  A string is a sequence of symbols, so   *)
(* that the code's concatenations are visible; which symbols it holds      *)
(* matters only where the code looks at them (white space in split_chars,  *)
(* the structure of tool-call arguments in the fixes).  Other stands for a *)
(* value whose type the code does not expect.                              *)
(***************************************************************************)
EXTENDS JsonArguments

CONSTANTS Absent, Null, Other

\* as_str, as_array: a field the code can read as what it expects.
Present(v) == v # Absent /\ v # Null /\ v # Other

\* unwrap_or.
OrElse(v, default) == IF Present(v) THEN v ELSE default

Optional(v) == IF Present(v) THEN <<v>> ELSE <<>>

---------------------------------------------------------------------------
\* ToolCall with its FunctionCall.
ToolCall(index, id, name, arguments) ==
  [index |-> index, id |-> id, name |-> name, arguments |-> arguments]

\* ResponseMessage, and Delta, which has the same fields.
NoMessage == [role |-> Absent, content |-> Absent, tool_calls |-> Absent,
              reasoning_text |-> Absent, reasoning_opaque |-> Absent]

\* Choice and StreamChoice.
Choice(index, message, delta, finish_reason) ==
  [index |-> index, message |-> message, delta |-> delta, finish_reason |-> finish_reason]

\* ChatCompletionResponse and StreamChunk.
Completion(id, model, choices, usage, timings) ==
  [id |-> id, model |-> model, choices |-> choices, usage |-> usage, timings |-> timings]

\* get: what an object holds under a name, known to the proxy or not.
Field(json, name) == IF name \in DOMAIN json THEN json[name] ELSE Absent

\* Usage (prompt_tokens, completion_tokens) and AnthropicUsage (input_tokens,
\* output_tokens); `cached` stands for the counts AnthropicUsage does not know.
NoUsage == [prompt_tokens |-> Absent, completion_tokens |-> Absent,
            input_tokens |-> Absent, output_tokens |-> Absent, cached |-> Absent]

\* A content block as it travels.
NoBlock == [type |-> Absent, text |-> Absent, thinking |-> Absent, signature |-> Absent,
            id |-> Absent, name |-> Absent, input |-> Absent, content |-> Absent]

TextBlock(text) == [NoBlock EXCEPT !.type = "text", !.text = text]
ThinkingBlock(thinking, signature) ==
  [NoBlock EXCEPT !.type = "thinking", !.thinking = thinking, !.signature = signature]
ToolUseBlock(id, name, input) ==
  [NoBlock EXCEPT !.type = "tool_use", !.id = id, !.name = name, !.input = input]
ToolResultBlock(content) == [NoBlock EXCEPT !.type = "tool_result", !.content = content]

\* AnthropicMessage.
AnthropicMessage(id, role, model, content, stop_reason, usage) ==
  [id |-> id, type |-> "message", role |-> role, model |-> model, content |-> content,
   stop_reason |-> stop_reason, usage |-> usage]

\* serde's verdict on a message: the fields without a default are strings, the others
\* have their types or are left out.  A completion that has a type and a role passes.
IsAnthropic(json) ==
  /\ \A name \in {"id", "type", "role", "model"} : Present(Field(json, name))
  /\ Field(json, "content") \notin {Null, Other}
  /\ Field(json, "stop_reason") # Other
  /\ Field(json, "usage") \notin {Null, Other}
  /\ Present(Field(json, "usage")) =>
       {json.usage.input_tokens, json.usage.output_tokens} \cap {Null, Other} = {}

\* from_value::<AnthropicMessage>: the type has no place for an unknown field nor for
\* the counts of the cache, and a count left out is 0.
ParsedMessage(json) ==
  LET count(name) == IF Field(json, "usage") = Absent THEN 0 ELSE OrElse(json.usage[name], 0)
  IN  [AnthropicMessage(json.id, json.role, json.model, OrElse(Field(json, "content"), <<>>),
                        OrElse(Field(json, "stop_reason"), Absent),
                        [NoUsage EXCEPT !.input_tokens = count("input_tokens"),
                                        !.output_tokens = count("output_tokens")])
       EXCEPT !.type = json.type]

---------------------------------------------------------------------------
\* Deserializing a content block: the variant it becomes, Other for an unknown
\* type and for a known one whose fields do not fit.
BlockKind(raw) ==
  CASE raw.type = "text" /\ Present(raw.text) -> "Text"
    [] raw.type = "thinking" /\ Present(raw.thinking) /\ raw.signature # Other -> "Thinking"
    [] raw.type = "tool_use" /\ Present(raw.id) /\ Present(raw.name) /\ raw.input # Absent -> "ToolUse"
    [] raw.type = "tool_result" /\ Present(raw.id) /\ raw.content # Absent -> "ToolResult"
    [] OTHER -> "Other"

\* Serializing it again: the known fields of a known variant, an Other block as
\* it arrived.
BlockOnWire(raw) ==
  CASE BlockKind(raw) = "Text" -> TextBlock(raw.text)
    [] BlockKind(raw) = "Thinking" -> ThinkingBlock(raw.thinking, OrElse(raw.signature, Null))
    [] BlockKind(raw) = "ToolUse" -> ToolUseBlock(raw.id, raw.name, raw.input)
    [] BlockKind(raw) = "ToolResult" -> [ToolResultBlock(raw.content) EXCEPT !.id = raw.id]
    [] BlockKind(raw) = "Other" -> raw

BlocksOf(content, kind) == SelectSeq(content, LAMBDA b : BlockKind(b) = kind)

\* parts.join("\n"), None when there is no part.
NewLine == "\n"
Joined(parts) ==
  IF parts = <<>> THEN Absent
  ELSE Tail(FoldLeft(LAMBDA acc, p : acc \o <<NewLine>> \o p, <<>>, parts))

\* serde_json::from_str of an arguments string, the empty object when it does not
\* parse.
InputOf(arguments) == IF ValidJson(arguments) THEN Parsed(arguments) ELSE <<>>

FinishOf(stop_reason) ==
  CASE stop_reason \in {"end_turn", "stop_sequence"} -> "stop"
    [] stop_reason = "max_tokens" -> "length"
    [] stop_reason = "tool_use" -> "tool_calls"
    [] OTHER -> stop_reason

StopOf(finish_reason) ==
  CASE finish_reason = "stop" -> "end_turn"
    [] finish_reason = "length" -> "max_tokens"
    [] finish_reason = "tool_calls" -> "tool_use"
    [] OTHER -> finish_reason

\* From<AnthropicMessage> for ChatCompletionResponse: thinking becomes the
\* reasoning fields, tool_use a tool call numbered by its rank, a string or
\* text-part tool_result joins the text, and an opaque block is left out.
ToCompletion(msg) ==
  LET kind(k) == BlocksOf(msg.content, k)
      spoken == SelectSeq(msg.content, LAMBDA b : \/ BlockKind(b) = "Text"
                                                  \/ BlockKind(b) = "ToolResult" /\ Present(b.content))
      said == [i \in 1 .. Len(spoken) |->
                 IF BlockKind(spoken[i]) = "Text" THEN spoken[i].text ELSE spoken[i].content]
      signed == SelectSeq(kind("Thinking"), LAMBDA b : Present(b.signature))
      calls == [i \in 1 .. Len(kind("ToolUse")) |->
                  LET b == kind("ToolUse")[i]
                  IN  ToolCall(i - 1, b.id, b.name, Serialized(b.input))]
      message == [role |-> msg.role,
                  content |-> Joined(said),
                  tool_calls |-> IF calls = <<>> THEN Absent ELSE calls,
                  reasoning_text |-> Joined([i \in 1 .. Len(kind("Thinking")) |-> kind("Thinking")[i].thinking]),
                  reasoning_opaque |-> IF signed = <<>> THEN Absent ELSE signed[1].signature]
  IN  Completion(msg.id, msg.model,
                 <<Choice(0, message, Absent, IF Present(msg.stop_reason) THEN FinishOf(msg.stop_reason) ELSE Absent)>>,
                 [NoUsage EXCEPT !.prompt_tokens = msg.usage.input_tokens,
                                 !.completion_tokens = msg.usage.output_tokens],
                 Absent)

\* The blocks of a message: its reasoning, its text unless that is empty, and
\* its tool calls; an empty text block when there is none of these.  A call
\* without an id is given a fresh one, `minted`.
BlocksOfMessage(m, minted) ==
  LET calls == OrElse(m.tool_calls, <<>>)
      blocks == (IF Present(m.reasoning_text) THEN <<ThinkingBlock(m.reasoning_text, Absent)>> ELSE <<>>)
             \o (IF OrElse(m.content, <<>>) # <<>> THEN <<TextBlock(m.content)>> ELSE <<>>)
             \o [i \in 1 .. Len(calls) |->
                   ToolUseBlock(OrElse(calls[i].id, minted), calls[i].name, InputOf(calls[i].arguments))]
  IN  IF blocks = <<>> THEN <<TextBlock(<<>>)>> ELSE blocks

\* From<ChatCompletionResponse> for AnthropicMessage: the first choice only.
ToAnthropic(resp, minted) ==
  LET first == resp.choices[1]
  IN  AnthropicMessage(resp.id, "assistant", resp.model,
        IF resp.choices # <<>> /\ Present(first.message)
        THEN BlocksOfMessage(first.message, minted) ELSE <<TextBlock(<<>>)>>,
        IF resp.choices # <<>> /\ Present(first.finish_reason)
        THEN StopOf(first.finish_reason) ELSE Absent,
        IF Present(resp.usage)
        THEN [NoUsage EXCEPT !.input_tokens = resp.usage.prompt_tokens,
                             !.output_tokens = resp.usage.completion_tokens]
        ELSE [NoUsage EXCEPT !.input_tokens = 0, !.output_tokens = 0])
===========================================================================
