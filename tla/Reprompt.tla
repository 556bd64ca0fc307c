------------------------------ MODULE Reprompt ------------------------------
(***************************************************************************)
(* The reprompt engine (reprompt.rs): a turn that stopped without calling  *)
(* a tool is continued by follow-up requests to the same backend, until    *)
(* one continues, says it is done, fails, or rounds or time run out.       *)
(*                                                                         *)
(* A text is a sequence of words, one word per answer of the backend, so   *)
(* that what the client receives can be compared with what was said.  JSON *)
(* values the code only tests for their type are Absent, Null or Other.    *)
(* The clock is whether the deadline has passed.                           *)
(***************************************************************************)
EXTENDS Integers, Sequences, SequencesExt

CONSTANTS
  Absent, Null, Other,
  Space,      \* a word of white space
  Done,       \* a word that holds the done sentinel
  Gap,        \* the blank line between two joined texts
  MaxRetries  \* bound of the model: reprompt.max_retries

VARIABLES
  engine,     \* max_retries, done_sentinels, skip_read_only_requests
  request,    \* the client's request: messages, tools
  original,   \* the backend's answer
  round,      \* where maybe_reprompt is: judging, looping, waiting, returned
  attempt, collected, current,
  expired,    \* the deadline has passed
  follow_up,  \* the messages of the request in flight
  returned,   \* the body handed back
  said,       \* history: the answers received in the loop
  counters    \* REPROMPT_SKIPPED_READ_ONLY_TOTAL, _TRIGGERED_, _EXHAUSTED_

repromptVars == <<engine, request, original, round, attempt, collected, current, expired, follow_up, returned, said, counters>>

Scalars == {Absent, Null, Other}

Message(content, reasoning, tool_calls) ==
  [role |-> "assistant", content |-> content, reasoning |-> reasoning, tool_calls |-> tool_calls]
Text(words) == [is |-> "text", value |-> words]
Parts(texts) == [is |-> "parts", value |-> texts]
Choice(finish_reason, message) == [finish_reason |-> finish_reason, message |-> message]
Answering(finish_reason, message) == [choices |-> <<Choice(finish_reason, message)>>]

\* choices[0], and its message.
First(body) ==
  IF body \in Scalars \/ body.choices \in Scalars \/ body.choices = <<>> THEN Absent ELSE body.choices[1]
FirstMessage(body) == IF First(body) \in Scalars THEN Absent ELSE First(body).message

HasCalls(body) ==
  FirstMessage(body) \notin Scalars /\ FirstMessage(body).tool_calls \notin Scalars \cup {<<>>}

should_trigger(body) ==
  First(body) \notin Scalars /\ First(body).finish_reason = "stop" /\ ~HasCalls(body)

\* MUTATING_TOOL_NAMES, in what is left of it: a tool mutates or it does not.
request_is_read_only(req) ==
  req # Null /\ req.tools \notin Scalars \cup {<<>>} /\ \A t \in Range(req.tools) : t # "mutating"

Blank(words) == Range(words) \subseteq {Space}

FromContent(content) ==
  IF content \in Scalars THEN <<>>
  ELSE IF content.is = "text" THEN content.value
  ELSE FlattenSeq(SelectSeq(content.value, LAMBDA t : t \notin Scalars))

extract_assistant_text(body) ==
  LET message == FirstMessage(body) IN
  IF message \in Scalars THEN <<>>
  ELSE IF ~Blank(FromContent(message.content)) THEN FromContent(message.content)
  ELSE IF message.reasoning \in Scalars THEN <<>> ELSE message.reasoning

\* set_assistant_text returns FALSE: there is no object or null message.
Writable(body) == First(body) \notin Scalars /\ First(body).message \notin {Absent, Other}

set_assistant_text(body, words) ==
  [body EXCEPT !.choices[1].message =
     IF @ = Null THEN [Message(Text(words), Absent, Absent) EXCEPT !.role = Absent]
     ELSE [@ EXCEPT !.content = Text(words)]]

force_assistant_text(body, words) ==
  LET message == Message(Text(words), Absent, Absent) IN
  IF First(body) \notin Scalars THEN [body EXCEPT !.choices[1].message = message]
  ELSE Answering("stop", message)

has_assistant_message(body) == FirstMessage(body) \notin Scalars

has_continuation(body) ==
  \/ HasCalls(body)
  \/ First(body) \notin Scalars /\ First(body).finish_reason \notin Scalars \cup {"stop"}

push_text(texts, words) == IF Blank(words) THEN texts ELSE Append(texts, words)

Joined(texts) ==
  FlattenSeq([i \in 1 .. Len(texts) |-> IF i = 1 THEN texts[i] ELSE <<Gap>> \o texts[i]])

finish(clean_stop, texts) ==
  IF texts # <<>>
  THEN IF Writable(clean_stop) THEN set_assistant_text(clean_stop, Joined(texts))
       ELSE force_assistant_text(clean_stop, Joined(texts))
  ELSE IF has_assistant_message(clean_stop) THEN clean_stop ELSE force_assistant_text(clean_stop, <<>>)

anthropic_has_continuation(words, sentinel) == sentinel \notin Range(words)

Finished(words) == \E s \in engine.done_sentinels : ~anthropic_has_continuation(words, s)

---------------------------------------------------------------------------
Return(body) == round' = "returned" /\ returned' = body /\ follow_up' = Absent

\* maybe_reprompt, before its loop.
Judge ==
  /\ round = "judging"
  /\ \/ /\ ~should_trigger(original)
        /\ Return(original)
        /\ UNCHANGED <<collected, current, counters>>
     \/ /\ should_trigger(original) /\ engine.skip_read_only_requests /\ request_is_read_only(request)
        /\ Return(original)
        /\ counters' = [counters EXCEPT !.skipped = @ + 1]
        /\ UNCHANGED <<collected, current>>
     \/ /\ should_trigger(original) /\ ~(engine.skip_read_only_requests /\ request_is_read_only(request))
        /\ round' = "looping"
        /\ counters' = [counters EXCEPT !.triggered = @ + 1]
        /\ collected' = push_text(<<>>, extract_assistant_text(original))
        /\ current' = original
        /\ UNCHANGED <<returned, follow_up>>
  /\ UNCHANGED <<engine, request, original, attempt, expired, said>>

\* build_follow_up: the conversation, the stopped turn and the prompt; Absent
\* when there is no conversation.
build_follow_up ==
  IF request = Null \/ request.messages \in Scalars \cup {<<>>} THEN Absent
  ELSE request.messages \o <<extract_assistant_text(current), "prompt">>

\* The top of the loop: the time left, then the request.
Round ==
  /\ round = "looping" /\ attempt < engine.max_retries
  /\ IF expired \/ build_follow_up = Absent
     THEN Return(finish(original, collected))
     ELSE round' = "waiting" /\ follow_up' = build_follow_up /\ UNCHANGED returned
  /\ UNCHANGED <<engine, request, original, attempt, collected, current, expired, said, counters>>

\* send_follow_up failed, or the deadline passed first.
Fails ==
  /\ round = "waiting"
  /\ Return(finish(original, collected))
  /\ UNCHANGED <<engine, request, original, attempt, collected, current, expired, said, counters>>

\* Mutant: the sentinel is looked for first (as before big-fix 65).
After_bug(reply, texts) ==
  IF Finished(extract_assistant_text(reply)) THEN finish(original, texts)
  ELSE IF has_continuation(reply) THEN
    IF Writable(reply) THEN set_assistant_text(reply, Joined(texts)) ELSE finish(original, texts)
  ELSE Absent

\* What a reply makes of the loop: the body to return, or Absent to go on.
After(reply, texts) ==
  IF has_continuation(reply) THEN
    IF Writable(reply) THEN set_assistant_text(reply, Joined(texts)) ELSE finish(original, texts)
  ELSE IF Finished(extract_assistant_text(reply)) THEN finish(original, texts)
  ELSE Absent

Reply(reply) ==
  LET texts == push_text(collected, extract_assistant_text(reply)) IN
  /\ round = "waiting"
  /\ collected' = texts
  /\ said' = Append(said, reply)
  /\ IF After(reply, texts) # Absent
     THEN Return(After(reply, texts)) /\ UNCHANGED <<attempt, current>>
     ELSE /\ round' = "looping" /\ attempt' = attempt + 1 /\ current' = reply /\ follow_up' = Absent
          /\ UNCHANGED returned
  /\ UNCHANGED <<engine, request, original, expired, counters>>

Exhausted ==
  /\ round = "looping" /\ attempt = engine.max_retries
  /\ counters' = [counters EXCEPT !.exhausted = @ + 1]
  /\ Return(finish(original, collected))
  /\ UNCHANGED <<engine, request, original, attempt, collected, current, expired, said>>

\* The wall-clock budget.
DeadlinePasses ==
  /\ round \in {"looping", "waiting"} /\ ~expired
  /\ expired' = TRUE
  /\ UNCHANGED <<engine, request, original, round, attempt, collected, current, follow_up, returned, said, counters>>

---------------------------------------------------------------------------
\* The answers of the model: n numbers the words of an answer.
MessagesOf(n) ==
  {Message(content, reasoning, calls) :
     content \in {Absent, Text(<<Space>>), Text(<<n>>), Text(<<n, Done>>)},
     reasoning \in {Absent, <<n + 10>>}, calls \in {Absent, <<"call">>}}
AnswersOf(n) ==
  {Answering(f, m) : f \in {Absent, "stop", "length"}, m \in MessagesOf(n) \cup Scalars}
  \cup {[choices |-> <<>>], [choices |-> Absent], Other}

Init ==
  /\ engine \in [max_retries : {0, MaxRetries}, done_sentinels : {{}, {Done}}, skip_read_only_requests : BOOLEAN]
  /\ request \in {[messages |-> <<"hello">>, tools |-> tools] : tools \in {Absent, <<"reads">>, <<"reads", "mutating">>}}
                 \cup {[messages |-> Absent, tools |-> Absent], [messages |-> <<>>, tools |-> Absent], Null}
  /\ original \in AnswersOf(1) \cup {Answering("stop", Message(Parts(<< <<1>>, Absent, <<11>> >>), <<21>>, <<>>))}
  /\ round = "judging" /\ attempt = 0 /\ collected = <<>> /\ current = Absent /\ expired = FALSE
  /\ follow_up = Absent /\ returned = Absent /\ said = <<>>
  /\ counters = [skipped |-> 0, triggered |-> 0, exhausted |-> 0]

Next ==
  \/ Judge \/ Round \/ Fails \/ Exhausted \/ DeadlinePasses
  \/ \E reply \in AnswersOf(attempt + 2) : Reply(reply)

Spec == Init /\ [][Next]_repromptVars

---------------------------------------------------------------------------
\* The texts of some answers, the blank ones left out.
Spoken(answers) ==
  FoldLeft(LAMBDA texts, a : IF Blank(extract_assistant_text(a)) THEN texts
                             ELSE Append(texts, extract_assistant_text(a)), <<>>, answers)

\* "Whatever we hand back to the client carries all of it - a follow-up turn
\* adds to the stopped turn, it never replaces it", "the returned body always
\* has an object message" and "continuation outranks the sentinel": the text
\* of the returned body is every text the backend said, in order, and a reply
\* that continues is the one the client gets whenever it can carry the text.
NothingSaidIsLost ==
  round = "returned" /\ counters.triggered = 1 =>
    LET texts == Spoken(<<original>> \o said)
    IN  /\ has_assistant_message(returned)
        /\ texts # <<>> => FromContent(FirstMessage(returned).content) = Joined(texts)
        /\ said # <<>> /\ has_continuation(Last(said)) /\ Writable(Last(said)) =>
             /\ HasCalls(returned) = HasCalls(Last(said))
             /\ First(returned).finish_reason = First(Last(said)).finish_reason
===========================================================================
