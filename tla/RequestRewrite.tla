--------------------------- MODULE RequestRewrite ---------------------------
(***************************************************************************)
(* What the proxy does to a request on its way to the backend: the block   *)
(* of the augment backend is put into the conversation (augment.rs,        *)
(* inject_into_anthropic), then the stream flag, the usage option and the  *)
(* node's model and temperature are set (apply_backend_overrides_bytes).   *)
(*                                                                         *)
(* A text is a sequence of words; Block is the word the augmentation       *)
(* becomes.  Fields the code does not know are the field `extra` of their  *)
(* object.  Absent, Null and Other stand for what is not there, JSON null, *)
(* and a value of a type the code does not expect.                         *)
(***************************************************************************)
EXTENDS Integers, Sequences, SequencesExt

CONSTANTS Absent, Null, Other, Block

VARIABLES
  step,      \* arrived, asked, augmented, injected, sent; refused (502) or panicked
  node,      \* the node's model and temperature overrides
  mode,      \* augment: an augment backend is configured; passthrough: the streaming mode;
             \* anthropic: a /v1/messages path; completion: a completion-shaped path
  body,      \* request_json: Absent when the bytes are no JSON, Other when no object
  augmentation, \* what the augment backend said, or Absent
  outgoing,  \* the body for the backend
  expected   \* expected_streaming

rewriteVars == <<step, node, mode, body, augmentation, outgoing, expected>>

Scalars == {Absent, Null, Other}

Text(words) == [is |-> "text", value |-> words]
Parts(parts) == [is |-> "parts", value |-> parts]
Part(type, text, extra) == [type |-> type, text |-> text, extra |-> extra]
Message(role, content, extra) == [role |-> role, content |-> content, extra |-> extra]

IsObject(b) == b \notin Scalars
HasMessages(b) == IsObject(b) /\ b.messages \notin Scalars

IsUser(message) == message.role = "user"
IsText(part) == part.type = "text"

---------------------------------------------------------------------------
\* extract_user_content_from_json.
PartWords(part) == IF IsText(part) /\ part.text \notin Scalars THEN part.text ELSE <<>>
Words(content) ==
  IF content \in Scalars THEN <<>>
  ELSE IF content.is = "text" THEN content.value
  ELSE FlattenSeq([i \in 1 .. Len(content.value) |-> PartWords(content.value[i])])

extract_user_content_from_json(b) ==
  IF ~HasMessages(b) THEN <<>>
  ELSE FlattenSeq([i \in 1 .. Len(b.messages) |->
                     IF IsUser(b.messages[i]) THEN Words(b.messages[i].content) ELSE <<>>])

\* extract_response_text: the first choice's content, even when it is empty, else
\* the text blocks of an Anthropic answer; Absent is the error.
extract_response_text(answer) ==
  IF answer.content \notin Scalars THEN answer.content
  ELSE LET texts == FlattenSeq(answer.blocks) IN IF texts # <<>> THEN texts ELSE Absent

\* get_augmentation: a status that is no success is an error.
get_augmentation(answer) == IF answer.success THEN extract_response_text(answer) ELSE Absent

---------------------------------------------------------------------------
\* Mutant: a text part without text swallows the block.
append_block_to_message_bug(message) ==
  LET last == SelectLastInSeq(message.content.value, IsText)
      part == message.content.value[last]
  IN  IF message.content \in {Absent, Null} THEN [message EXCEPT !.content = Text(<<Block>>)]
      ELSE IF message.content.is = "text" THEN [message EXCEPT !.content.value = Append(@, Block)]
      ELSE IF last = 0 THEN [message EXCEPT !.content.value = Append(@, Part("text", <<Block>>, Absent))]
      ELSE IF part.text \in Scalars THEN message
      ELSE [message EXCEPT !.content.value[last].text = Append(@, Block)]

\* append_block_to_message, for the contents its caller has typed.
append_block_to_message(message) ==
  LET last == SelectLastInSeq(message.content.value, IsText)
  IN  IF message.content \in {Absent, Null} THEN [message EXCEPT !.content = Text(<<Block>>)]
      ELSE IF message.content.is = "text" THEN [message EXCEPT !.content.value = Append(@, Block)]
      ELSE IF last # 0 /\ message.content.value[last].text \notin Scalars
      THEN [message EXCEPT !.content.value[last].text = Append(@, Block)]
      ELSE [message EXCEPT !.content.value = Append(@, Part("text", <<Block>>, Absent))]

\* inject_augmentation_value: Absent is the error.
inject_augmentation_value(b) ==
  LET normalized == [b EXCEPT !.stop = IF @ = "string" THEN "array" ELSE @]
      user == SelectLastInSeq(b.messages, IsUser)
  IN  IF ~HasMessages(b) THEN Absent
      ELSE IF user # 0
      THEN IF b.messages[user].content = Other THEN Absent
           ELSE [normalized EXCEPT !.messages[user] = append_block_to_message(@)]
      ELSE IF b.messages = <<>> THEN normalized
      ELSE [normalized EXCEPT !.messages = Append(@, Message("system", Text(<<Block>>), Absent))]

\* What serde accepts as a ChatCompletionRequest, and what is left of it: Message
\* and ContentPart have no catch-all, and an absent text is written as null.
TypedContent(content) ==
  /\ content # Other
  /\ content \notin Scalars /\ content.is = "parts" =>
       \A p \in Range(content.value) : p.type \notin Scalars /\ p.text # Other
IsChatCompletionRequest(b) ==
  /\ HasMessages(b) /\ b.model \notin Scalars /\ b.stop # "string" /\ b.stream # Other
  /\ \A m \in Range(b.messages) : m.role \notin Scalars /\ TypedContent(m.content)

Retyped(message) ==
  [message EXCEPT !.extra = Absent,
     !.content = IF @ \in Scalars THEN Absent
                 ELSE IF @.is = "text" THEN @
                 ELSE Parts([i \in 1 .. Len(@.value) |->
                        Part(@.value[i].type, IF @.value[i].text = Absent THEN Null ELSE @.value[i].text, Absent)])]

\* inject_augmentation, the shim the handler calls.
inject_augmentation(b) ==
  inject_augmentation_value([b EXCEPT !.messages = [i \in 1 .. Len(@) |-> Retyped(@[i])],
                                      !.stop = IF @ = Null THEN Absent ELSE @,
                                      !.stream = IF @ = Null THEN Absent ELSE @])

\* AnthropicMessageRequest: the content is a list of blocks, the system prompt a
\* string; fields that are absent are written as null.
IsAnthropicMessageRequest(b) ==
  /\ HasMessages(b) /\ b.stream # Other /\ b.model # Other /\ b.system # Other
  /\ \A m \in Range(b.messages) : m.role \notin Scalars /\ m.content \notin Scalars /\ m.content.is = "parts"

\* AnthropicMessage has no catch-all either.
Stripped(message) == [message EXCEPT !.extra = Absent]

inject_into_anthropic(b) ==
  LET user == SelectLastInSeq(b.messages, IsUser)
      block == Part("text", <<Block>>, Absent)
      typed == [b EXCEPT !.messages = [i \in 1 .. Len(@) |-> Stripped(@[i])],
                         !.stream = IF @ = Absent THEN Null ELSE @,
                         !.model = IF @ = Absent THEN Null ELSE @,
                         !.system = IF @ = Absent THEN Null ELSE @]
  IN  IF user # 0 THEN [typed EXCEPT !.messages[user].content.value = Append(@, block)]
      ELSE IF b.messages = <<>> THEN typed
      ELSE [typed EXCEPT !.messages[1].content.value = <<block>> \o @]

---------------------------------------------------------------------------
\* handle, between the permit and the request to the backend.
Ask ==
  /\ step = "arrived"
  /\ step' = IF mode.augment /\ body # Absent /\ extract_user_content_from_json(body) # <<>>
             THEN "asked" ELSE "augmented"
  /\ UNCHANGED <<node, mode, body, augmentation, outgoing, expected>>

\* An error of the augment backend answers the client; an empty text is no augmentation.
AugmentAnswers(answer) ==
  /\ step = "asked"
  /\ step' = IF get_augmentation(answer) = Absent THEN "refused" ELSE "augmented"
  /\ augmentation' = IF get_augmentation(answer) = <<>> THEN Absent ELSE get_augmentation(answer)
  /\ UNCHANGED <<node, mode, body, outgoing, expected>>

\* A body that is not what its API's type says is forwarded as it came.
Enriched ==
  IF augmentation = Absent THEN body
  ELSE IF mode.anthropic
  THEN IF IsAnthropicMessageRequest(body) THEN inject_into_anthropic(body) ELSE body
  ELSE IF IsChatCompletionRequest(body) /\ inject_augmentation(body) # Absent THEN inject_augmentation(body)
  ELSE body

Inject ==
  /\ step = "augmented"
  /\ outgoing' = Enriched
  /\ step' = "injected"
  /\ UNCHANGED <<node, mode, body, augmentation, expected>>

looks_like_completion_request(b) == mode.completion \/ (HasMessages(b) /\ b.messages # <<>>)

\* ensure_usage_on_stream: an option the client set wins.
ensure_usage_on_stream(options) ==
  IF options = Absent THEN [include_usage |-> TRUE]
  ELSE IF options \in Scalars \/ options.include_usage # Absent THEN options
  ELSE [include_usage |-> TRUE]

\* Mutant: the options survive the stream they belong to.
WithStream_bug(b, keep_stream) ==
  IF keep_stream THEN [b EXCEPT !.stream_options = ensure_usage_on_stream(@)]
  ELSE [b EXCEPT !.stream = FALSE]

WithStream(b, keep_stream) ==
  IF keep_stream THEN [b EXCEPT !.stream_options = ensure_usage_on_stream(@)]
  ELSE [b EXCEPT !.stream = FALSE, !.stream_options = Absent]

\* The object an index assignment makes of JSON null.
NoBody == [model |-> Absent, messages |-> Absent, system |-> Absent, stop |-> Absent, stream |-> Absent,
           stream_options |-> Absent, temperature |-> Absent, extra |-> Absent]

\* The rewrites of a completion-shaped object; on another JSON value the index
\* assignment panics.
Overridden(b, keep_stream) ==
  LET object == IF b = Null THEN NoBody ELSE b IN
  [WithStream(object, keep_stream) EXCEPT
     !.model = IF node.model = Absent THEN @ ELSE node.model,
     !.temperature = IF node.temperature = Absent THEN @ ELSE node.temperature]

AllowStream == mode.passthrough /\ ~mode.anthropic

apply_backend_overrides_bytes ==
  /\ step = "injected"
  /\ IF outgoing = Absent \/ ~looks_like_completion_request(outgoing)
     THEN /\ step' = "sent" /\ expected' = FALSE
          /\ UNCHANGED outgoing
     ELSE IF outgoing = Other
     THEN /\ step' = "panicked"
          /\ UNCHANGED <<outgoing, expected>>
     ELSE LET keep_stream == AllowStream /\ outgoing # Null /\ outgoing.stream = TRUE
          IN  /\ outgoing' = Overridden(outgoing, keep_stream)
              /\ expected' = keep_stream
              /\ step' = "sent"
  /\ UNCHANGED <<node, mode, body, augmentation>>

---------------------------------------------------------------------------
\* The requests of the model.
Contents ==
  {Absent, Null, Other, Text(<<"a">>), Parts(<<>>)} \cup
  {Parts(<<Part("text", <<"a">>, "extra"), p>>) :
     p \in {Part("image", Absent, "extra"), Part("text", Absent, Absent), Part("text", Null, Absent),
            Part("text", Other, Absent), Part(Absent, <<"b">>, Absent), Part("text", <<"b">>, Absent)}}

Single(role, content) == <<Message(role, content, "extra")>>
Turns(content) ==
  <<Message("system", Text(<<"s">>), Absent), Message("user", content, Absent), Message("assistant", Text(<<"t">>), Absent)>>

Conversations ==
  {Absent, Other, <<>>} \cup {Single(role, content) : role \in {"user", "system", Other}, content \in Contents}
  \cup {Turns(content) : content \in Contents}
  \cup {<<Message("user", Text(<<"a">>), Absent), Message("user", Parts(<<Part("text", <<"b">>, Absent)>>), Absent)>>}

Body(c, model, stop, system, stream, options) ==
  [NoBody EXCEPT !.messages = c, !.model = model, !.stop = stop, !.system = system, !.stream = stream,
                 !.stream_options = options, !.extra = "extra"]

\* Every conversation, and every way to ask for a stream.
Asking == {Absent, TRUE}
StreamFlags == {Absent, Null, Other, TRUE, FALSE}
StreamOptions == {Absent, Null, Other} \cup [include_usage : {Absent, TRUE, FALSE}]
Bodies ==
  {Absent, Null, Other}
  \cup {Body(c, "model", stop, system, stream, Absent) :
          c \in Conversations, stop \in {Absent, "string"}, system \in {Absent, Other}, stream \in Asking}
  \cup {Body(c, model, Absent, Absent, stream, options) :
          c \in {Absent, Single("user", Text(<<"a">>))}, model \in {Absent, Null, Other, "model"},
          stream \in StreamFlags, options \in StreamOptions}

AugmentReplies ==
  [success : {TRUE}, content : {Absent, <<>>, <<"c">>}, blocks : {<<>>, << <<"c">> >>}]
  \cup {[success |-> FALSE, content |-> <<"c">>, blocks |-> <<>>]}

Init ==
  /\ step = "arrived"
  /\ node \in {[model |-> Absent, temperature |-> Absent], [model |-> "mine", temperature |-> "t"]}
  /\ mode \in [augment : BOOLEAN, passthrough : BOOLEAN, anthropic : BOOLEAN, completion : BOOLEAN]
  /\ mode.anthropic => mode.completion
  /\ body \in Bodies
  /\ augmentation = Absent /\ outgoing = body /\ expected = FALSE

Next ==
  \/ Ask \/ Inject \/ apply_backend_overrides_bytes
  \/ \E answer \in AugmentReplies : AugmentAnswers(answer)

Spec == Init /\ [][Next]_rewriteVars

---------------------------------------------------------------------------
\* Who says what.
Spoken(b) ==
  IF ~HasMessages(b) THEN <<>>
  ELSE [i \in 1 .. Len(b.messages) |-> [role |-> b.messages[i].role, words |-> Words(b.messages[i].content)]]

\* inject_augmentation_value: "the block is never dropped" and "messages[0] is
\* never written to"; inject_into_anthropic.  The conversation the backend
\* receives is the client's, word for word, with the block once, at the end of
\* the last user message, exactly when the augment backend had something to say
\* and the body is of its API's type.
ConversationPreserved ==
  step = "sent" =>
    LET typed == IF mode.anthropic THEN IsAnthropicMessageRequest(body) ELSE IsChatCompletionRequest(body)
        user == SelectLastInSeq(body.messages, IsUser)
    IN  Spoken(outgoing) = IF augmentation # Absent /\ typed
                           THEN [Spoken(body) EXCEPT ![user].words = Append(@, Block)] ELSE Spoken(body)

\* "The router must dispatch on what was actually sent", "those fields mean
\* nothing downstream": the proxy expects a stream exactly when it asked for
\* one, never leaves stream options without a stream, asks for usage on a
\* stream unless the client decided, and sends a body that is no completion as
\* it came.
StreamAsAsked ==
  step = "sent" /\ outgoing # Absent =>
    IF looks_like_completion_request(body)
    THEN /\ outgoing.stream \in BOOLEAN /\ expected = outgoing.stream
         /\ ~outgoing.stream => outgoing.stream_options = Absent
         /\ outgoing.stream => outgoing.stream_options # Absent
         /\ outgoing.stream /\ outgoing.stream_options \notin Scalars => outgoing.stream_options.include_usage # Absent
    ELSE outgoing = body /\ ~expected
===========================================================================
