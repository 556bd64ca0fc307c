--------------------------- MODULE ResponseFixes ---------------------------
(***************************************************************************)
(* The repairs of a buffered answer (fixes/): null tool-call indices,      *)
(* arguments with `{}"` for a key, and duplicated or broken filePath       *)
(* entries; and the registry that applies the enabled ones in order and    *)
(* keeps the original when one of them fails.                              *)
(***************************************************************************)
EXTENDS WireTypes

NullIndex == "toolcall_null_index_fix"
MalformedArguments == "toolcall_malformed_arguments"
BadFilepath == "toolcall_bad_filepath"

\* The result of a fixer: what it returns, and whether it detected a defect
\* (a FixAction of Fixed or Failed).
NotApplicable(value) == [err |-> FALSE, value |-> value, detected |-> FALSE]
Fixed(value) == [err |-> FALSE, value |-> value, detected |-> TRUE]
FixError(value) == [err |-> TRUE, value |-> value, detected |-> TRUE]

Calls(side) == IF Present(side) THEN OrElse(side.tool_calls, <<>>) ELSE <<>>

ChoicesOf(response) == OrElse(response.choices, <<>>)

\* The arguments strings of the calls on the given sides of every choice.
ArgumentsIn(response, sides) ==
  {call.arguments : call \in {c \in UNION {UNION {Range(Calls(choice[side])) : side \in sides} :
                                            choice \in Range(ChoicesOf(response))} :
                                c # Other /\ Present(c.arguments)}}

WithCalls(side, calls) ==
  IF Present(side) /\ Present(side.tool_calls) THEN [side EXCEPT !.tool_calls = calls] ELSE side

\* A response with its calls replaced, on the given sides, by Repair(calls).
Rebuilt(response, sides, Repair(_)) ==
  IF ~Present(response.choices) THEN response
  ELSE [response EXCEPT !.choices =
          [n \in 1 .. Len(response.choices) |->
             [s \in DOMAIN response.choices[n] |->
                IF s \in sides
                THEN WithCalls(response.choices[n][s], Repair(Calls(response.choices[n][s])))
                ELSE response.choices[n][s]]]]

---------------------------------------------------------------------------
\* toolcall_null_index_fix: the index is missing, null or no number.
needs_index_fix(call) == IF call = Other THEN TRUE ELSE call.index \in {Absent, Null, Other}

\* The position of the entry; an entry that is no object is skipped.
assign_sequential_indices(calls) ==
  [i \in 1 .. Len(calls) |->
     IF needs_index_fix(calls[i]) /\ calls[i] # Other
     THEN [calls[i] EXCEPT !.index = i - 1] ELSE calls[i]]

null_index_applies(response) ==
  \E choice \in Range(ChoicesOf(response)) : \E side \in {"message", "delta"} :
    \E call \in Range(Calls(choice[side])) : needs_index_fix(call)

null_index_apply(response) ==
  LET result == Rebuilt(response, {"message", "delta"}, assign_sequential_indices)
  IN  IF result = response THEN NotApplicable(response) ELSE Fixed(result)

---------------------------------------------------------------------------
\* toolcall_malformed_arguments: the slots the pattern matches.
Slots(d) == SelectSeq([i \in 1 .. Len(d) |-> i], LAMBDA i : d[i].form = "slot")

\* splice_empty_key_slots: slot n gets the n-th key, everything else stays.
splice_empty_key_slots(d, keys) ==
  [i \in 1 .. Len(d) |->
     IF \E n \in 1 .. Len(keys) : n <= Len(Slots(d)) /\ Slots(d)[n] = i
     THEN Entry("ok", keys[CHOOSE n \in 1 .. Len(keys) : Slots(d)[n] = i], d[i].value)
     ELSE d[i]]

Sentinel == "slot"

\* The schema keys that are not provably present once the slots are masked.
candidate_keys(d, schema) ==
  LET masked == splice_empty_key_slots(d, [n \in 1 .. Len(Slots(d)) |-> Sentinel])
  IN  SelectSeq(schema, LAMBDA k : top_level_key_count(masked, k) = 0)

\* fix_arguments, for a string with a slot and a tool whose schema is known: one
\* candidate for every slot, or an error.
fill_slots(d, schema) ==
  LET keys == candidate_keys(d, schema)
      filled == splice_empty_key_slots(d, keys)
  IN  IF Len(keys) = Len(Slots(d)) /\ ValidJson(filled) THEN Fixed(filled) ELSE FixError(d)

\* extract_tool_schemas: the parameters the request declares for each tool; the
\* model keeps a request's `tools` as that function already.
Schemas(request) == OrElse(request.tools, [n \in {} |-> <<>>])

malformed_arguments_of(call, schemas) ==
  IF \/ call = Other
     \/ ~Present(call.arguments)
     \/ Slots(call.arguments) = <<>>
     \/ OrElse(call.name, <<>>) \notin DOMAIN schemas
  THEN NotApplicable(call)
  ELSE LET filled == fill_slots(call.arguments, schemas[call.name])
       IN  [filled EXCEPT !.value = [call EXCEPT !.arguments = filled.value]]

malformed_arguments_applies(response, request) ==
  /\ \E d \in ArgumentsIn(response, {"message", "delta"}) : Slots(d) # <<>>
  /\ request.tools # Absent

\* fix_response_with_context: the first call that cannot be repaired ends it.
malformed_arguments_apply(response, request) ==
  LET schemas == Schemas(request)
      repair(calls) == [i \in 1 .. Len(calls) |-> malformed_arguments_of(calls[i], schemas).value]
      result == Rebuilt(response, {"message", "delta"}, repair)
      failed == \E choice \in Range(ChoicesOf(response)) : \E side \in {"message", "delta"} :
                  \E call \in Range(Calls(choice[side])) : malformed_arguments_of(call, schemas).err
  IN  IF DOMAIN schemas = {} THEN NotApplicable(response)
      ELSE IF failed THEN FixError(response)
      ELSE IF result = response THEN NotApplicable(response) ELSE Fixed(result)

---------------------------------------------------------------------------
\* toolcall_bad_filepath.
is_malformed(d) == ~ValidJson(d) \/ top_level_key_count(d, "filePath") > 1

\* Where `"filePath":` first stands in the text: at a well-formed entry of that
\* key, or inside a nested value.
FirstFilepath(d) ==
  {i \in 1 .. Len(d) : d[i].form # "broken" /\ (d[i].key = "filePath" \/ d[i].value = "nested")}

\* Mutant: what follows the first filePath is cut off unseen.
truncate_after_filepath_bug(d) ==
  LET i == Min(FirstFilepath(d))
      cut == Append(SubSeq(d, 1, i), Close)
  IN  IF FirstFilepath(d) # {} /\ ValidJson(cut) THEN Fixed(cut) ELSE FixError(d)

\* fix_arguments for a string that does not parse: cut behind the first
\* filePath, unless its end is uncertain, a body provably follows, or what is
\* left is still invalid.
truncate_after_filepath(d) ==
  LET i == Min(FirstFilepath(d))
      cut == Append(SubSeq(d, 1, i), Close)
  IN  IF \/ FirstFilepath(d) = {}
         \/ d[i].key # "filePath"             \* a nested one: the cut leaves a brace open
         \/ d[i].value \notin {"p", "q"}      \* no string, or one with an escaped quote
         \/ "content" \in keys_after(d, i)
         \/ ~ValidJson(cut)
      THEN FixError(d) ELSE Fixed(cut)

\* fix_arguments for a string that parses: of several filePaths the first wins.
first_wins_filepath(d) ==
  LET spans == top_level_key_spans(d, "filePath")
  IN  [n \in 1 .. Len(Parsed(d)) |->
         IF Parsed(d)[n].key = "filePath" THEN d[Head(spans)] ELSE Parsed(d)[n]]

bad_filepath_arguments(d) ==
  IF ValidJson(d) THEN Fixed(Serialized(first_wins_filepath(d))) ELSE truncate_after_filepath(d)

\* apply_checked, for one call: a duplicate of another key is left alone.
bad_filepath_of(call) ==
  IF \/ call = Other
     \/ ~Present(call.arguments)
     \/ ~is_malformed(call.arguments)
     \/ Duplicated(call.arguments) \ {"filePath"} # {}
  THEN NotApplicable(call)
  ELSE LET fixed == bad_filepath_arguments(call.arguments)
       IN  [fixed EXCEPT !.value = [call EXCEPT !.arguments = fixed.value]]

bad_filepath_applies(response) ==
  \E d \in ArgumentsIn(response, {"message"}) : is_malformed(d)

bad_filepath_apply(response) ==
  LET repair(calls) == [i \in 1 .. Len(calls) |-> bad_filepath_of(calls[i]).value]
      tried == {bad_filepath_of(call) :
                  call \in UNION {Range(Calls(choice.message)) : choice \in Range(ChoicesOf(response))}}
  IN  IF \E t \in tried : t.err THEN FixError(response)
      ELSE IF \A t \in tried : ~t.detected THEN NotApplicable(response)
      ELSE Fixed(Rebuilt(response, {"message"}, repair))

---------------------------------------------------------------------------
\* The registry.  Registration order is the order of application.
RegistrationOrder == <<NullIndex, MalformedArguments, BadFilepath>>

\* The suffix-free spelling under which a fix may be configured, too.
BaseName(name) == IF name = NullIndex THEN "toolcall_null_index" ELSE name
SuffixedName(name) ==
  CASE name = NullIndex -> NullIndex
    [] name = MalformedArguments -> "toolcall_malformed_arguments_fix"
    [] name = BadFilepath -> "toolcall_bad_filepath_fix"

\* What the configuration says of a fix: the suffix-free key wins, and a fix
\* nobody mentions is enabled.
ConfiguredFix(name, modules) ==
  IF BaseName(name) \in DOMAIN modules THEN modules[BaseName(name)]
  ELSE IF SuffixedName(name) \in DOMAIN modules THEN modules[SuffixedName(name)]
  ELSE TRUE

\* create_registry_from_config: disabled fixes are not registered at all.
create_registry_from_config(fixes) ==
  IF ~fixes.enabled THEN <<>>
  ELSE SelectSeq(RegistrationOrder, LAMBDA name : ConfiguredFix(name, fixes.modules))

\* configure, on a registry in which every fix is enabled.
configure(registry, modules) ==
  {name \in Range(registry) : ConfiguredFix(name, modules)}

fix_applies(name, response, request) ==
  CASE name = NullIndex -> null_index_applies(response)
    [] name = MalformedArguments ->
         IF request = Absent
         THEN \E d \in ArgumentsIn(response, {"message", "delta"}) : Slots(d) # <<>>
         ELSE malformed_arguments_applies(response, request)
    [] name = BadFilepath -> bad_filepath_applies(response)

\* apply_with_context, and apply when there is no request to look at.
fix_apply(name, response, request) ==
  CASE name = NullIndex -> null_index_apply(response)
    [] name = MalformedArguments ->
         IF request = Absent THEN NotApplicable(response)
         ELSE malformed_arguments_apply(response, request)
    [] name = BadFilepath -> bad_filepath_apply(response)

\* apply_fixes_with_context and apply_fixes: a fixer that fails leaves the
\* response as it was, and the next one goes on from there.
apply_fixes_with_context(registry, response, request) ==
  FoldLeft(LAMBDA result, name :
             IF fix_applies(name, result, request)
             THEN LET outcome == fix_apply(name, result, request)
                  IN  IF outcome.err THEN result ELSE outcome.value
             ELSE result,
           response, registry)

\* detect_fixes: every fix is tried on the response as it is, and none is kept.
detect_fixes(registry, response, request) ==
  SelectSeq(registry, LAMBDA name : /\ fix_applies(name, response, request)
                                    /\ fix_apply(name, response, request).detected)
===========================================================================
