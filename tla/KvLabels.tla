------------------------------ MODULE KvLabels ------------------------------
(***************************************************************************)
(* What the vram-estimate shim learns from one GET /metrics: the stream is *)
(* walked line by line (scrape_kv_stream in proxy/compat.rs) until a line  *)
(* parses as the vllm:cache_config_info gauge (proxy/kv_labels.rs), and    *)
(* seven of its labels go into the answer.  Text is a sequence of          *)
(* characters and names, of which only those that the grammar knows are    *)
(* told apart.  KvCache uses the outcome of a scrape, and caches it.       *)
(***************************************************************************)
EXTENDS Integers, Sequences
LOCAL INSTANCE SequencesExt
LOCAL INSTANCE FiniteSetsExt

CONSTANTS
  Absent,       \* None
  ValueLength,  \* bound on the length of a label value
  Ceiling       \* KV_SCAN_CEILING_BYTES, in pieces of the stream

VARIABLES
  gauges,   \* the lines of the body: [text, ended], only the last may not be ended
  got,      \* the pieces received: two for an ended line, one for an open one
  scraped   \* the outcome, and the labels of the answer if it is "found"

kvLabelVars == <<gauges, got, scraped>>

---------------------------------------------------------------------------
\* kv_labels.rs.

\* Whether the text before each position is inside quotes, and after a backslash.
Quoting(text) ==
  LET state[i \in 0 .. Len(text)] ==
        IF i = 0 THEN [quoted |-> FALSE, escaped |-> FALSE]
        ELSE LET before == state[i - 1] IN
             IF before.escaped THEN [before EXCEPT !.escaped = FALSE]
             ELSE IF text[i] = "backslash" /\ before.quoted THEN [before EXCEPT !.escaped = TRUE]
             ELSE IF text[i] = "quote" THEN [before EXCEPT !.quoted = ~ @]
             ELSE before
  IN  state

\* The places of a character outside quotes.
Plain_bug(text, char) == {i \in 1 .. Len(text) : text[i] = char}
Plain(text, char) ==
  LET state == Quoting(text)
  IN  {i \in 1 .. Len(text) : text[i] = char /\ ~ state[i - 1].quoted /\ ~ state[i - 1].escaped}

\* The text up to the closing brace; a set that is not closed is no line to trust.
label_set_inner(rest) ==
  LET ends == Plain(rest, "brace") IN IF ends = {} THEN Absent ELSE SubSeq(rest, 1, Min(ends) - 1)

\* The quotes go, and an escaped character stands for itself but for n.
unquote(text) ==
  IF Len(text) < 2 \/ text[1] # "quote" \/ Last(text) # "quote" THEN Absent
  ELSE FoldLeft(LAMBDA acc, char :
                  IF acc.escaped
                  THEN [out |-> Append(acc.out, IF char = "n" THEN "newline" ELSE char), escaped |-> FALSE]
                  ELSE IF char = "backslash" THEN [acc EXCEPT !.escaped = TRUE]
                  ELSE [acc EXCEPT !.out = Append(@, char)],
                [out |-> <<>>, escaped |-> FALSE], SubSeq(text, 2, Len(text) - 1)).out

\* One name="value": the name ends at the first equals sign.  Nothing is guessed of
\* a segment of another shape.
Pair(segment) ==
  LET equals == {i \in DOMAIN segment : segment[i] = "equals"} IN
  IF equals = {} \/ Min(equals) = 1 THEN {}
  ELSE LET value == unquote(SubSeq(segment, Min(equals) + 1, Len(segment)))
       IN  IF value = Absent THEN {} ELSE {<<segment[1], value>>}

\* The segments between plain commas.
parse_label_pairs(inner) ==
  LET commas == Plain(inner, "comma") \cup {0}
      upto(a) == Min({c \in commas : c > a} \cup {Len(inner) + 1})
      pairs == UNION {Pair(SubSeq(inner, a + 1, upto(a) - 1)) : a \in commas}
  IN  [name \in {p[1] : p \in pairs} |-> (CHOOSE p \in pairs : p[1] = name)[2]]

\* The labels of a line: no comment, the very family, and at least one label.
cache_config_labels(line) ==
  IF ~ IsPrefix(<<"vllm:cache_config_info", "open">>, line) THEN Absent
  ELSE LET inner == label_set_inner(SubSeq(line, 3, Len(line)))
           labels == IF inner = Absent THEN <<>> ELSE parse_label_pairs(inner)
       IN  IF DOMAIN labels = {} THEN Absent ELSE labels

---------------------------------------------------------------------------
\* compat.rs.

MEMORY_LABELS == {"num_gpu_blocks", "block_size", "kv_cache_size_tokens", "kv_cache_max_concurrency",
                  "gpu_memory_utilization", "cache_dtype", "enable_prefix_caching"}

\* The object `vllm` of the answer: of the labels only those about memory, verbatim.
build_vram_estimate_body(labels) == [name \in DOMAIN labels \cap MEMORY_LABELS |-> labels[name]]

Outcome(is, labels) == [is |-> is, labels |-> labels]

\* The lines completed by the time `n` pieces have come.
Complete(n) == {i \in DOMAIN gauges : gauges[i].ended /\ 2 * i <= n}
Pieces == 2 * Len(gauges) - (IF gauges = <<>> \/ Last(gauges).ended THEN 0 ELSE 1)

\* A chunk: the ceiling is looked at first, then every line it completes, and the
\* first one that parses ends the scrape.
Chunk ==
  /\ scraped.is = "scanning" /\ got < Pieces
  /\ \E n \in (got + 1) .. Pieces :
       LET parsed == {i \in Complete(n) : cache_config_labels(gauges[i].text) # Absent}
       IN  /\ got' = n
           /\ scraped' = IF n > Ceiling THEN Outcome("failed", Absent)
                         ELSE IF parsed # {} THEN Outcome("found", cache_config_labels(gauges[Min(parsed)].text))
                         ELSE scraped
  /\ UNCHANGED gauges

\* The stream ends; a last line without its newline has not been looked at.
StreamEnds ==
  /\ scraped.is = "scanning" /\ got = Pieces
  /\ scraped' = Outcome("absent", Absent) /\ UNCHANGED <<gauges, got>>

\* The request cannot be sent, is refused, breaks off or exceeds its two seconds.
Break ==
  /\ scraped.is = "scanning"
  /\ scraped' = Outcome("failed", Absent) /\ UNCHANGED <<gauges, got>>

---------------------------------------------------------------------------
\* What a vLLM server prints: backslashes, quotes and newlines in a value are escaped.
Escaped(value) ==
  FlattenSeq([i \in DOMAIN value |-> CASE value[i] = "newline" -> <<"backslash", "n">>
                                       [] value[i] \in {"backslash", "quote"} -> <<"backslash", value[i]>>
                                       [] OTHER -> <<value[i]>>])
Printed(labels) ==
  LET names == SetToSeq(DOMAIN labels)
      pair(i) == (IF i = 1 THEN <<>> ELSE <<"comma">>)
                 \o <<names[i], "equals", "quote">> \o Escaped(labels[names[i]]) \o <<"quote">>
  IN  <<"vllm:cache_config_info", "open">> \o FlattenSeq([i \in DOMAIN names |-> pair(i)]) \o <<"brace", "1">>

Values == SeqOf({"x", "n", "quote", "backslash", "comma", "brace", "equals", "newline"}, ValueLength)
Series == {[block_size |-> v, engine |-> <<"0">>] : v \in Values}
Others == {<<"#", "vllm:cache_config_info", "open", "brace">>, <<"vllm:other", "open", "brace", "1">>,
           <<"vllm:cache_config_info", "open", "brace", "1">>}

\* One series among other lines, and its labels as the server holds them.
Init ==
  /\ \E labels \in Series, other \in Others, ended \in BOOLEAN, first \in BOOLEAN, long \in BOOLEAN :
       LET series == [text |-> Printed(labels), ended |-> ended \/ first]
           noise == [text |-> other, ended |-> ended \/ ~ first]
       IN  gauges = (IF long THEN <<[text |-> other, ended |-> TRUE]>> ELSE <<>>)
                    \o (IF first THEN <<series, noise>> ELSE <<noise, series>>)
  /\ got = 0 /\ scraped = Outcome("scanning", Absent)

Next == Chunk \/ StreamEnds \/ Break

Spec == Init /\ [][Next]_kvLabelVars

---------------------------------------------------------------------------
\* kv_labels.rs, compat.rs: however the stream is cut, the labels found are those the
\* server holds, character for character, whatever characters they contain; and the
\* permanent answer "absent" is given only if no line that was ended carries the gauge.
LabelsVerbatim ==
  /\ scraped.is = "found" =>
       /\ scraped.labels \in Series
       /\ \E i \in Complete(got) : gauges[i].text = Printed(scraped.labels)
       /\ DOMAIN build_vram_estimate_body(scraped.labels) = {"block_size"}
  /\ scraped.is = "absent" => \A i \in DOMAIN gauges : gauges[i].ended => gauges[i].text \in Others
===========================================================================
