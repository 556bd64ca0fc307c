--------------------------- MODULE SampleMetrics ---------------------------
(***************************************************************************)
(* The statistics of one answer: what is extracted from it                 *)
(* (stats/collector.rs), the gate that decides whether it is exported      *)
(* (exporters/mod.rs), the line that is logged (stats/formatter.rs) and    *)
(* the point that is written (exporters/influxdb.rs).                      *)
(*                                                                         *)
(* Durations and rates are f64 in the code.  Here a duration is a number   *)
(* of units of the smallest one, so Tiny is what f64 calls subnormal, and  *)
(* Inf is what a literal or a quotient beyond the range becomes.           *)
(***************************************************************************)
EXTENDS Integers, FiniteSetsExt, SequencesExt

CONSTANTS
  Absent, Null,
  U64Max,          \* where counts saturate
  Plausible,       \* stats.max_plausible_prefill_tps
  ModelCells,      \* the width of the compact line's model column
  FinishPad,       \* the cells the finish column has, which a long finish overflows
  FinishCells,     \* MAX_FINISH_CELLS
  MaxFreeForm,     \* MAX_FREE_FORM_CHARS
  MaxName,         \* bound of the model: the length of a model's name or of a finish
  MaxSamples       \* bound of the model: samples published

Tiny == 1
OneMs == 5
Inf == 1000000
Scale == 1000

VARIABLES
  body,           \* the answer last looked at
  sample,         \* its RequestMetrics
  line,           \* the compact line logged for it
  point,          \* the fields of the point built for it
  tags,           \* and its tags
  published,      \* the number of samples
  skipped,        \* EXPORTS_SKIPPED_TOTAL
  implausible,    \* PREFILL_IMPLAUSIBLE_TOTAL
  exported        \* the number of samples handed to the exporters

vars == <<body, sample, line, point, tags, published, skipped, implausible, exported>>

Known(v) == v # Absent /\ v # Null
Or(v, default) == IF Known(v) THEN v ELSE default
Sat(n) == IF n > U64Max THEN U64Max ELSE n
Positive(v) == IF Known(v) THEN v > 0 ELSE FALSE

\* tokens / ms * 1000 in f64.
Quotient(tokens, ms) ==
  IF tokens = 0 \/ ms = Inf THEN 0
  ELSE IF ms <= Tiny THEN Inf
  ELSE (tokens * Scale) \div ms

\* A duration or a derived rate that is not finite counts as not reported.
finite_rate(v) == IF v >= Inf THEN 0 ELSE v

\* The same for the rates that have an absence of their own: zero is none.
finite_rate_opt(v) == IF Known(v) /\ Positive(v) /\ v # Inf THEN v ELSE Absent

\* The words the code writes itself; "unknown" is one character here.
Unknown == <<"unknown">>
NotAvailable == <<"n", "/", "a">>

---------------------------------------------------------------------------
NewMetrics ==
  [prompt_tokens |-> Absent, completion_tokens |-> Absent, total_tokens |-> 0,
   prompt_tps |-> Absent, generation_tps |-> Absent, prompt_ms |-> 0, generation_ms |-> 0,
   total_tps |-> 0, decode_tps_min |-> 0, cached_tokens |-> Absent, cache_creation_tokens |-> Absent,
   has_timing_split |-> FALSE, queue_ms |-> Absent, context_total |-> Absent, context_used |-> Absent,
   context_percent |-> Absent, finish_reason |-> Unknown, output_len |-> 0,
   streaming |-> FALSE, stream_end |-> Absent, stream_incomplete |-> FALSE, duration_ms |-> 0,
   model |-> Unknown]

\* extract_usage: OpenAI's names first, whose prompt contains the cached prefix;
\* then Anthropic's, whose input does not, so that the window in use is the sum.
extract_usage(m, usage) ==
  CASE ~Known(usage) -> m
    [] Known(usage) /\ Known(usage.prompt_tokens) ->
         [m EXCEPT !.prompt_tokens = usage.prompt_tokens,
                   !.completion_tokens = usage.completion_tokens,
                   !.total_tokens = Or(usage.total_tokens, Sat(usage.prompt_tokens + Or(usage.completion_tokens, 0))),
                   !.cached_tokens = usage.cached_tokens]
    [] Known(usage) /\ ~Known(usage.prompt_tokens) /\ Known(usage.input_tokens) ->
         [m EXCEPT !.prompt_tokens = usage.input_tokens,
                   !.completion_tokens = usage.output_tokens,
                   !.total_tokens = Sat(usage.input_tokens + Or(usage.output_tokens, 0)),
                   !.cached_tokens = usage.cache_read_input_tokens,
                   !.cache_creation_tokens = usage.cache_creation_input_tokens,
                   !.context_used = Sat(Sat(usage.input_tokens + Or(usage.cache_read_input_tokens, 0))
                                        + Or(usage.cache_creation_input_tokens, 0))]
    [] OTHER -> m

\* llama.cpp's timings.  The rate of a prompt partly cached is that of the
\* tokens computed; the counts stand in for a usage that is missing.
from_timings(m, t) ==
  LET prompt_ms == finite_rate(Or(t.prompt_ms, 0))
      corrected == Known(t.prompt_n) /\ Positive(t.cache_n) /\ prompt_ms > 0
      computed == IF t.prompt_n > t.cache_n THEN t.prompt_n - t.cache_n ELSE 0
      uncounted == Or(m.prompt_tokens, 0) = 0 /\ Or(m.completion_tokens, 0) = 0
  IN  [m EXCEPT !.prompt_ms = prompt_ms,
                !.generation_ms = finite_rate(Or(t.predicted_ms, 0)),
                !.generation_tps = finite_rate_opt(t.predicted_per_second),
                !.prompt_tps = finite_rate_opt(IF corrected THEN Quotient(computed, prompt_ms) ELSE t.prompt_per_second),
                !.context_used = Or(t.prompt_n, @),
                !.cached_tokens = t.cache_n,
                !.prompt_tokens = IF uncounted THEN t.prompt_n ELSE @,
                !.completion_tokens = IF uncounted THEN t.predicted_n ELSE @,
                !.total_tokens = IF uncounted THEN Sat(Or(t.prompt_n, 0) + Or(t.predicted_n, 0)) ELSE @]

\* A duration vLLM reports: finite and no smaller than the smallest normal.
Usable(v) == IF Known(v) /\ v > Tiny /\ v < Inf THEN v ELSE Absent

\* The tokens prefill is rated on: the cached prefix is discounted where it is
\* part of the prompt (OpenAI's names), and only while something is left.
PrefillTokens(m, usage) ==
  LET subset == Known(usage) /\ usage.prompt_tokens # Absent
  IN  IF subset /\ Positive(m.cached_tokens) /\ m.cached_tokens < m.prompt_tokens
      THEN m.prompt_tokens - m.cached_tokens ELSE m.prompt_tokens

\* vLLM's per-request metrics.
extract_vllm_usage(m, usage, v) ==
  LET ttft == Usable(v.time_to_first_token_ms)
      gen == Usable(v.generation_time_ms)
  IN  [m EXCEPT !.queue_ms = Usable(v.queue_time_ms),
                !.prompt_ms = Or(ttft, @),
                !.prompt_tps = IF Known(ttft) /\ Positive(m.prompt_tokens)
                               THEN finite_rate_opt(Quotient(PrefillTokens(m, usage), ttft)) ELSE @,
                !.generation_ms = Or(gen, @),
                !.generation_tps = IF Known(gen) /\ Positive(m.completion_tokens)
                                   THEN finite_rate_opt(Quotient(m.completion_tokens, gen)) ELSE @]

NoTimings == [prompt_ms |-> Absent, predicted_ms |-> Absent, predicted_per_second |-> Absent,
              prompt_per_second |-> Absent, prompt_n |-> Absent, predicted_n |-> Absent, cache_n |-> Absent]

\* extract_timings: a `timings` field decides, even one that is null.
extract_timings(m, b) ==
  IF b.timings # Absent THEN from_timings(m, Or(b.timings, NoTimings))
  ELSE LET used == [m EXCEPT !.context_used = IF @ = Absent /\ Positive(m.prompt_tokens) THEN m.prompt_tokens ELSE @]
       IN  IF Known(b.metrics) THEN extract_vllm_usage(used, b.usage, b.metrics) ELSE used

\* extract_length_fallbacks: the first choice's finish and text, else
\* Anthropic's.
extract_length_fallbacks(m, b) ==
  CASE b.choices # Absent ->
         IF b.choices = <<>> THEN m
         ELSE [m EXCEPT !.finish_reason = Or(b.choices[1].finish_reason, Unknown),
                        !.output_len = Len(Or(b.choices[1].content, <<>>))]
    [] b.choices = Absent /\ Known(b.stop_reason) ->
         [m EXCEPT !.finish_reason = b.stop_reason, !.output_len = Len(Or(b.content, <<>>))]
    [] OTHER -> m

\* RequestMetrics::from_response.
from_response(b, streaming, duration_ms) ==
  LET m == extract_timings(extract_usage([NewMetrics EXCEPT !.model = Or(b.model, Unknown), !.streaming = streaming,
                                                        !.duration_ms = duration_ms],
                                         b.usage), b)
      counted == Or(m.completion_tokens, 0)
      rated == [m EXCEPT
        !.has_timing_split = Known(m.prompt_tps) \/ Known(m.generation_tps),
        !.total_tps = IF duration_ms > 0 /\ m.total_tokens > 0
                      THEN finite_rate(Quotient(m.total_tokens, duration_ms)) ELSE 0,
        !.decode_tps_min = IF duration_ms > 0 /\ counted > 0
                           THEN finite_rate(Quotient(counted, duration_ms)) ELSE 0]
  IN  extract_length_fallbacks(rated, b)

has_throughput_signal(m) ==
  m.total_tokens > 0 \/ m.total_tps > 0 \/ Positive(m.prompt_tps) \/ Positive(m.generation_tps)

\* The window the context probe found, and how much of it is in use.
calculate_context_percent(m, total) ==
  [m EXCEPT !.context_total = total,
            !.context_percent = IF Known(m.context_used) /\ Positive(total)
                                THEN (m.context_used * 100) \div total ELSE @]

---------------------------------------------------------------------------
\* tps_tier: a measured decode rate, a floor from the wall clock, or neither.
tps_tier(m) == IF Positive(m.generation_tps) THEN 1 ELSE IF m.decode_tps_min > 0 THEN 2 ELSE 3

NotMeasured == "n/a"

\* rate_group of the compact line.
rate_group(m) ==
  CASE tps_tier(m) = 1 -> [pp |-> Or(m.prompt_tps, 0), tg |-> m.generation_tps, floor |-> FALSE]
    [] tps_tier(m) = 2 -> [pp |-> NotMeasured, tg |-> m.decode_tps_min, floor |-> TRUE]
    [] tps_tier(m) = 3 -> [pp |-> NotMeasured, tg |-> NotMeasured, floor |-> FALSE]

\* stream_end_label, the exporter's tag.
stream_end_label(m) ==
  IF Known(m.stream_end) THEN m.stream_end ELSE IF m.streaming THEN "unknown" ELSE "sync"

\* The badge of the stream cell.
Badge(m) ==
  IF ~m.streaming THEN "sync"
  ELSE CASE m.stream_end = "truncated" -> "trunc"
         [] m.stream_end = "stalled" -> "stalled"
         [] m.stream_end = "client_gone" -> "gone"
         [] m.stream_end = "ok" -> "ok"
         [] OTHER -> IF m.stream_incomplete THEN "trunc" ELSE "ok"

\* What a character is: the cells it takes, and whether it is unsafe in a line
\* of the log or in a tag.  "wide" stands for a CJK character, "zero" for a
\* joiner, "newline" for a control character, "separator" for U+2028.
Cells(c) == CASE c = "wide" -> 2 [] c \in {"zero", "newline", "separator"} -> 0 [] OTHER -> 1
Width(text) == FoldSeq(LAMBDA c, sum : sum + Cells(c), 0, text)

\* free_form: at most so many characters, none of which can end a line or
\* forge a column.
free_form(text) ==
  [i \in 1 .. Min({Len(text), MaxFreeForm}) |-> IF text[i] \in {"newline", "separator", "="} THEN " " ELSE text[i]]

\* trim.
Trimmed(text) ==
  LET kept == {i \in 1 .. Len(text) : text[i] # " "}
  IN  IF kept = {} THEN <<>> ELSE SubSeq(text, Min(kept), Max(kept))

\* truncate_to_width: whole characters, as many as leave room for the ellipsis.
truncate_to_width(text, cells) ==
  LET budget == IF cells < 3 THEN 0 ELSE cells - 3
  IN  IF Width(text) <= cells THEN text
      ELSE SubSeq(text, 1, Max({i \in 0 .. Len(text) : Width(SubSeq(text, 1, i)) <= budget})) \o <<".", ".", ".">>

pad_cells(text, cells) ==
  IF Width(text) >= cells THEN text ELSE text \o [i \in 1 .. cells - Width(text) |-> " "]

\* tag_value: control characters and the delimiters of the line protocol.
tag_value(text) ==
  [i \in 1 .. Len(text) |-> IF text[i] \in {"newline", ",", "=", " "} THEN "_" ELSE text[i]]

\* The finish cell: never blank, cut when it is long, and no column behind it.
finish_cell(finish_reason) ==
  LET value == free_form(finish_reason)
  IN  pad_cells(IF Trimmed(value) \in {<<>>, Unknown} THEN NotAvailable
                ELSE truncate_to_width(value, FinishCells), FinishPad)

\* format_compact: the rates, the cells of the head, and the tail's cells that
\* are present.
format_compact(m) ==
  [model |-> pad_cells(truncate_to_width(free_form(m.model), ModelCells), ModelCells),
   rates |-> rate_group(m),
   ctx |-> <<Or(m.context_used, NotMeasured), Or(m.context_total, NotMeasured)>>,
   tok |-> <<Or(m.prompt_tokens, NotMeasured), Or(m.completion_tokens, NotMeasured)>>,
   stream |-> Badge(m),
   finish |-> finish_cell(m.finish_reason),
   tail |-> (IF tps_tier(m) # 1 /\ m.total_tps > 0 THEN {"work"} ELSE {})
            \cup (IF Known(m.queue_ms) /\ m.queue_ms >= OneMs THEN {"queue"} ELSE {})
            \cup (IF Positive(m.cached_tokens) THEN {"cache"} ELSE {})]

\* pretty_performance_lines: the rows of the box, as what they claim to be.
pretty_performance_lines(m) ==
  IF tps_tier(m) = 1
  THEN [prefill |-> IF Positive(m.prompt_tps) THEN m.prompt_tps ELSE NotMeasured,
        decode |-> m.generation_tps, floor |-> NotMeasured]
  ELSE [prefill |-> IF Positive(m.prompt_tps) THEN m.prompt_tps ELSE NotMeasured,
        decode |-> NotMeasured,
        floor |-> IF m.decode_tps_min > 0 THEN m.decode_tps_min ELSE NotMeasured]

\* pretty_footer_lines: the context, and a badge unless the client hung up.
pretty_footer_lines(m) ==
  [context |-> IF Known(m.context_used) /\ Known(m.context_total)
               THEN <<m.context_used, m.context_total, m.context_percent>> ELSE NotMeasured,
   badge |-> CASE ~m.streaming \/ m.stream_end = "client_gone" -> Absent
               [] m.streaming /\ m.stream_end \in {"truncated", "stalled"} -> m.stream_end
               [] OTHER -> "ok"]

\* format_metrics: both forms of the line, of which stats.format chooses one.
format_metrics(m) ==
  [compact |-> format_compact(m), performance |-> pretty_performance_lines(m), footer |-> pretty_footer_lines(m)]

---------------------------------------------------------------------------
AlwaysWritten ==
  {"total_tokens", "total_tps", "decode_tps_min", "has_timing_split", "prompt_ms", "generation_ms", "duration_ms",
   "output_len"}
OptionallyWritten ==
  {"prompt_tokens", "completion_tokens", "prompt_tps", "generation_tps", "cached_tokens",
   "cache_creation_tokens", "context_used", "context_total", "context_percent"}

\* Mutant: an absent rate is written as zero.
build_data_point_bug(m) ==
  [f \in AlwaysWritten \cup {f \in OptionallyWritten : Known(m[f])} \cup {"prompt_tps", "generation_tps"} |-> Or(m[f], 0)]

\* build_data_point: the fields that are always there, of the optional ones
\* those that were measured (of the lengths and flags, two are kept).
build_data_point(m) ==
  [f \in AlwaysWritten \cup {f \in OptionallyWritten : Known(m[f])} |-> m[f]]

\* log_sample_and_should_export, with the counters it keeps.
Publish(m) ==
  IF has_throughput_signal(m)
  THEN /\ line' = format_metrics(m)
       /\ point' = build_data_point(m)
       /\ tags' = [model |-> tag_value(m.model), finish |-> tag_value(m.finish_reason), end |-> stream_end_label(m)]
       /\ exported' = exported + 1
       /\ implausible' = implausible + (IF Plausible > 0 /\ Known(m.prompt_tps) /\ m.prompt_tps > Plausible THEN 1 ELSE 0)
       /\ UNCHANGED skipped
  ELSE /\ skipped' = skipped + 1
       /\ line' = Absent /\ point' = Absent /\ tags' = Absent
       /\ UNCHANGED <<exported, implausible>>

---------------------------------------------------------------------------
\* The answers: every mix of a few counts, durations and rates.
Counts == {Absent, 0, 3}
Usages ==
  {Absent}
  \cup [prompt_tokens : {0, U64Max}, completion_tokens : Counts, total_tokens : {Absent, 0},
        cached_tokens : {Absent, 2, U64Max}, input_tokens : {Absent}, output_tokens : {Absent},
        cache_read_input_tokens : {Absent}, cache_creation_input_tokens : {Absent}]
  \cup [prompt_tokens : {Absent}, completion_tokens : {Absent}, total_tokens : {Absent},
        cached_tokens : {Absent}, input_tokens : {0, 3}, output_tokens : Counts,
        cache_read_input_tokens : {Absent, 2}, cache_creation_input_tokens : {Absent, U64Max}]

SomeUsage == CHOOSE u \in Usages : Known(u) /\ u.completion_tokens = 3

TimingBlocks ==
  [prompt_ms : {Absent, Tiny, 10}, predicted_ms : {10, Inf}, predicted_per_second : {Absent, 0, 7, Inf},
   prompt_per_second : {Absent, 7, Inf}, prompt_n : {Absent, 3}, predicted_n : {Absent, 2},
   cache_n : {Absent, 2, 3}]

VllmBlocks ==
  [queue_time_ms : {Absent, 2, 10}, time_to_first_token_ms : {Absent, Tiny, 10, Inf},
   generation_time_ms : {Absent, Tiny, 10}]

Body(usage, timings, metrics) ==
  [model |-> <<"a">>, usage |-> usage, timings |-> timings, metrics |-> metrics,
   choices |-> <<[finish_reason |-> <<"a">>, content |-> <<"x">>]>>, stop_reason |-> Absent, content |-> Absent]

\* What a backend may echo as its model or give as its finish.
Echoed ==
  UNION {[1 .. n -> {"a", "wide", "zero", "newline", "separator", "=", ","}] : n \in 0 .. MaxName}
  \cup {Unknown, <<" ", "unknown">>, <<"unknown", "newline">>, <<" ", "a", " ">>}

\* Of the usages, those in which nothing is cached.
FewUsages == {u \in Usages : Known(u) => u.cached_tokens = Absent /\ u.cache_creation_input_tokens = Absent}

Init ==
  /\ body = Absent /\ sample = NewMetrics /\ line = Absent /\ point = Absent /\ tags = Absent
  /\ published = 0 /\ skipped = 0 /\ implausible = 0 /\ exported = 0

\* The window is asked for only when there is a signal.
Record(b, m, total) ==
  LET probed == IF has_throughput_signal(m) /\ Known(total) THEN calculate_context_percent(m, total) ELSE m
  IN  /\ body' = b /\ sample' = probed
      /\ published' = published + 1
      /\ Publish(probed)

\* The sample of a buffered answer, and of a stream with its end.
emit_metrics(b, duration, total) == Record(b, from_response(b, FALSE, duration), total)

publish_stats(b, duration, total, end) ==
  Record(b, [from_response(b, TRUE, duration) EXCEPT !.stream_end = end,
                                                     !.stream_incomplete = end \in {"truncated", "stalled"}], total)

Next ==
  /\ published < MaxSamples
  /\ \/ \E u \in Usages, v \in {Absent, Null} \cup VllmBlocks, duration \in {0, Tiny, 20} :
          emit_metrics(Body(u, Absent, v), duration, Absent)
     \/ \E u \in FewUsages, t \in {Null} \cup TimingBlocks, duration \in {0, 20} :
          emit_metrics(Body(u, t, Absent), duration, Absent)
     \/ \E stop \in {Absent, <<"a">>}, total \in {0, 8}, u \in FewUsages :
          LET anthropic == [Body(u, Absent, Absent) EXCEPT !.choices = Absent, !.stop_reason = stop,
                                                           !.content = <<"x", "y">>]
          IN  \/ emit_metrics(anthropic, 20, total)
              \/ \E end \in {"ok", "truncated", "stalled", "client_gone"} : publish_stats(anthropic, 20, total, end)
     \/ \E text \in Echoed :
          \/ emit_metrics([Body(SomeUsage, Absent, Absent) EXCEPT !.model = text], 20, Absent)
          \/ emit_metrics([Body(SomeUsage, Absent, Absent) EXCEPT !.choices[1].finish_reason = text], 20, Absent)

Spec == Init /\ [][Next]_vars

---------------------------------------------------------------------------
\* "An inf anywhere in the exporter's JSON body is rejected wholesale" (collector.rs),
\* "The measured rates are OMITTED when absent, never written as 0" (influxdb.rs):
\* whatever the backend reports, no field of a point is infinite, a rate of prefill or
\* decode is there only if it was measured, and has_timing_split says whether one is.
\* The floor and the cost rate are there always; a zero in them stands for what could
\* not be computed, for want of counted tokens or of a wall clock, and for nothing
\* else.  A sample is either exported with a signal or counted as skipped.
PointsAreMeasured ==
  /\ published = exported + skipped
  /\ implausible <= exported
  /\ Known(point) =>
       LET measurements == {"prompt_tps", "generation_tps"} \cap DOMAIN point
           no_clock == sample.duration_ms <= Tiny
       IN  /\ \A f \in DOMAIN point \ {"has_timing_split"} : point[f] < Inf
           /\ \A f \in measurements : point[f] > 0
           /\ point.has_timing_split <=> measurements # {}
           /\ point.decode_tps_min = 0 <=> ~Positive(sample.completion_tokens) \/ no_clock
           /\ point.total_tps = 0 <=> sample.total_tokens = 0 \/ no_clock
           /\ point.total_tokens > 0 \/ measurements # {}

\* "This UNDER-states the engine's decode rate -- but it can never over-state
\* it" and "prefill rated on non-cached tokens only" (collector.rs): the floor from
\* the wall clock does not exceed the decode rate of an engine that spent at most
\* the wall clock decoding, and where a prompt was partly read from the cache its
\* prefill rate claims no more tokens than were computed.
RatesAreHonest ==
  /\ Known(body) /\ Known(body.metrics) /\ Known(sample.generation_tps) /\ sample.generation_ms <= sample.duration_ms =>
       sample.decode_tps_min <= sample.generation_tps
  /\ Known(body) /\ Known(body.usage) /\ body.timings = Absent /\ Known(sample.prompt_tps) =>
       LET u == body.usage
       IN  /\ Known(u.prompt_tokens) /\ Positive(u.cached_tokens) /\ u.cached_tokens < u.prompt_tokens =>
                sample.prompt_tps * sample.prompt_ms <= (u.prompt_tokens - u.cached_tokens) * Scale
           /\ sample.prompt_tps * sample.prompt_ms <= sample.context_used * Scale

\* "a backend string can forge a column", "A `\n` in a backend `stop_reason` splits one
\* log record into two" (formatter.rs) and "forges a second measurement line"
\* (influxdb.rs): whatever name and finish a backend echoes, the compact record stays
\* one line of one head, in which the model's column has its one width, the finish is
\* never blank nor longer than its bound, and neither tag of the point holds a
\* delimiter or is shorter than what it stands for.
OneRecordPerSample ==
  Known(line) =>
    LET model == line.compact.model
        finish == line.compact.finish
    IN  /\ Width(model) = ModelCells
        /\ Width(finish) \in FinishPad .. FinishCells
        /\ Trimmed(finish) # <<>>
        /\ (Range(model) \cup Range(finish)) \cap {"newline", "separator", "="} = {}
        /\ Max({Len(model), Len(finish)}) <= MaxFreeForm + ModelCells
        /\ (Range(tags.model) \cup Range(tags.finish)) \cap {"newline", ",", "=", " "} = {}
        /\ Len(tags.model) = Len(sample.model)
        /\ Len(tags.finish) = Len(sample.finish_reason)
===========================================================================
