----------------------------- MODULE MCExchange -----------------------------
(***************************************************************************)
(* What happens to an exchange, stage by stage: a node is selected, the    *)
(* request is rewritten, a stopped answer is reprompted, the answer is     *)
(* repaired and streamed or forwarded, a stream is framed, and the sample  *)
(* is measured.  The stages hand values to each other and share no state;  *)
(* which one runs is chosen in the initial state, over every value it can  *)
(* be handed.                                                              *)
(***************************************************************************)
EXTENDS Integers, Sequences

CONSTANTS
  Absent, Null, Other, Space,
  N, Requests, None, Cooldown, MaxClock, UsizeMax,           \* selection of a node
  Block,                                                     \* request rewriting
  Done, Gap, MaxRetries,                                     \* reprompts
  Letter, MaxText, MaxEntries, MaxDeltas, MaxBlockIndex,     \* answers
  MAX_DECOMPRESSED_BYTES, RequestCap, MaxSize,               \* forwarding
  X, CR, LF, HighWater, MaxChunk, MaxBytes,                  \* framer
  U64Max, Plausible, ModelCells, FinishPad, FinishCells, MaxFreeForm, MaxName, MaxSamples  \* samples

VARIABLES
  part,
  active, healthy, cooldown_until, lock, clock, place, sub, now, idx, best, key, guard,
  strategy, discipline, reserved, counter, start, dispatched,
  step, node, mode, body, augmentation, outgoing, expected,
  engine, asking, stopped, round, attempt, collected, current, expired, follow_up, returned, said, counters,
  stage, api, chunk_size, registry, request, original, answer, lines, seen, sent,
  hop, path, uploaded, wire, held, response, dump, writing, bad_write,
  pending, scan_from, cr_held, pc, events, input, output, made_up,
  measured, sample, line, point, tags, published, skipped, implausible, exported

strategyVars == <<active, healthy, cooldown_until, lock, clock, place, sub, now, idx, best, key, guard,
                  strategy, discipline, reserved, counter, start, dispatched>>
rewriteVars == <<step, node, mode, body, augmentation, outgoing, expected>>
repromptVars == <<engine, asking, stopped, round, attempt, collected, current, expired, follow_up, returned, said,
                  counters>>
answerVars == <<stage, api, chunk_size, registry, request, original, answer, lines, seen, sent>>
forwardVars == <<hop, path, uploaded, wire, held, response, dump, writing, bad_write>>
framingVars == <<pending, scan_from, cr_held, pc, events, input, output, made_up>>
sampleVars == <<measured, sample, line, point, tags, published, skipped, implausible, exported>>

Balancing == INSTANCE Strategies WITH pc <- place
Rewrite == INSTANCE RequestRewrite
Rounds == INSTANCE Reprompt WITH request <- asking, original <- stopped
Answer == INSTANCE ResponsePipeline
Forward == INSTANCE Forwarding
Framing == INSTANCE StreamFraming
Metrics == INSTANCE SampleMetrics WITH body <- measured

\* A stage that does not run.
NoRewrite == step = "idle" /\ node = Absent /\ mode = Absent /\ body = Absent /\ augmentation = Absent
             /\ outgoing = Absent /\ expected = FALSE
NoRounds == engine = Absent /\ asking = Absent /\ stopped = Absent /\ round = "idle" /\ attempt = 0
            /\ collected = <<>> /\ current = Absent /\ expired = FALSE /\ follow_up = Absent
            /\ returned = Absent /\ said = <<>> /\ counters = Absent
NoAnswer == stage = "idle" /\ api = Absent /\ chunk_size = 0 /\ registry = Absent /\ request = Absent
            /\ original = Absent /\ answer = Absent /\ lines = <<>> /\ seen = Absent /\ sent = Absent
NoForward == hop = "idle" /\ path = Absent /\ uploaded = Absent /\ wire = Absent /\ held = Absent
             /\ response = Absent /\ dump = Absent /\ writing = {} /\ bad_write = FALSE

Init ==
  /\ part \in {"select", "rewrite", "rounds", "answer", "forward", "framing", "metrics"}
  /\ Framing!Init /\ Metrics!Init
  /\ Balancing!Init /\ (part # "select" => strategy = "priority_free")
  /\ IF part = "rewrite" THEN Rewrite!Init ELSE NoRewrite
  /\ IF part = "rounds" THEN Rounds!Init ELSE NoRounds
  /\ IF part = "answer" THEN Answer!Init ELSE NoAnswer
  /\ IF part = "forward" THEN Forward!Init ELSE NoForward

Next ==
  /\ \/ /\ part = "select" /\ Balancing!Next
        /\ UNCHANGED <<rewriteVars, repromptVars, answerVars, forwardVars, framingVars, sampleVars>>
     \/ /\ part = "rewrite" /\ Rewrite!Next
        /\ UNCHANGED <<strategyVars, repromptVars, answerVars, forwardVars, framingVars, sampleVars>>
     \/ /\ part = "rounds" /\ Rounds!Next
        /\ UNCHANGED <<strategyVars, rewriteVars, answerVars, forwardVars, framingVars, sampleVars>>
     \/ /\ part = "answer" /\ Answer!Next
        /\ UNCHANGED <<strategyVars, rewriteVars, repromptVars, forwardVars, framingVars, sampleVars>>
     \/ /\ part = "forward" /\ Forward!Next
        /\ UNCHANGED <<strategyVars, rewriteVars, repromptVars, answerVars, framingVars, sampleVars>>
     \/ /\ part = "framing" /\ Framing!Next
        /\ UNCHANGED <<strategyVars, rewriteVars, repromptVars, answerVars, forwardVars, sampleVars>>
     \/ /\ part = "metrics" /\ Metrics!Next
        /\ UNCHANGED <<strategyVars, rewriteVars, repromptVars, answerVars, forwardVars, framingVars>>
  /\ UNCHANGED part

vars == <<part, strategyVars, rewriteVars, repromptVars, answerVars, forwardVars, framingVars, sampleVars>>

Spec == Init /\ [][Next]_vars

---------------------------------------------------------------------------
\* The properties are those of the modules, each about its own part.

\* priority_free.rs, round_robin.rs: an undisturbed select returns the node the doc
\* comments promise.
SelectsAreReference ==
  [][Balancing!PriorityFreeIsReference /\ Balancing!RoundRobinIsReference]_vars

\* round_robin.rs: concurrent selects share the nodes evenly, and every guard's unit of
\* a busy counter is given back.
FairShare == Balancing!FairShare

\* handler.rs, augment.rs: the backend gets the client's conversation and, at most once, the block.
ConversationPreserved == part = "rewrite" => Rewrite!ConversationPreserved

\* handler.rs: the body asks for a stream exactly when the handler expects one.
StreamAsAsked == part = "rewrite" => Rewrite!StreamAsAsked

\* reprompt.rs: the returned body carries every text of every turn, and no answer is replaced.
NothingSaidIsLost == part = "rounds" => Rounds!NothingSaidIsLost

\* fixes/: a repair neither loses nor invents an argument, and a repaired answer is stable.
RepairsAreSafe == part = "answer" => Answer!RepairsAreSafe /\ Answer!RepairsSettle

\* synthesis.rs, openai.rs: a stream or a conversion made from an answer reads back as that answer.
StreamReadsBack ==
  part = "answer" => Answer!StreamReadsBack /\ Answer!FramesWellFormed /\ Answer!ConversionsAgree

\* streaming.rs: a backend's own deltas, however cut, add up to what they said.
DeltasReassemble == part = "answer" => Answer!DeltasReassemble

\* handler.rs: a forwarded body is what its headers say, and a dump with its metadata is
\* a whole dump.
ForwardsFaithfully == part = "forward" => Forward!BodyMatchesHeaders /\ Forward!DumpsAreComplete

\* streaming.rs: wherever the bytes are cut, lines, events and counts are those of the
\* whole stream, and nothing complete is held back.
FramingIsExact ==
  part = "framing" => /\ Framing!LinesPreserved /\ Framing!ScanSkipsNothing
                      /\ Framing!EventsCountBlankLines /\ Framing!NothingHeldBack

\* collector.rs, formatter.rs, influxdb.rs: what is logged and exported was measured.
SamplesAreHonest ==
  part = "metrics" => Metrics!PointsAreMeasured /\ Metrics!RatesAreHonest /\ Metrics!OneRecordPerSample
===========================================================================
