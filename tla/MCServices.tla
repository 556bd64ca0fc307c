----------------------------- MODULE MCServices -----------------------------
(***************************************************************************)
(* The start of the proxy and the services around its request path, with   *)
(* the hooks of opencode's jev client and model-switcher, each on its own:  *)
(* which one runs is chosen in the initial state, and the others keep      *)
(* their initial values.                                                   *)
(* They share no state in the program either.                              *)
(***************************************************************************)
EXTENDS Integers, Sequences

CONSTANTS
  Tasks, None, Absent,
  TTL, Budget, MaxClock, MaxWindow,  \* context windows
  Backoff,                           \* KV-cache capability
  ValueLength, Ceiling,              \* its labels
  Blank, MaxEdits,                   \* prompt files
  Names, Models, NoModel, NoGroup,   \* routing
  MAX_TIMEOUT_SECONDS, MAX_FAILURE_COOLDOWN_SECS, MAX_REPROMPT_TOTAL_MS, MAX_CHUNK_DELAY_MS, Hosts, NCtx,  \* start
  CHUNK, OVERLAP, FILE_MAX, BUDGET, MAX_FILES, MAX_LINES, NAMES, SKIPS, CACHE_MAX, TRACE_KEEP, MaxLaunches,  \* jev
  MaxTyped                           \* model-switcher

VARIABLES
  part,
  clock, window, entry, readers, writer, pc, started, seen, result, warned,
  counts, left, evicted_at,
  instant, engine, kv_info, call, lookup, returned, kv_warned, warnings, racers,
  gauges, got, scraped,
  file, present, text, mtime, prompt, at, reader, stat, content, answer, overlap,
  stage, config, entries, groups, asked, routed,
  scan, report, launches, requests, cache, waiting, shown,
  cmd, built, found, cli, world, llama, boot, settings, exporters, probe, windows, testing, displayed, serving, why,
  order, conf, pins, step, targets, nth, reads, picked, filter, cursor, wrote, outside, wrong, said

contextVars == <<clock, window, entry, readers, writer, pc, started, seen, result,
                 warned, counts, left, evicted_at>>
kvVars == <<instant, engine, kv_info, call, lookup, returned, kv_warned, warnings, racers>>
labelVars == <<gauges, got, scraped>>
promptVars == <<file, present, text, mtime, prompt, at, reader, stat, content,
                answer, overlap>>
routingVars == <<stage, config, entries, groups, asked, routed>>
answerVars == <<scan, report, launches, requests, cache, waiting, shown>>
startVars == <<cmd, built, found, cli, world, llama, boot, settings, exporters, probe, windows, testing, displayed,
               serving, why>>
switchVars == <<order, conf, pins, step, targets, nth, reads, picked, filter, cursor, wrote, outside, wrong, said>>

Context == INSTANCE ContextCache
Kv == INSTANCE KvCache
Labels == INSTANCE KvLabels
Prompt == INSTANCE PromptCache
Routing == INSTANCE GroupedRouting
Answers == INSTANCE JevAnswers WITH output <- report
Start == INSTANCE Startup WITH shown <- displayed
Switch == INSTANCE ModelSwitcher WITH
  Catalog <- <<"near", "odd", "wide">>, Odd <- {"odd"}, Ragged <- {"wide"}, Other <- "other",
  Agents <- <<"local-mind", "reviewer">>

Init ==
  /\ part \in {"context", "kv", "labels", "prompt", "routing", "answers", "start", "switch"}
  /\ Context!Init /\ (part # "context" => entry = None)
  /\ Kv!Init /\ (part # "kv" => engine = [kind |-> "vllm", up |-> TRUE])
  /\ Prompt!Init /\ (part # "prompt" => \A t \in Tasks : reader[t] = "reprompt")
  /\ Routing!Init /\ (part # "routing" => DOMAIN config = {})
  /\ Answers!Init
  /\ IF part = "switch" THEN Switch!Init
     ELSE /\ order = None /\ conf = None /\ pins = <<>> /\ step = "start" /\ targets = <<>> /\ nth = 1
          /\ reads = <<>> /\ picked = <<>> /\ filter = <<>> /\ cursor = 1 /\ wrote = {} /\ outside = {}
          /\ wrong = {} /\ said = "nothing"
  /\ IF part = "labels" THEN Labels!Init ELSE gauges = <<>> /\ got = 0 /\ scraped = Absent
  /\ IF part = "start" THEN Start!Init
     ELSE /\ cmd = None /\ built = FALSE /\ found = None /\ cli = None /\ world = None /\ llama = {}
          /\ boot = None /\ settings = None /\ exporters = {} /\ probe = <<>> /\ windows = None
          /\ testing = None /\ displayed = None /\ serving = None /\ why = None

Next ==
  /\ \/ /\ part = "context" /\ Context!Next
        /\ UNCHANGED <<kvVars, labelVars, promptVars, routingVars, answerVars, startVars, switchVars>>
     \/ /\ part = "kv" /\ Kv!Next
        /\ UNCHANGED <<contextVars, labelVars, promptVars, routingVars, answerVars, startVars, switchVars>>
     \/ /\ part = "labels" /\ Labels!Next
        /\ UNCHANGED <<contextVars, kvVars, promptVars, routingVars, answerVars, startVars, switchVars>>
     \/ /\ part = "prompt" /\ Prompt!Next
        /\ UNCHANGED <<contextVars, kvVars, labelVars, routingVars, answerVars, startVars, switchVars>>
     \/ /\ part = "routing" /\ Routing!Next
        /\ UNCHANGED <<contextVars, kvVars, labelVars, promptVars, answerVars, startVars, switchVars>>
     \/ /\ part = "answers" /\ Answers!Next
        /\ UNCHANGED <<contextVars, kvVars, labelVars, promptVars, routingVars, startVars, switchVars>>
     \/ /\ part = "start" /\ Start!Next
        /\ UNCHANGED <<contextVars, kvVars, labelVars, promptVars, routingVars, answerVars, switchVars>>
     \/ /\ part = "switch" /\ Switch!Next
        /\ UNCHANGED <<contextVars, kvVars, labelVars, promptVars, routingVars, answerVars, startVars>>
  /\ UNCHANGED part

vars == <<part, contextVars, kvVars, labelVars, promptVars, routingVars, answerVars, startVars, switchVars>>

Spec == Init /\ [][Next]_vars

---------------------------------------------------------------------------
\* The properties are those of the modules, each about its own part.

\* context.rs: no answer is staler than the time to live plus one probe, and
\* what an eviction forgot does not come back from before it.
ContextHonest == [][Context!ServedWindowIsRecent /\ Context!EvictionForgets]_vars

\* compat.rs, kv_labels.rs: a known answer is lost only to a scrape already under
\* way, and the labels found are those the server holds.
CapabilityHonest == [][Kv!AnswerLostOnlyToRacer /\ (part = "labels" => Labels!LabelsVerbatim')]_vars

\* prompt_cache.rs: without overlapping reloads a current mtime means current text.
CurrentMtimeMeansCurrentText == Prompt!CurrentMtimeMeansCurrentText

\* grouped.rs: the group follows from the configuration and the model alone.
RoutingIsDetermined == Routing!RoutingIsDetermined

\* jev.ts: chunks cover the file, every file is accounted for in the report, and the
\* hooks' cache and traces remember what they should.
NothingUnread ==
  part = "answers" => Answers!ChunksCoverFile /\ Answers!EveryFileAccounted /\ Answers!HooksRemember

\* main.rs, config/: the settings served are those that were checked, whatever overrode them.
ServesWhatWasChecked == part = "start" => Start!ServesWhatWasChecked

\* preflight.rs: the models that are routed to are those the probes found.
ModelsAsDiscovered == part = "start" => Start!ModelsAsDiscovered

\* model-switcher: an aborted run has written nothing, what was chosen is in the files,
\* and the models that are not as the command asked are named.
SwitchIsHonest ==
  part = "switch" => Switch!AbortIsClean /\ Switch!ChoicesApplied /\ Switch!WarningsComplete
===========================================================================
