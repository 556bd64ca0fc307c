# A TLA+ model of local-mind

This directory is a verification project for the `local-mind` repository. Its
core is `llama-proxy`, a Rust reverse proxy between LLM clients (opencode and
others) and one or more llama.cpp / vLLM servers; around it stand `model-holder`,
which keeps model files in RAM, `model-switcher`, which edits opencode's configuration,
and two plugins of opencode. The directory holds
TLA+ modules translated from the source, the TLC configurations that check them on
small instances, and TLAPS proofs of most of their properties for every value of the
constants. `PROJECT.json` lists, in machine-readable form, the components, the
runs, one mutant for each property, the source lines behind every definition, the
findings, the hazards and the theorems.

All paths below are relative to `src/llama-proxy/src/` unless they start with `src/`
or name a plugin (`jev.ts`, `stop-jobs.ts`, both under
`src/opencode/container_data/config/opencode/plugins/`).

## 1. Inventory

### 1.1 The parts and what they keep

| part | state | operations |
|---|---|---|
| backend node (`backends/balancer.rs`, `node.rs`) | `active_requests` (atomic), `healthy` (atomic), `cooldown_until` (mutex) | guard new / from_claimed / drop, `mark_failed`, `mark_healthy`, `in_cooldown` |
| strategies (`backends/priority_free.rs`, `round_robin.rs`) | round robin: a rotating atomic counter | `select` |
| grouped routing (`backends/grouped.rs`) | model map, default group, built once | `new`, `select` |
| request handler (`proxy/handler.rs`) | in-flight gauge, concurrency semaphore, counters; per request: permit, backend guard, gauge guard, the body in its successive forms | `proxy_handler` and its early exits, rewriting, forwarding, dumps |
| augment backend (`augment.rs`) | prompt cache | one question per request, the block it adds |
| reprompt engine (`proxy/reprompt.rs`) | prompt cache; per answer: rounds, budget, collected text | trigger, `FollowUp` rounds, joining of the texts |
| response fixes (`fixes/`) | registry: order, enabled flags | three repairs, the structural JSON scan, detection on a stream |
| stream synthesis (`proxy/synthesis.rs`), API types (`api/`) | none | an answer to chunks or frames, conversions between the two wire formats |
| delta accumulation (`proxy/streaming.rs`) | the accumulated answer | merge of chunks, tool-call fragments and Anthropic events |
| stream framer (`proxy/streaming.rs`) | buffer, scan frontier, held CR | `push`, `take_framed`, `finish` |
| pass-through body and observer (`proxy/streaming.rs`) | accumulated bytes (mutex), channel with the end reason | poll of the body, drop of the body, observer loop |
| statistics (`stats/collector.rs`, `formatter.rs`), export gate and line protocol (`exporters/`) | counters | measure, derive rates, log line and box, gate, point |
| InfluxDB writer (`exporters/influxdb/worker.rs`) | bounded sample channel, ticket channel, thread handle | `enqueue`, `flush`, `shutdown`, `Drop`, worker loop |
| context-window cache (`proxy/context.rs`) | entry with its age, set of warnings | lookup with probe, `evict`, warn-once |
| KV capability (`proxy/compat.rs`, `kv_labels.rs`) | answer or failure with its time | check, scrape of a metrics stream, write |
| prompt file cache (`prompt_cache.rs`) | text and mtime, each with its own lock; the reprompt engine's copy | `refresh` |
| configuration (`config/`), process entry (`main.rs`), preflight (`backends/preflight.rs`) | settings, discovered models, exporters, balancer | load, override, validate, probe every node, bind |
| serve loop (`proxy/server.rs`, `exporters/mod.rs`) | listener, JoinSet of connections, drain deadline | accept, reap, drain, `shutdown_all` |
| `ask_jev` and the hooks of `jev.ts` | one turn per server, server cooldowns, chunk queue, promise cache, parked traces | ask, worker pool, retry, abort, report |
| `/stop-all-jobs` (`stop-jobs.ts`) | candidates, sessions found not to run here | passes of interrupts, report |
| `model-holder` (`src/model-holder`) | mapped and locked files, quit flag, UI state | `tui`, `oneshot`, `check` |
| `model-switcher` (`src/opencode/helpers/model-switcher`) | the configuration file and the agents' files; per run: targets, choices, filter | the commands, menus, confirmation, writes file by file |

The repository also holds end-to-end tests, and launchers, images and patches for
the inference servers.

### 1.2 How they interact

`main` loads the settings, applies the command line, validates again, probes the nodes
concurrently and starts the serve loop. A request enters a connection task of the
serve loop and calls the handler. The handler raises the gauge, reads the body, asks
the grouped router for a node (which claims a unit of that node's busy counter), takes
a permit if the route is a completion, optionally asks the augment backend and puts
its block into the conversation, applies the node's overrides, sends, and then either
buffers the answer (which may be reprompted, is repaired by the fixes and, for a client
that wanted a stream, synthesized into one) or hands the permit, the guard and the
gauge to a streamed body that outlives it. A streamed body and its observer share the
accumulated bytes and a channel; the observer merges the deltas and measures them. A
finished request hands a sample to the exporter through a detached task; the
exporter's thread writes it. A failure evicts the node's entry in the context cache
and starts its cooldown. On a signal the serve loop stops accepting, waits for
connections up to a grace period and closes the exporters.

The plugins run in opencode and call the inference servers, directly or through the
proxy; `model-holder` shares only the page cache with them, `model-switcher` only the
files it edits.

### 1.3 What is hard here

* **Concurrency without a lock.** `select` walks the nodes with atomic operations
  while other selects reserve and release units, and nodes fail and recover; the
  cooldown is a flag and an expiry that are read separately.
* **Cancellation.** A client may vanish at every await of the handler, and every
  resource must come back exactly once, also when it was handed to a stream. The
  same holds of an `ask_jev` call that is aborted while it waits for its turn.
* **Races of ends.** A stream can complete, close, fail, stall and lose its client at
  nearly the same time; the observer must report what really happened.
* **Cuts.** Line terminators of an SSE stream, tool-call fragments, label values of a
  metrics stream and the chunks of a file may be cut anywhere.
* **Bodies of any shape.** Requests and answers are JSON of which the proxy looks at a
  part; a repair, a rewrite or a conversion must not lose what it does not look at.
* **Measurements that are missing.** Rates come from times that may be zero, absent or
  not finite, from three kinds of servers.
* **Caches.** Every cache drops its lock around the probe that fills it.
* **Work lists that go stale.** A command interrupts sessions from a list while they
  finish, wake and spawn; a worker pool puts failed chunks back while others leave.
* **Shutdown.** Queued samples, retries, flush tickets, Drop, detached tasks; a user
  who quits while threads take locks.

`PROJECT.json` lists each hazard at its line with the properties that would show it
going wrong.

### 1.4 What makes each part correct

| part | correct means |
|---|---|
| nodes and strategies | busy counters equal the claims in existence; a claim made by compare-and-exchange is exclusive; nodes in cooldown are skipped unless all are; every select returns; the node picked is the documented one |
| handler | gauge, permits and claims are exact on every exit; a refusal only at the limit; no success is invented; a node is blamed only for its own answers; the conversation arrives unchanged but for one block; a body is what its headers say |
| reprompts | every text of every turn reaches the client; no continuing answer is replaced |
| fixes | an argument is neither lost nor invented; a second pass changes nothing |
| synthesis, deltas | what is streamed reads back as the answer; deltas add up to what they said, however cut |
| framer | the output is the normalized input, whatever the cuts; complete events are never held back |
| stream and observer | the reported end is the real one; the analysis sees all of a completed stream; everything received is delivered |
| statistics and export | what is logged and exported was measured; one record per sample |
| writer | accepted samples are settled in order; every loss is counted; a join means nothing is outstanding |
| caches | staleness is bounded; a temporary failure does not become permanent; text and mtime belong together |
| start | what serves satisfies the rules; models are those of the probes |
| serve loop | responses in flight complete within the grace; the exporter outlives handlers; the process ends |
| ask_jev | one request per server at a time; no line unread; a verdict admits its gaps; every call ends |
| stop-all-jobs | what still runs is in the report |
| model-holder | what is shown and printed is so; a quit ends both threads |
| model-switcher | an aborted run has written nothing; what was chosen is in the files; what could not be applied is named |

## 2. Modules

| module | models | extends / instantiates |
|---|---|---|
| `BackendNode` | node state, the guard, `mark_failed`, `mark_healthy`, the steps of `in_cooldown`, the fallback walk | |
| `PriorityFree`, `RoundRobin` | `select` of each strategy, step by step | `BackendNode` |
| `PriorityFreeHistory` | history variables: which nodes were selectable / cooled during a whole scan | `PriorityFree` |
| `Strategies` | both strategies, disturbed or not, with the documented choice as reference | `BackendNode`, instances of both |
| `AdmissionControl` | the abstract concurrency limiter | |
| `RequestLifecycle`, `MCRequestLifecycle` | the handler's resources with every early exit, the reprompt rounds, streamed bodies, cancellation | instance of `AdmissionControl` |
| `RequestRewrite` | what the handler and `augment.rs` do to a request body: typed gate, augmentation, stream flag, usage option, node overrides | |
| `Reprompt` | trigger, rounds, budgets, follow-up bodies, joining of texts | |
| `JsonArguments`, `ResponseFixes` | an arguments string as a sequence of entries and the scan over it; the three fixes and their registry | |
| `WireTypes`, `StreamSynthesis`, `DeltaMerge` | completions, messages, blocks and their conversions; an answer to chunks and frames; chunks and events to an answer | |
| `ResponsePipeline` | the composition: repair, synthesize, read back; a stream of deltas | extends `ResponseFixes` and `DeltaMerge`, and through them the others |
| `Forwarding` | upload limit, decompression with its cap, headers both ways, dumps | |
| `StreamFraming` | the SSE framer on sequences over {x, CR, LF} | |
| `StreamPass` | the pass-through body, its drop, and the observer task | |
| `SampleMetrics` | extraction, rates, compact line and box, export gate, point and tags | |
| `WriterQueue` | channels, worker thread, retries, flush, shutdown, Drop | |
| `ContextCache`, `KvCache`, `KvLabels`, `PromptCache`, `GroupedRouting` | the caches, the metrics scan and the router | |
| `Settings`, `Startup` | the sections of the configuration and their rules; the commands, overrides, preflight and binding | `Startup` extends `Settings` |
| `GracefulShutdown` | serve loop, connections, drain, exporter shutdown | |
| `AskJev`, `JevAnswers` | the concurrent calls with their turns, workers and retries; chunking, budget and report with their limits, the hooks' requests (new, joined or cached) and the trace each call parks | |
| `StopJobs` | the passes against sessions that move | |
| `ModelHolder` | worker, lock threads and UI thread of `tui`; `oneshot`; `check` | |
| `ModelSwitcher` | one run of the tool against a user and another editor of the same files; ids that the file's syntax changes on the way in or out | |
| `MCExchange`, `MCServices`, `MCProcesses` | the stages of an exchange; start, caches and hooks; interleaved programs | instances of the modules above |
| `PriorityFreeProofs`, `RequestLifecycleProofs`, `WriterQueueProofs`, `AskJevProofs` | theorems about one component | the module they are about (`PriorityFreeHistory`, `MCRequestLifecycle`, `WriterQueue`, `AskJev`), `TLAPS` |
| `ServicesProofs`, `ProcessesProofs`, `RequestProofs`, `ContentProofs` | theorems about the parts of the compositions | `MCServices`; `MCProcesses` with an instance of `AskJevProofs`; `MCExchange`; `RequestProofs` for its lemmas on folds |

How code becomes a model:

* **A step is what one thread can do without another being seen in between**: one
  atomic operation, one section under a lock, or the code between two awaits. So
  `in_cooldown` is two steps (flag, then expiry under the mutex), and
  `mark_failed` is three (clock, expiry under the mutex, flag).
* **Integers keep their width where it matters**: the busy counters wrap (`FetchAdd`,
  `FetchSub` with `UsizeMax`), with the saturating repair in the guard's release, and
  the token sums of `SampleMetrics` saturate (`U64Max`).
* **Time** is a small clock that `Tick` advances; the comparisons are the code's.
  Where the code has only a timeout and no comparison, the timeout may fire at any
  moment.
* **Data** is what the control flow tells apart. A JSON value is a record of the fields
  the code looks into, each of which may be `Absent`, `Null`, of the right kind or
  `Other`; a text is a sequence over a letter and a space; the arguments of a tool
  call are a sequence of entries, whole or broken, and an ending; a rate is a small
  integer or one of the values that are no rate; a file version is a number; a model name is a model value.
* **Conversions** do what the code does: a typed round trip drops what the types do not
  hold, a split cuts where the code cuts, a parser rejects what it rejects.
* **Awaits** of the handler are labels of their own, and `Cancel` is possible at each
  of them. Dropping a future releases the follow-up's claim, the permit, the guard
  and the gauge one after the other, in the order the code drops them.
* **External code** (reqwest, tokio channels, the file system, mlock, opencode's
  sessions, the backends) is a nondeterministic choice among the outcomes the source
  handles.

## 3. Runs

Six runs pass. The stages of an exchange, the services and the programs do not share
state with each other in the code, so three of the runs choose one *part* in the
initial state and explore it; each property speaks about its own part.

| run | instance | checks |
|---|---|---|
| `priority_free` | 2 nodes, 2 requests, cooldown 1, clock up to 1 | `Conservation`, `NoNeedlessFallback`, `FreeClaimExclusive`, `CooledNodeSkipped`, `SelectTerminates` |
| `request_lifecycle` | 2 requests, each of any of 7 kinds, 1 node, 1 permit, 2 retries | `AccountsExact`, `SuccessNeverInvented`, `AdmissionSpec`, `BlameOnlyForOwnAnswer`, `ClaimReturned` |
| `writer_queue` | 3 samples, capacity 2, 1 retry, 1 flush, 1 shutdown | `AcceptedInOrder`, `DropsCounted`, `GoneMeansSettled`, `ClosingSettles` |
| `exchange`: select | 2 nodes, 3 requests, both strategies, `UsizeMax` 3 | `SelectsAreReference`, `FairShare` |
| rewrite | every shape of body, node and augmentation result | `ConversationPreserved`, `StreamAsAsked` |
| rounds | 0 or 2 retries, sentinels or none, every shape of answer | `NothingSaidIsLost` |
| answer | texts of up to 3 characters, arguments of up to 3 entries with every defect, 1 or 2 calls and choices, 4 deltas; unknown fields, also with the names of a message's own; Anthropic messages with any of their counts and any kind of block | `RepairsAreSafe`, `StreamReadsBack`, `DeltasReassemble` |
| forward | sizes up to 4 around caps of 1 and 2 | `ForwardsFaithfully` |
| framing | up to 8 bytes in chunks of up to 3, high-water mark 4 | `FramingIsExact` |
| metrics | every combination of present, absent and degenerate measurements of three kinds of servers; model names and finishes of up to 5 characters, delimiters and control characters among them | `SamplesAreHonest` |
| `services`: context, kv, prompt | 3 concurrent calls into each cache | `ContextHonest`, `CapabilityHonest`, `CurrentMtimeMeansCurrentText` |
| labels | gauges with values of 2 characters, every cut of the stream, ceiling 4 | `CapabilityHonest` |
| routing | every configuration of 3 groups and 2 models | `RoutingIsDetermined` |
| answers | files around every limit of chunk, budget, lines and count, 1 name and 1 skipped file listed; 3 tool calls past the hooks, a cache of 1, 2 traces kept | `NothingUnread` |
| start | each command, each rule of the settings on both sides, 4 hosts | `ServesWhatWasChecked`, `ModelsAsDiscovered` |
| switch | 3 models, one with an id JSON escapes and one with blanks or quotes at its ends, 2 agents' files, a filter of 1 letter, every layout of an entry | `SwitchIsHonest` |
| `processes`: shutdown | 2 keep-alive connections, 2 requests | `ShutdownIsClean`, `EverythingEnds` |
| jev | 3 calls, 2 servers, at most 3 calls started and requests failed together, 1 abort | `AskJevIsHonest`, `EverythingEnds` |
| stop | a parent, 2 subagents, the caller, 1 spawn, 1 error | `NothingOmitted` |
| holder | 2 files with every fault, 2 keys, `--lock-threads` 0 and 2 | `HolderTellsTheTruth`, `EverythingEnds` |
| stream | up to 3 chunks | `ObserverTellsTheTruth`, `EverythingDelivered`, `EverythingEnds` |

Six more are expected to be violated, and are the subject of section 4:
`sse_framing_crlf`, `prompt_pair`, `shutdown_sample`, `ask_jev_retry`,
`stop_jobs_stale`, `preflight_shared`.

Each property has a mutant: a plausible bug (a dropped guard, a swapped order, a
missing reset) written beside the definition it replaces, under which TLC finds the
property violated. The type invariants of the modules with proofs are proved
(section 5), that of `RequestLifecycle` is also part of `AccountsExact`; elsewhere
`TypeOK` or the comment of a variable documents its values.

What the compound properties say:

* `AccountsExact`: the gauge is the number of handlers, a node's busy counter is the
  number of claims, and the counters agree with what went over the wire.
* `AdmissionSpec`: the handler implements `AdmissionControl`, whose state is only the
  set of admitted completions; a refinement checked as a property.
* `NothingSaidIsLost`: the returned body carries every text of the stopped turn and of
  each round, in order, and a reply that continues the work is the one the client gets.
* `RepairsAreSafe`: arguments are left alone or become valid, with the first file path
  the model wrote, all that stood before the defect and nothing the model did not
  write; repairing again changes nothing.
* `StreamReadsBack`: what a client can read from a synthesized stream, by the proxy's own
  merge, in three parts. Of OpenAI chunks: every choice with its message and finish, the
  usage, and every unknown field. Of an OpenAI answer converted for `/v1/messages`: the
  blocks of all choices, the stop reason, the counts under both names and every unknown
  field. An unknown field with the name of one of the message's own is merged over it
  (`synthesis.rs:335-339`) and is read in its place, an unknown `content` so that the blocks
  are lost with it; only over `stop_reason` the final `message_delta` has the last word. Of
  an Anthropic answer: what its typed parse keeps, that is id, role, model, the fields its
  blocks' types have, the finish or the one implied, and the two token counts. What the
  parse drops (unknown fields, cache counts, the choices of an answer that reads as both
  kinds) is not in the stream, and the property does not claim it.
* `SamplesAreHonest`: no field of a point is infinite, and a prefill or decode rate is on a
  point or in the box only if it was measured. The floor of the decode rate and the cost
  rate are always written; the property says when they are zero: no counted tokens or no
  wall clock, and never otherwise. Of the compact line, the head names the model in cells
  of one width and the finish within its bound, never blank; neither holds a line break,
  a separator or a delimiter, and the same goes for the tags of the point. Each sample is
  exported, skipped or counted as implausible once.
* `NothingUnread`: chunks cover a file without a gap; every file of a call is in the report
  once, by name or in the number of those a limit cut off, and one with an unread part is
  no confident no; a prompt is asked again only after a failure or when its entry made
  room, and though calls share a request each parks a trace of its own, which is shown at
  most once, on the right tool's result.
* `SwitchIsHonest`: a run that is left has written nothing, and what it says it updated is in
  the file. For an id that neither JSON escapes nor the agents' reader trims, the file reads
  back as the choice. Of the others the run still says "Updated": a spliced id that parses
  again may stand for another value or for more than one (`config.rs:410`, `439`), and one with
  blanks or quotes at its ends is read without them (`config.rs:563-564`). The property then
  says only that the file still parses and that the agent still pins a model.
* `ServesWhatWasChecked`: the settings that serve satisfy the validators although the
  command line changed them after the loader had looked.
* `AskJevIsHonest`: a server has one request at a time, a chunk is judged once, and a
  verdict on a file with a failed or cut chunk says so.
* `HolderTellsTheTruth`: what the kernel keeps, what the program counted as locked and
  what it shows or prints agree, also after a quit in the middle.

### Why the bounds are enough

* **Two requests over two nodes** are the smallest instance in which two walks overlap
  on different nodes, a tie is broken, a reservation hides an idle node and one
  node recovers while the other is scanned; the select part adds a third request, so
  that loads 0, 1 and 2 and every order of expiries occur and the round-robin ticket
  wraps at 3 while requests hold tickets on both sides. A clock with one tick past a
  cooldown of one distinguishes before, at and after the expiry. The proofs of section 5
  remove the bounds for every property of the strategies but `SelectTerminates`.
* **Two requests for one permit** give contention, refusal and hand-over; each
  request is of any of seven kinds, one for each way through the handler's branches, and
  two retries let a follow-up round fail after one has succeeded.
* **Two rounds of reprompts** have a first, a middle and a last answer.
* **Three entries** of an arguments string hold a proven argument, a defect and a
  duplicate after it; **texts of three** characters with a window of two are cut at a
  space, at the window and not at all; a window of zero is one of the values.
* **Four deltas** open two calls and continue each, with the index of either missing.
* **Eight bytes in chunks of three over a high-water mark of four** reach every cut of
  CR LF CR LF, a forced flush, and a complete event on both sides of it.
* **Three samples through a queue of two** fill the queue, refuse a sample and have one
  in its retry chain at shutdown.
* **Three tasks** in a cache put a reader, a late probe and an eviction side by side;
  one tick past the time to live (4 against 3) makes a stale entry expire.
* **Numeric settings** have bounds of 2 in place of the code's, so that 0, 1, the bound
  and the bound plus one are all values; a rule holds or fails there as it does at 3600.
* **Three calls on two servers** put a waiting call behind an aborted one behind one that
  is being answered; two calls and a failure let the last worker fail after the healthy
  one left and a server be in its cooldown; one call and two failures exhaust both
  servers. Calls and failures share one bound (`MaxLoad`), so that these cases occur
  without their product.
* **Two keys** are a filter or the help with a `q` typed in it, or a key and a quit.
* **Three chunks** let a completion be followed by more data, an error and a close.

Symmetry is not used. Deadlock is not checked where the bounded model really stops:
a pipeline ends with its input, the services and programs with their budget of calls.

### Fairness

* `PriorityFree`: strong fairness of the steps of a `select` that has begun, and of
  the steps of `mark_failed` under the mutex. Both are synchronous code on a running
  thread; the only wait is a mutex held for two stores, which is enabled again and
  again rather than continuously, hence strong fairness. Nothing is assumed of idle
  clients, of a backend's answer or of the clock.
* `RequestLifecycle`: weak fairness of the handler's own steps, as each of its awaits
  is bounded by a timeout of the node, of the augment backend, of a probe or of the
  reprompt deadline. Nothing is assumed of the client, which may never finish its
  body nor read an answer; `ClaimReturned` is about requests that do not wait for it.
* `WriterQueue`: weak fairness of the worker thread; an HTTP attempt ends within
  `REQUEST_TIMEOUT` and a back-off within its delay.
* `MCProcesses`: weak fairness of the serve loop, with its timers, and of the
  connection tasks' reaction to the drain; of the callbacks of opencode's event loop,
  each of whose requests has a timeout; of `model-holder`'s threads; of the observer
  task and of the drop of a body that has ended. Nothing is assumed of clients,
  backends, servers, keys, the signal or the observer's inactivity timer.

## 4. Where the code and its comments disagree

Six runs show a statement of the repository that the code does not keep:

1. **`sse_framing_crlf`** - `proxy/streaming.rs:115` says that CRLF and a lone CR
   "each become exactly one LF". A forced flush that falls between the CR and the LF of
   one CRLF emits the held CR as an LF and forgets that it did, so the LF that follows
   becomes a second line break. `FramingIsExact` shows that the statement holds as
   long as no flush comes between.
2. **`prompt_pair`** - `proxy/reprompt.rs:71-72` says that no reader can "ever pair text
   from one reload with the mtime of another". Text and mtime are stored under two locks,
   one after the other (`prompt_cache.rs:78-79`), so two overlapping reloads can leave the
   older text under the newer mtime, and no later refresh notices.
   `CurrentMtimeMeansCurrentText` shows that it takes overlapping reloads.
3. **`shutdown_sample`** - `exporters/mod.rs:270-271` says that after the drain of the
   connections no request "hands a sample in behind it". Export tasks and observers are
   detached from the connections, so a sample can arrive after the exporter was closed.
   `ShutdownIsClean` shows the part of the order that does hold.
4. **`ask_jev_retry`** - `jev.ts:932` says that "a worker that fails puts its chunk back
   once for another server". A worker that finds the queue empty leaves for good, so when
   the worker of the last chunk fails, the chunk it puts back is never sent to the other,
   healthy server. `AskJevIsHonest` shows that the verdict then admits the gap.
5. **`stop_jobs_stale`** - `stop-jobs.ts:165` reports sessions as "Still marked but not
   running in this OpenCode process". An idle parent whose interrupt answered false is
   put on that list for good, then woken by the completion of the subagent the same pass
   interrupted, which the comment at line 125 foresees. `NothingOmitted` shows that it
   is at least listed.
6. **`preflight_shared`** - `backends/preflight.rs:25-26` calls the per-node work of the
   probes independent. The windows they learn are cached under the base URL
   (`proxy/context.rs:177`), so of two nodes on one server with different models the one
   that answers first decides the window of both.

Other observations, kept without a run:

* `priority_free.rs:3` promises the lowest-index idle node; the transient
  reservations of a concurrent select (line 88) can hide that node for one select.
  `SelectsAreReference` states the promise for undisturbed selects.
* `mark_failed` reads the clock before it takes the mutex (`node.rs:68-73`), so two
  concurrent failures can move an expiry back by the distance of their clock reads.
  "A zero duration never excludes the node" (`node.rs:69`) holds for selects that begin
  after the failure; one that took its time before sees an expiry in its future.
* A request that is shed with 429 has already claimed and released a node
  (`handler.rs:684` before `743`).
* The fallback counter is also raised for routes that are not completions
  (`handler.rs:995` against `1148`).
* The observer copies the accumulated bytes as if they were final
  (`streaming.rs:588-590`); after a completion or a stall the body may still append.
* An enqueue and a flush ticket can fall between the worker's empty poll and its
  sweep of tickets (`worker.rs:196`), and the flush then returns early, against the doc
  comment at line 323. `flush` has no caller outside the tests.
* The comment in `compat.rs:233-239` calls an entry write-once; the insert is
  unconditional. `CapabilityHonest` bounds the damage to calls that were already
  scraping. `kv_labels.rs:58` says that the lowest engine label wins; the scan of the
  stream returns at the first accepted line, and never parses a last line without LF.
* A body whose `stop` is a string, or an Anthropic body with string content or a list as
  system prompt, fails the typed gate in front of the augmentation, which is then
  skipped although `augment.rs` could place the block.
* Follow-up rounds are built from the request before its augmentation. The round counter
  of exhausted reprompts (`reprompt.rs:65`, "ran out of rounds or budget") does not
  count those that ended by the time budget. A follow-up or an override on a body that
  is JSON but no object panics at the index assignment instead of being refused.
* `handler.rs:1652` reads the request's content type for a dump from the response's
  headers; `streaming.rs:1118` copies hop-by-hop headers that `handler.rs:418-421` says
  are never forwarded.
* The compact line prints a prompt rate of 0 on its first tier when none was measured
  (`unwrap_or(0.0)` in `rate_group`).
* A synthesized Anthropic stream loses the cache token counts and the unknown fields of a
  buffered Anthropic answer, which the chunks of an OpenAI answer keep; and an unknown field
  named `content` or `role` overwrites the message's own in a converted stream.
* `model-switcher` splices a default id into the file without escaping it, and says "Updated"
  when the result parses, whatever it parses to.
* A call that `jev.ts` answers from its cache parks the trace of the first review again, so
  that one review's trace can be shown on several results; `TracesFindTheirCall` counts
  the parked copies, one for each call.
* The loader refuses strategy names in kebab case that the type's own parser accepts;
  `validate_final` checks the single backend's URL in group mode too; `--dump " "`
  passes although the loader trims.
* `is_model_file` of `model-holder` is documented as ignoring case; the extensions the
  user gives are not lowered.

## 5. What is proved

TLAPS checks these for every value of the constants that satisfies the named
assumptions: any number of nodes, requests, calls, connections, chunks, rounds and
files, any clock bound, any capacity, bodies and streams of any length. Of the 40
properties of the passing runs, 30 are stated by a theorem. Each such theorem is
about the very definition that the run names, in the specification that the run checks.

### `PriorityFreeProofs`

* `TypeCorrect`: `Spec => []TypeOK`. In particular no busy counter ever wraps.
* `CountersConserved`: `Spec => []Conservation`. Each busy counter is the number of
  requests that hold a unit of that node, as a guard or as a transient reservation.
* `FreeClaimsExclusive`: `Spec => FreeClaimExclusive`. A claim by compare-and-exchange is
  made only on a node that nobody serves from or has reserved at that instant.
* `FallbackIsNeeded`: `HSpec => []NoNeedlessFallback`. The fallback is reached only if no
  node was selectable for the whole of the select.
* `CooledNodesAreSkipped`: `HSpec => CooledNodeSkipped`. The walks return no node that was
  in cooldown for the whole of the select.

The assumptions are those of `BackendNode`: at least one node, finitely many requests,
and no more requests than `usize` can count. `Conservation` alone is not inductive: a
release subtracts one from a counter that must be known to be positive, and a walk
that revisited a node would count one reservation twice. The inductive invariant is
`IInv == TypeOK /\ Shape /\ Conservation`, where `Shape` says what each request holds at
each point of its code (nothing in the free scan, only nodes behind its index in the
reserving scan, one of them the best so far, exactly one guard when it serves). There is
one lemma per action; each re-establishes the cardinality of `Holders(n)` for the
one node it touches.

The history theorems add `Judged(r)`: what the nodes that were selectable (`steady`) or
cooled (`barred`) all along are worth at each point of the walks. Its core is the torn
read of `in_cooldown`: between the load of the flag and the read of the expiry the
node may recover and fail again. The read then could condemn a node that was selectable
at both ends, were it not that `mark_failed` stores the expiry and the flag under one
mutex, which the read takes too (`MutexCoversFlag`).

### `RequestLifecycleProofs`

* `BooksBalance`: `Spec => []AccountsExact`.
* `NoInventedSuccess`: `Spec => []SuccessNeverInvented`.
* `BlameIsEarned`: `Spec => BlameOnlyForOwnAnswer`.
* `LimiterImplemented`: `Spec => AdmissionSpec`. Under the mapping of the admitted
  completions to `Busy` and the shed ones to `Refused`, each initial state is one of
  `AdmissionControl` and each step one of its steps or a stutter.

The assumptions are finitely many requests and any configuration: any number of permits
(0 is no limit), of retries, and either setting of the two flags. The
inductive invariant is `Types /\ Books /\ \A r : Local(r)`. `Books` says that each shared
counter is the cardinality of its set of owners; `Local` says what one request owns at
each await and at each point of its drop, that a permit is lent exactly to completions in
progress, which answer goes with which status, and what has been counted when. The
ranges in `TypeOK` follow from `Books`, so they are not part of `Types`.

### `WriterQueueProofs`

* `QueueTyped`: `Spec => []TypeOK`, with the queue's bound by `Capacity`.
* `NothingLost`: `Spec => []AcceptedInOrder`. What was accepted is, in order, what was
  settled, what is being written and what is queued.
* `JoinIsComplete`: `Spec => []GoneMeansSettled`. When a shutdown has joined the thread,
  every accepted sample is settled.
* `LossesCounted`: `Spec => []DropsCounted`. The counter is the number of samples that
  were refused or given up.

The inductive invariant is `TypeOK /\ AcceptedInOrder /\ Closure`. `Closure` relates the
owner, the open flag, the worker's place and the callers' places; its core is that
the worker leaves only when the channel is closed and drained, and that nothing can be
enqueued from then on. The count needs that no sample is twice in the line
(`LineDistinct`), or one could be given up twice.

### `AskJevProofs`

* `AnswersAreHonest`: `Spec => []AskJevIsHonest`, for any number of calls, files and
  chunks, at least one server, any bound of workers.

The invariant has a part for the queues (a call stands in each at most once, and only
for the request it waits for) and one for each call: chunks that wait, that are asked and
that are answered are all different and all of the call; and, unless it was
interrupted, together with those given up they are all there are. That a verdict without a
gap has read everything is then a pigeonhole argument: as many different chunks as there
are tasks are all the tasks. How many tasks the code's flattening of files into chunks
yields, and that it yields each once, is proved by induction on the number of files, as
a least counterexample: `LeastNatural` gets the least element of a set of naturals from the
well-foundedness of the strict subset order, without an operator parameter.

### `ServicesProofs`

About the specification of `MCServices`. A step of a composition is a step of one part
that leaves the variables of the others alone, so that each invariant below is about the
variables of its own part.

* `ContextIsHonest`: `Spec => ContextHonest`, for any number of tasks, any time to live
  above zero and any bound of a probe. The invariant dates everything a task carries: a
  fetch is no older than its budget, what it is about to store was the backend's window
  since it began, an entry was when it was stored, and no entry older than the last
  eviction survives it.
* `MtimeVouchesForText`: `Spec => []CurrentMtimeMeansCurrentText`, for any number of calls. As
  long as no two reloads overlap there is at most one, whose stat precedes its read and
  whose text precedes its mtime.
* `KnownAnswerKept`: `AnswerLostOnlyToRacer` of `KvCache`, half of `CapabilityHonest`. While
  the answer is cached, whoever may still write is a racer. The constant for no entry must
  not be an answer.
* `RoutingIsByName`: `Spec => []RoutingIsDetermined`, for any finite set of group names,
  which are integers so that they have an order, and any models. `new` lists the groups of
  a map in whatever order it iterates and sorts them. The invariant, `SortedGroups`, is that
  the list is the increasing listing of the groups; there is only one, so the first
  catch-all and the first open group do not depend on the map's order.
* `SwitcherIsHonest`: `Spec => []SwitchIsHonest`, for a user who browses as long as they
  like, any content of the file, any failing write and any edit by somebody else.
  `SwitchInv` says how far prompts and writes have come (`MenuInv`), and that what was read
  for a prompt stands until it is written or somebody else changes it (`ReadsInv`); the
  property is part of it. The catalog is the one of `MCServices`: a plain id, an odd one whose
  splice may end in any value the re-parse accepts, and a ragged one; for the last two
  the property says less (section 3). `SwitchConstants` say that the marker of an absent
  value is no switch and names nothing.
* `OnlyTheCheckedServes` and `ProbesKeepToTheirNodes`: `Spec => []ServesWhatWasChecked` and
  `Spec => []ModelsAsDiscovered`, for any limits; the limit of a timeout must admit the
  default timeout. `StartInv` follows the settings through the stages of a start: from
  the loader on they are safe by its rules; the overrides are judged again by
  `validate_final`; a probe has learnt what its own server listed and nothing of another.

### `ProcessesProofs`

About the specification of `MCProcesses`.

* `ShutdownOrdered`: `Spec => ShutdownIsClean`, for any number of connections. The JoinSet
  holds every open connection, it is empty once the drain is over, and the exporters are
  closed only after that (`DrainOrder`).
* `ReportIsComplete`: `Spec => NothingOmitted`, for any sessions, the absent parent not being
  one. What runs is marked, and the report is made of what is read in the same step.
* `StreamsAreDelivered` and `StreamEndsAreTrue`: `Spec => []EverythingDelivered` and
  `Spec => []ObserverTellsTheTruth`, for a stream of any number of chunks. The invariant has
  a part for the body (it ends once, and the completion flag is set with the first
  terminal event handed on), one for the channel (a reason in it is true, a closed one
  means that the client left) and one for the observer (before it looked into the channel,
  its reason is wrong only in ways that `resolve_end_reason` repairs).
* `CallsAreHonest`: `Spec => []AskJevIsHonest`. The behaviours of the composition satisfy the
  specification of `AskJev` (`CallsRun`), so the theorem of `AskJevProofs` carries over. The
  composition has two servers and files of one or two chunks; for any others the
  statement is that of `AskJevProofs`.
* `HoldersTellTheTruth`: `Spec => []HolderTellsTheTruth`, for any finite set of files, with
  any faults, and any number of lock threads. `HolderInv` has a part for the worker, which
  goes through the files in their order, each stage behind the one before (`WorkInv`);
  one for the locks, which are taken by chunks of files whose threads end in any order, so
  that what was asked for is a prefix of the files plus a part of the current chunk
  (`LockInv`); one for the quit flag (`ExitInv`) and one for what is on the screen and
  printed, which was true and still is (`PrintInv`). No file may be empty: the TUI's
  release line says "all" by comparing sizes, and an empty file that could not be locked
  would not show.

### `RequestProofs`

About the specification of `MCExchange`. The module starts with induction as a least
counterexample (`LeastNatural`, from the well-foundedness of the strict subset order) and
with what it gives for the folds of the community modules: `FoldLeft` over a sequence is
the last value of an iteration over its prefixes.

* `NodesShareEvenly`: `Spec => []FairShare`. `ShareInv` counts the tickets: what the nodes
  have won and what the selects in progress will win is an even share of the tickets
  drawn. `SelectConstants` are the assumptions of `BackendNode` and that the number of nodes
  divides `UsizeMax + 1`. Where it does not, the ticket after the wrap does not follow the
  last one in the order of the nodes, and one wrap can shift the shares by one more; on
  64 bits that takes 2^64 requests.
* `SelectsReturnTheReference`: `Spec => SelectsAreReference`, for any number of nodes and
  requests under the assumptions of `BackendNode` alone. `SearchInv` says what a lone select
  knows at each point of its walks (`Knows`): the nodes behind its index are cooled or
  busy in the first walk; in the second it has reserved the selectable ones among them,
  and its best is the first with the smallest load, its own reservations not counted;
  in the fallback every node is cooled and the best is the first with the earliest expiry
  so far. That a reservation neither wraps a counter nor is lost (`Tally`) keeps the loads
  comparable during the walk.
* `StreamsAreAsAsked`: `Spec => []StreamAsAsked`. `RewriteConstants` say that the markers for
  absent, null and mistyped values are not objects, lists or flags; `RewriteInv` keeps the
  shape of the body through the stages.
* `EveryTextIsCarried`: `Spec => []NothingSaidIsLost`, for any number of rounds. In `RoundsInv`
  the texts collected are those said so far, and no reply has continued yet;
  `RoundsConstants` say that the markers are neither objects nor lists.

### `ContentProofs`

About the specification of `MCExchange` too.

* `ConversationsArePreserved`: `Spec => []ConversationPreserved`, for conversations of any
  length. `SpeechInv` adds to `RewriteInv` that the augment backend was asked because a user
  said something, and that from the injection on the backend hears the client's words
  with the block once, at the end of the last user message.
* `AnswersAreForwarded`: `Spec => []ForwardsFaithfully`, for bodies of any size and any cap.
  `BodyInv` says what the proxy holds at each hop in terms of what arrived; `DumpInv` that
  what is written and what is still to be written are the files of the answer.
* `FramingIsWhole`: `Spec => []FramingIsExact`, for streams of any length cut anywhere, and any
  high-water mark. `LineInv` says that output, buffer and held CR together are the
  normalized input, `ScanInv` that no complete event lies behind the scan frontier, `CountInv`
  that the counter is the number of blank lines released. What normalization does to a
  sequence byte by byte is proved by the lemmas on folds.

### What stays with TLC

* Liveness and everything that rests on `ENABLED`: `SelectTerminates`, `ClaimReturned`,
  `ClosingSettles`, `EverythingEnds`. The prover has no rules for fairness here.
* `RepairsAreSafe`, `StreamReadsBack` and `DeltasReassemble`, each of which relates several
  folds and recursive functions over the same answer. The induction theorems of the
  library take an operator, which the installed provers cannot instantiate; a least
  counterexample as for the framer is possible, one recursion at a time, and has not
  been done.
* The labels' half of `CapabilityHonest`, which relates the quoting of a printer to the
  scan of a parser over a whole line, and `NothingUnread`, which needs the same of the
  chunking of a file, and filters the hooks' traces with `SelectSeq`, of which the prover
  knows nothing.
* `SamplesAreHonest`, which is about finitely many combinations of present, absent and
  degenerate measurements, all of which the run enumerates.

## 6. What is abstracted from the modelled parts

* Wording, log lines, colours, layout and number formats are left out; which lines,
  cells, fields and tags appear is kept.
* Field contents the proxy copies without looking are one value (`Other`, or a name);
  properties about what must not be lost follow that value.
* `RequestLifecycle` keeps the resources and leaves the bodies to `RequestRewrite`,
  `Reprompt`, `ResponsePipeline` and `Forwarding`, which keep the bodies and leave the
  resources to it; the stream flag and the outcome of an augmentation are in both.
* `WriterQueue` has no clock: waits and attempts may end at any time, so it says
  nothing about how long a flush or a shutdown takes.
* The serve loop is modelled from the accept on; TLS, HTTP parsing and keep-alive
  details belong to hyper. YAML, JSON text and UTF-8 belong to serde.
* Of the hooks of `jev.ts`, the one that judges the output of a command (F2) keeps nothing
  between calls and is left out. A search names 15 skipped paths and does not count the
  others, as in the code.
* The box prints model and finish as the backend wrote them; only the compact line and the
  tags clean them, and only they are modelled. Truncation is to cells of one character.
* Of a block, `is_error` and the parts of a mixed content are part of its opaque value.
* Of `jev.ts`, the wording of prompts and the thresholds by which the pre-screen, the
  verdict and the permission hook judge a model's answer are left out.
* `model-holder` draws nothing here; a byte is a file and an offset in it. Speeds and page
  contents are left out, and so is `hold_models`, which nothing calls.
* `model-switcher` keeps the JSONC line editor as which layouts it can edit, and a typed
  filter as the models it matches; drawing is left out.

## 7. Order of work and plan

Done, in this order: nodes and strategies with their proofs; the handler and its
abstract limiter; framer, stream and observer; the writer with its proofs; caches
and routing; shutdown; then the answers (fixes, synthesis, deltas, conversions), the
samples, the plugins and `model-holder`, settings and start, the KV labels, reprompts,
request rewriting and forwarding; `model-switcher`; then the proofs about the handler,
the history of `select`, the stream, shutdown, caches and plugins; then those about the
stages of an exchange, routing, start, `model-switcher` and `model-holder`.

Next theorems: what the folds of the answer part compute (`RepairsAreSafe`,
`DeltasReassemble`, `StreamReadsBack`), each by a least counterexample as the framer's
was; the labels' half of `CapabilityHonest` and the chunking half of `NothingUnread` in the
same way; `SamplesAreHonest`, case by case.

A further composition worth having is that of the handler with the concurrent
strategies, so that the claims in `RequestLifecycle` are those of `BackendNode`.

## 8. What is not modelled

| part | why |
|---|---|
| `src/llama-proxy/e2e` and the unit tests | test harness, read for what it asserts |
| `src/server`, `src/pi`, `src/bin` | launchers, images, benchmark data and patches of third-party servers; no protocol of their own |
| `src/opencode-legacy` | superseded configuration with one disabled plugin |
| prompts and thresholds of `jev.ts` | judgement of model output, nothing to check it against |

## 9. Running it

    tlc -workers 2 -config PriorityFreeHistory.cfg PriorityFreeHistory
    tlc -workers 2 -config RequestLifecycle.cfg MCRequestLifecycle
    tlc -workers 2 -config WriterQueue.cfg WriterQueue
    tlc -workers 2 -config Exchange.cfg MCExchange
    tlc -workers 2 -config Services.cfg MCServices
    tlc -workers 2 -config Processes.cfg MCProcesses
    for m in PriorityFree RequestLifecycle WriterQueue AskJev Services Processes Request Content
    do tlapm ${m}Proofs.tla; done

`PROJECT.json` names the module and the configuration of each run, those that are
expected to be violated included. The longest runs, `exchange`, `services` and
`processes`, take two to three minutes each, the others about a minute or less. Of the
proofs, those about the compositions take between nine and twenty minutes each from
nothing, the others a few; `tlapm` remembers what it has proved.
