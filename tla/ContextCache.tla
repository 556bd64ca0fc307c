---------------------------- MODULE ContextCache ----------------------------
(***************************************************************************)
(* The process-wide cache of a backend's context window (context.rs): the  *)
(* lookups with their time to live, the probes that refill it, the         *)
(* eviction when the backend fails, and the once-only warning.             *)
(*                                                                         *)
(* A task is one call: a fetch on behalf of a request, or an eviction by   *)
(* mark_backend_failed.  The window is numbered: 1 when the proxy starts,  *)
(* one more after every restart of the backend with another `-c`.  All     *)
(* backends share one RwLock; the entry of one of them is followed here.   *)
(***************************************************************************)
EXTENDS Integers, FiniteSets

CONSTANTS
  Tasks,
  None,        \* no entry, no result, no lock holder
  TTL,         \* CONTEXT_CACHE_TTL
  Budget,      \* CONTEXT_PROBE_TIMEOUT, or the client timeout of the observer
  MaxClock,    \* bound of the model: the last instant of the clock
  MaxWindow    \* bound of the model: restarts of the backend, plus one

VARIABLES
  clock,
  window,      \* the window the backend really has
  entry,       \* CONTEXT_CACHE[url]: None or [value, fetched_at]
  readers,     \* tasks that hold the cache's read guard
  writer,      \* the task that holds its write guard
  pc, started, seen, result,
  warned,      \* WARNED_BACKENDS holds the url
  counts,      \* the three counters, and the warnings that were logged
  left,        \* history: when each former window was given up
  evicted_at   \* history: the instant of the last eviction

vars == <<clock, window, entry, readers, writer, pc, started, seen, result,
          warned, counts, left, evicted_at>>

backend == <<clock, window, left>>
probe == <<started, seen>>

Windows == 1 .. MaxWindow

\* The states of a fetch that its timeout can still drop, and all of them.
Awaits == {"fetch", "props", "models"}
Fetching == Awaits \cup {"reading", "storing", "inserting"}

\* Preflight may have filled the cache (cache_context_from_preflight).
Init ==
  /\ clock = 0 /\ window = 1
  /\ entry \in {None, [value |-> 1, fetched_at |-> 0]}
  /\ readers = {} /\ writer = None
  /\ pc = [t \in Tasks |-> "idle"]
  /\ started = [t \in Tasks |-> 0]
  /\ seen = [t \in Tasks |-> None]
  /\ result = [t \in Tasks |-> None]
  /\ warned = FALSE
  /\ counts = [evictions |-> 0, skips |-> 0, timeouts |-> 0, warnings |-> 0]
  /\ left = [w \in Windows |-> 0]
  /\ evicted_at = None

Go(t, label) == pc' = [pc EXCEPT ![t] = label]

\* The call returns `value`, and its locals go out of scope.
Return(t, value) ==
  /\ result' = [result EXCEPT ![t] = value]
  /\ started' = [started EXCEPT ![t] = 0]
  /\ seen' = [seen EXCEPT ![t] = None]
  /\ Go(t, "done")
Count(c) == counts' = [counts EXCEPT ![c] = @ + 1]

---------------------------------------------------------------------------
(* fetch_context_total, under the timeout of its caller.                   *)

Fetch(t) ==
  /\ pc[t] = "idle"
  /\ started' = [started EXCEPT ![t] = clock]
  /\ Go(t, "fetch")
  /\ UNCHANGED <<backend, entry, readers, writer, seen, result, warned, counts, evicted_at>>

\* cache.read().await
LockRead(t) ==
  /\ pc[t] = "fetch" /\ writer = None
  /\ readers' = readers \cup {t}
  /\ Go(t, "reading")
  /\ UNCHANGED <<backend, entry, writer, probe, result, warned, counts, evicted_at>>

\* Mutant: the age of the entry is not looked at.
ReadEntry_bug(t) ==
  /\ pc[t] = "reading"
  /\ readers' = readers \ {t}
  /\ \/ entry # None /\ Return(t, entry.value)
     \/ entry = None /\ Go(t, "props") /\ UNCHANGED <<probe, result>>
  /\ UNCHANGED <<backend, entry, writer, warned, counts, evicted_at>>

entry_is_fresh == entry # None /\ clock - entry.fetched_at < TTL

\* A fresh entry is the answer; otherwise the guard goes before any probe.
ReadEntry(t) ==
  /\ pc[t] = "reading"
  /\ readers' = readers \ {t}
  /\ \/ entry_is_fresh /\ Return(t, entry.value)
     \/ ~entry_is_fresh /\ Go(t, "props") /\ UNCHANGED <<probe, result>>
  /\ UNCHANGED <<backend, entry, writer, warned, counts, evicted_at>>

\* A probe learns the window of this instant, or nothing usable.
fetch_from(t, endpoint, otherwise) ==
  /\ pc[t] = endpoint
  /\ \/ seen' = [seen EXCEPT ![t] = window] /\ Go(t, "storing")
     \/ Go(t, otherwise) /\ UNCHANGED seen
  /\ UNCHANGED <<backend, entry, readers, writer, started, result, warned, counts, evicted_at>>

fetch_from_props(t) == fetch_from(t, "props", "models")
fetch_from_models(t) == fetch_from(t, "models", "warn")

\* cache_result: try_write, and on contention a counted skip.
TryStore(t) ==
  /\ pc[t] = "storing"
  /\ \/ /\ readers = {} /\ writer = None
        /\ writer' = t /\ Go(t, "inserting")
        /\ UNCHANGED <<probe, result, counts>>
     \/ /\ readers # {} \/ writer # None
        /\ Count("skips") /\ Return(t, seen[t])
        /\ UNCHANGED writer
  /\ UNCHANGED <<backend, entry, readers, warned, evicted_at>>

Insert(t) ==
  /\ pc[t] = "inserting"
  /\ entry' = [value |-> seen[t], fetched_at |-> clock]
  /\ writer' = None
  /\ Return(t, seen[t])
  /\ UNCHANGED <<backend, readers, warned, counts, evicted_at>>

\* The caller's timeout drops the fetch at one of its awaits.  The request path
\* counts it and warns; the vram-estimate shim does neither.
Elapsed(t) ==
  /\ pc[t] \in Awaits /\ clock >= started[t] + Budget
  /\ \/ Count("timeouts") /\ Go(t, "warn") /\ UNCHANGED <<probe, result>>
     \/ Return(t, None) /\ UNCHANGED counts
  /\ UNCHANGED <<backend, entry, readers, writer, warned, evicted_at>>

---------------------------------------------------------------------------
(* warn_context_fetch_failed_once.                                         *)

WarnCheck(t) ==
  /\ pc[t] = "warn"
  /\ \/ warned /\ Return(t, None)
     \/ ~warned /\ Go(t, "warning") /\ UNCHANGED <<probe, result>>
  /\ UNCHANGED <<backend, entry, readers, writer, warned, counts, evicted_at>>

WarnInsert(t) ==
  /\ pc[t] = "warning"
  /\ IF warned THEN UNCHANGED counts ELSE Count("warnings")
  /\ warned' = TRUE
  /\ Return(t, None)
  /\ UNCHANGED <<backend, entry, readers, writer, evicted_at>>

---------------------------------------------------------------------------
(* invalidate_context_cache: give up when the lock is taken.               *)

TryEvict(t) ==
  /\ pc[t] = "idle"
  /\ \/ readers = {} /\ writer = None /\ writer' = t /\ Go(t, "removing")
     \/ (readers # {} \/ writer # None) /\ Go(t, "done") /\ UNCHANGED writer
  /\ UNCHANGED <<backend, entry, readers, probe, result, warned, counts, evicted_at>>

Remove(t) ==
  /\ pc[t] = "removing"
  /\ entry' = None
  /\ IF entry # None THEN Count("evictions") ELSE UNCHANGED counts
  /\ writer' = None
  /\ evicted_at' = clock
  /\ Go(t, "done")
  /\ UNCHANGED <<backend, readers, probe, result, warned>>

---------------------------------------------------------------------------
\* The backend comes back with another window, under the same URL.
Restart ==
  /\ window < MaxWindow
  /\ window' = window + 1
  /\ left' = [left EXCEPT ![window] = clock]
  /\ UNCHANGED <<clock, entry, readers, writer, pc, probe, result, warned, counts, evicted_at>>

\* Timers fire on time: no fetch outlives its budget.
Tick ==
  /\ clock < MaxClock
  /\ \A t \in Tasks : pc[t] \in Fetching => clock < started[t] + Budget
  /\ clock' = clock + 1
  /\ UNCHANGED <<window, left, entry, readers, writer, pc, probe, result, warned, counts, evicted_at>>

Task(t) ==
  \/ Fetch(t) \/ LockRead(t) \/ ReadEntry(t)
  \/ fetch_from_props(t) \/ fetch_from_models(t)
  \/ TryStore(t) \/ Insert(t) \/ Elapsed(t)
  \/ WarnCheck(t) \/ WarnInsert(t)
  \/ TryEvict(t) \/ Remove(t)

Next == (\E t \in Tasks : Task(t)) \/ Restart \/ Tick

Spec == Init /\ [][Next]_vars

---------------------------------------------------------------------------
TypeOK ==
  /\ clock \in 0 .. MaxClock /\ window \in Windows
  /\ entry \in {None} \cup [value : 1 .. window, fetched_at : 0 .. clock]
  /\ readers \subseteq Tasks /\ writer \in Tasks \cup {None}
  /\ writer # None => readers = {}
  /\ pc \in [Tasks -> Fetching \cup {"idle", "warn", "warning", "removing", "done"}]
  /\ started \in [Tasks -> 0 .. clock]
  /\ seen \in [Tasks -> Windows \cup {None}] /\ result \in [Tasks -> Windows \cup {None}]
  /\ counts \in [{"evictions", "skips", "timeouts", "warnings"} -> 0 .. Cardinality(Tasks)]

\* The window w was the backend's at some instant not before `since`.
HeldSince(w, since) == w = window \/ left[w] >= since

Answers(t) == result[t] = None /\ result'[t] # None

\* The documented staleness bound: a fetch never answers with a window the
\* backend gave up longer ago than the time to live plus one probe, however
\* refreshes, skipped writes and restarts interleave.
ServedWindowIsRecent ==
  \A t \in Tasks : Answers(t) => HeldSince(result'[t], clock - (TTL - 1) - Budget)

\* What an eviction forgets stays forgotten: after it, a fetch answers with a
\* window the backend still had when the eviction was at most one probe away,
\* although a probe in flight may write its older finding back.
EvictionForgets ==
  \A t \in Tasks : Answers(t) /\ evicted_at # None => HeldSince(result'[t], evicted_at - Budget)

\* Both, of every step.
ContextHonest == [][ServedWindowIsRecent /\ EvictionForgets]_vars
===========================================================================
