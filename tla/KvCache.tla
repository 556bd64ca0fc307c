------------------------------ MODULE KvCache ------------------------------
(***************************************************************************)
(* The cached KV-cache capability of a backend (compat.rs): one scrape of  *)
(* /metrics whose answer is kept for the life of the process, a failure    *)
(* that is kept for a backoff window only, and the once-only warning.      *)
(*                                                                         *)
(* A task is one call of kv_cache_info.  Engine is what the backend is: a  *)
(* vLLM advertises the gauge, a llama.cpp never does, and neither answers  *)
(* while it boots.                                                         *)
(***************************************************************************)
EXTENDS Integers, FiniteSets

CONSTANTS
  Tasks,
  None,        \* no entry
  Backoff,     \* KV_RETRY_BACKOFF
  MaxClock     \* bound of the model: the last instant of the clock

VARIABLES
  instant,
  engine,      \* what the backend is, and whether it serves yet
  kv_info,     \* KV_INFO[url]: None or a KvLookup
  call,
  lookup,      \* the KvLookup a task is about to write
  returned,    \* what the call returned: "pending", "info" or "nothing"
  kv_warned, warnings,
  racers       \* history: the scrapes under way when the answer was installed

vars == <<instant, engine, kv_info, call, lookup, returned, kv_warned, warnings, racers>>

Answer == {[tag |-> "Known", info |-> b] : b \in BOOLEAN}
Failure == {[tag |-> "Failed", at |-> t] : t \in 0 .. MaxClock}

Known(e) == e \in Answer
Scraping == {t \in Tasks : call[t] \in {"scrape", "warn", "write"}}

Init ==
  /\ instant = 0
  /\ engine \in [kind : {"vllm", "llamacpp"}, up : BOOLEAN]
  /\ kv_info = None
  /\ call = [t \in Tasks |-> "idle"]
  /\ lookup = [t \in Tasks |-> None]
  /\ returned = [t \in Tasks |-> "pending"]
  /\ kv_warned = FALSE /\ warnings = 0
  /\ racers = {}

Go(t, label) == call' = [call EXCEPT ![t] = label]
Return(t, e) ==
  returned' = [returned EXCEPT ![t] = IF Known(e) /\ e.info THEN "info" ELSE "nothing"]

---------------------------------------------------------------------------
\* The read-locked look: a known answer, a recent failure, or a scrape.
Backing(e) == e \in Failure /\ instant - e.at < Backoff
Check(t) ==
  /\ call[t] = "idle"
  /\ \/ /\ Known(kv_info) \/ Backing(kv_info)
        /\ Return(t, kv_info) /\ Go(t, "done")
     \/ /\ ~Known(kv_info) /\ ~Backing(kv_info)
        /\ Go(t, "scrape") /\ UNCHANGED returned
  /\ UNCHANGED <<instant, engine, kv_info, lookup, kv_warned, warnings, racers>>

\* scrape_kv_cache_info: Found or Absent from a clean 2xx stream; Failed when
\* the backend is down, errs, stalls or overruns the scan ceiling.
Scrape(t) ==
  /\ call[t] = "scrape"
  /\ \/ /\ engine.up
        /\ lookup' = [lookup EXCEPT ![t] = [tag |-> "Known", info |-> engine.kind = "vllm"]]
        /\ Go(t, "write")
     \/ Go(t, "warn") /\ UNCHANGED lookup
  /\ UNCHANGED <<instant, engine, kv_info, returned, kv_warned, warnings, racers>>

\* warn_kv_scrape_failed_once, then the stamp of the failure.
WarnAndStamp(t) ==
  /\ call[t] = "warn"
  /\ warnings' = IF kv_warned THEN warnings ELSE warnings + 1
  /\ kv_warned' = TRUE
  /\ lookup' = [lookup EXCEPT ![t] = [tag |-> "Failed", at |-> instant]]
  /\ Go(t, "write")
  /\ UNCHANGED <<instant, engine, kv_info, returned, racers>>

\* cache.write().await.insert(...), whatever is there by now.
Write(t) ==
  /\ call[t] = "write"
  /\ kv_info' = lookup[t]
  /\ lookup' = [lookup EXCEPT ![t] = None]
  /\ Return(t, lookup[t]) /\ Go(t, "done")
  /\ racers' = IF Known(kv_info') /\ ~Known(kv_info) THEN Scraping \ {t} ELSE racers
  /\ UNCHANGED <<instant, engine, kv_warned, warnings>>

Boot ==
  /\ ~engine.up
  /\ engine' = [engine EXCEPT !.up = TRUE]
  /\ UNCHANGED <<instant, kv_info, call, lookup, returned, kv_warned, warnings, racers>>

Tick ==
  /\ instant < MaxClock
  /\ instant' = instant + 1
  /\ UNCHANGED <<engine, kv_info, call, lookup, returned, kv_warned, warnings, racers>>

Task(t) == Check(t) \/ Scrape(t) \/ WarnAndStamp(t) \/ Write(t)

Next == (\E t \in Tasks : Task(t)) \/ Boot \/ Tick

Spec == Init /\ [][Next]_vars

---------------------------------------------------------------------------
TypeOK ==
  /\ instant \in 0 .. MaxClock
  /\ engine \in [kind : {"vllm", "llamacpp"}, up : BOOLEAN]
  /\ kv_info \in {None} \cup Answer \cup Failure
  /\ call \in [Tasks -> {"idle", "scrape", "warn", "write", "done"}]
  /\ lookup \in [Tasks -> {None} \cup Answer \cup Failure]
  /\ returned \in [Tasks -> {"pending", "info", "nothing"}]
  /\ kv_warned \in BOOLEAN /\ warnings = (IF kv_warned THEN 1 ELSE 0)
  /\ racers \subseteq Tasks

\* The permanent answer outlives every later failure: it is overwritten only by
\* a scrape that was already under way when it was installed, and then with a
\* failure that expires.
AnswerLostOnlyToRacer ==
  Known(kv_info) /\ kv_info' # kv_info =>
    \E t \in racers : call[t] = "write" /\ call'[t] = "done" /\ kv_info' \in Failure
===========================================================================
