---------------------------- MODULE MCProcesses ----------------------------
(***************************************************************************)
(* The programs and tasks whose steps are interleaved with what users,     *)
(* clients and servers do, each on its own: the shutdown of the proxy, a   *)
(* pass-through stream with its observer, the ask_jev tool and the         *)
(* /stop-all-jobs command of opencode, and model-holder.  They share no    *)
(* state; which one runs is chosen in the initial state.                   *)
(***************************************************************************)
EXTENDS Integers, Sequences

CONSTANTS
  Parts,                              \* the programs to check
  None,
  Conns, MaxRequests,                 \* shutdown
  Calls, ToolWorkers, Routed, MaxLoad, MaxAborts,    \* ask_jev
  Sessions, Children, Invoking, Passes, MaxSpawns, MaxErrors,  \* stop-all-jobs
  HeldFiles, LockThreads, PageSizes, MaxKeys, MaxFilter,  \* model-holder
  MaxChunks                           \* pass-through stream

\* Two servers; one call has a file of two chunks, the other a file that was cut.
Order == <<"s1", "s2">>
ChunksOf == [c \in Calls |-> IF c \in Routed THEN <<1>> ELSE <<2>>]
Cut == [c \in Calls |-> IF c \in Routed THEN {1} ELSE {}]

\* A parent with its subagents.
Parent == [s \in Sessions |-> IF s \in Children THEN CHOOSE p \in Sessions \ Children : p # Invoking ELSE None]

\* The files, which differ in size; one of the names has an a in it, the others a q.
Size == [p \in HeldFiles |-> p]
Name == [p \in HeldFiles |-> IF p = 1 THEN <<"a">> ELSE <<"q">>]

VARIABLES
  part,
  server, listening, draining, conns, pc, told, served, exporting, queue, accepted, refused,
  turns, down, phase, aborted, at, pending, task, asker, launched, parts, unfinished, gave_up, failures,
  running, marked, jobs, notices, spawned, command, current, todo, stopped, notHere, errors, passes, busy, report,
  mode, faults, paths, worker, next, mapped, threads, pinned, locked, failed, should_exit, ui, app, procs, keys, printed,
  source, chunks, ready, tail, pos, block, error, signaled, acc, chan, activity, quiet, obs, reason, copied,
  sent, terminal, cause

shutdownVars == <<server, listening, draining, conns, pc, told, served, exporting, queue, accepted, refused>>
jevVars == <<turns, down, phase, aborted, at, pending, task, asker, launched, parts, unfinished, gave_up, failures>>
stopVars == <<running, marked, jobs, notices, spawned, command, current, todo, stopped, notHere, errors, passes,
              busy, report>>
holderVars == <<mode, faults, paths, worker, next, mapped, threads, pinned, locked, failed, should_exit, ui, app, procs,
                keys, printed>>
streamVars == <<source, chunks, ready, tail, pos, block, error, signaled, acc, chan, activity, quiet, obs, reason,
                copied, sent, terminal, cause>>

Shutdown == INSTANCE GracefulShutdown
Jev == INSTANCE AskJev
Stop == INSTANCE StopJobs
Holder == INSTANCE ModelHolder
Stream == INSTANCE StreamPass

Init ==
  /\ part \in Parts
  /\ Shutdown!Init /\ Jev!Init /\ Stream!Init
  /\ Stop!Init /\ (part # "stop" => marked = {})
  /\ Holder!Init /\ (part # "holder" => Holder!Tui /\ mode.no_warmup /\ mode.no_mlock /\ mode.lock_threads = 0
                                        /\ \A p \in Holder!Files : faults[p] = "none")

Next ==
  /\ \/ part = "shutdown" /\ Shutdown!Next /\ UNCHANGED <<jevVars, stopVars, holderVars, streamVars>>
     \/ part = "jev" /\ Jev!Next /\ UNCHANGED <<shutdownVars, stopVars, holderVars, streamVars>>
     \/ part = "stop" /\ Stop!Next /\ UNCHANGED <<shutdownVars, jevVars, holderVars, streamVars>>
     \/ part = "holder" /\ Holder!Next /\ UNCHANGED <<shutdownVars, jevVars, stopVars, streamVars>>
     \/ part = "stream" /\ Stream!Next /\ UNCHANGED <<shutdownVars, jevVars, stopVars, holderVars>>
  /\ UNCHANGED part

vars == <<part, shutdownVars, jevVars, stopVars, holderVars, streamVars>>

\* The serve loop is scheduled, its timers fire and the connection tasks are
\* polled; nothing is assumed of clients, backends or the signal.
ShutdownFairness ==
  /\ WF_shutdownVars(part = "shutdown" /\ Shutdown!Serve)
  /\ \A c \in Conns : WF_shutdownVars(part = "shutdown" /\ Shutdown!Drained(c))

\* The event loop is never idle while a callback is ready, and every request has a
\* timeout; nothing is assumed of the servers' answers or of the user.
JevFairness == WF_jevVars(part = "jev" /\ Jev!Callbacks)

\* The threads are scheduled and mlock returns; nothing is assumed of the keys.
HolderFairness == WF_holderVars(part = "holder" /\ Holder!Threads)

\* The observer is a task of its own and the connection drops a body that has ended;
\* nothing is assumed of the backend, the client or the inactivity timer.
StreamFairness ==
  /\ WF_streamVars(part = "stream" /\ Stream!Observe)
  /\ WF_streamVars(part = "stream" /\ Stream!DropBody)

Spec == Init /\ [][Next]_vars
FairSpec == Spec /\ ShutdownFairness /\ JevFairness /\ HolderFairness /\ StreamFairness

---------------------------------------------------------------------------
\* The properties are those of the modules, each about its own part.

\* server.rs: while a handler runs the exporter is open, and a request in flight at the
\* signal ends with its response, by its client or because the grace ran out.
ShutdownIsClean == [][Shutdown!ExporterOpenForHandlers' /\ Shutdown!InFlightCompletes]_vars

\* streaming.rs: the end class is what happened, and the analysis sees the completion.
ObserverTellsTheTruth == Stream!ObserverTellsTheTruth

\* streaming.rs: the client gets everything the backend sent, and no spurious abort.
EverythingDelivered == Stream!EverythingDelivered

\* jev.ts: a server answers one ask_jev request at a time, no chunk is judged twice or
\* lost, and a verdict admits the gaps it has.
AskJevIsHonest == Jev!AskJevIsHonest

\* jev.ts: a chunk is given up only if every server has failed the call.
OtherServerTakesOver == Jev!OtherServerTakesOver

\* stop-jobs.ts: what still runs or is marked is in the report.
NothingOmitted == [][Stop!NothingOmitted]_vars

\* stop-jobs.ts: the sessions called stale do not run.
StaleIsNotRunning == [][Stop!StaleIsNotRunning]_vars

\* main.rs, terminal.rs: what is shown and printed is so.
HolderTellsTheTruth == Holder!HolderTellsTheTruth

\* server.rs, jev.ts, model-holder: the proxy ends after the signal, an ask_jev call ends
\* whichever calls are interrupted, model-holder ends once the user has quit, and the
\* observer of a stream ends with the body.
EverythingEnds == Shutdown!SignalEndsProcess /\ Jev!CallsEnd /\ Holder!QuitEnds /\ Stream!ObserverFinishes
===========================================================================
