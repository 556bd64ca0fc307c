------------------------------ MODULE StopJobs ------------------------------
(***************************************************************************)
(* opencode's /stop-all-jobs command (plugins/stop-jobs.ts) against the    *)
(* sessions it stops.  The runtime of opencode is external: interrupting a *)
(* session ends its execution, the job of a background subagent completes  *)
(* some time after that, and the completion notice can wake the parent.    *)
(***************************************************************************)
EXTENDS Integers, FiniteSets

CONSTANTS
  Sessions,   \* the rows of session_v2
  Parent,     \* session -> its parent, or None
  Invoking,   \* the session the command is typed in, or None
  None,
  Passes,     \* PASSES
  MaxSpawns,  \* bound of the model: subagents started during the command
  MaxErrors   \* bound of the model: interrupts that throw

VARIABLES
  running,   \* the sessions this process executes
  marked,    \* session_v2.time_suspended is set
  jobs,      \* the subagents whose job row has status 'running'
  notices,   \* the parents a completion notice is on its way to
  spawned,   \* the subagents started so far
  command,   \* "new", "pass", "sleep" or "done"
  current,   \* the candidates of the last read
  todo,      \* the candidates this pass has not come to
  stopped, notHere, errors, passes, busy,
  report     \* what the command says at the end

runtimeVars == <<running, marked, jobs, notices, spawned>>
commandVars == <<command, current, todo, stopped, notHere, errors, passes, busy, report>>
stopVars == <<runtimeVars, commandVars>>

Subagents == {s \in Sessions : Parent[s] # None}

\* A crash leaves marks behind; a running session is marked while it runs.
Init ==
  /\ running \in SUBSET (Sessions \ {Invoking})
  /\ marked \in SUBSET (Sessions \ {Invoking}) /\ running \subseteq marked
  /\ jobs \in SUBSET (Subagents \cap marked) /\ Subagents \cap running \subseteq jobs
  /\ notices = {} /\ spawned = 0
  /\ command = "new" /\ current = {} /\ todo = {} /\ stopped = {} /\ notHere = {}
  /\ errors = 0 /\ passes = 0 /\ busy = FALSE /\ report = None

---------------------------------------------------------------------------
\* The runtime.

Halt(s) ==
  /\ running' = running \ {s} /\ marked' = marked \ {s}

\* A session reaches the end of its turn.
Finish(s) ==
  /\ s \in running /\ Halt(s)
  /\ UNCHANGED <<jobs, notices, spawned, commandVars>>

\* The job of a subagent that no longer runs completes, and tells the parent.
Complete(s) ==
  /\ s \in jobs \ marked
  /\ jobs' = jobs \ {s} /\ notices' = notices \cup {Parent[s]}
  /\ UNCHANGED <<running, marked, spawned, commandVars>>

\* The notice wakes its parent, or finds it running.
Wake(s) ==
  /\ s \in notices /\ notices' = notices \ {s}
  /\ running' = running \cup {s} /\ marked' = marked \cup {s}
  /\ UNCHANGED <<jobs, spawned, commandVars>>

\* A running session starts one more subagent.
Spawn(s) ==
  /\ s \in Subagents \ (marked \cup jobs) /\ Parent[s] \in running
  /\ command # "done" /\ spawned < MaxSpawns /\ spawned' = spawned + 1
  /\ running' = running \cup {s} /\ marked' = marked \cup {s} /\ jobs' = jobs \cup {s}
  /\ UNCHANGED <<notices, commandVars>>

---------------------------------------------------------------------------
\* The command.

\* readCandidates: the marked sessions and both ends of every running job.
readCandidates == (marked \cup jobs \cup {Parent[s] : s \in jobs}) \ {Invoking, None}

\* The head of the loop over passes: whom this pass interrupts.
Todo(found) == found \ notHere

Report(found, still) ==
  [stopped |-> stopped,
   stale |-> IF still THEN found \cap notHere ELSE found,
   leftover |-> IF still THEN found \ notHere ELSE {}]

Enter(found, still) ==
  IF passes < Passes /\ Todo(found) # {}
  THEN /\ command' = "pass" /\ todo' = Todo(found) /\ passes' = passes + 1 /\ busy' = FALSE
       /\ UNCHANGED report
  ELSE /\ command' = "done" /\ report' = Report(found, still) /\ UNCHANGED <<todo, passes, busy>>

\* stopAll begins, or only lists what it would stop.
Begin(dryRun) ==
  /\ command = "new" /\ current' = readCandidates
  /\ IF dryRun THEN command' = "done" /\ UNCHANGED <<todo, passes, busy, report>>
     ELSE Enter(readCandidates, FALSE)
  /\ UNCHANGED <<runtimeVars, stopped, notHere, errors>>

\* Subagents before the others.
Turn(s) == s \in todo /\ (s \in Subagents \/ todo \cap Subagents = {})

Leave(s) ==
  /\ todo' = todo \ {s}
  /\ command' = IF todo' = {} THEN "sleep" ELSE "pass"

\* ctx.session.interrupt: stopped, not running here, or an exception.
Interrupt(s) ==
  /\ command = "pass" /\ Turn(s) /\ Leave(s)
  /\ \/ /\ s \in running /\ Halt(s)
        /\ stopped' = stopped \cup {s} /\ busy' = TRUE
        /\ UNCHANGED <<notHere, errors>>
     \/ /\ \/ s \notin running /\ UNCHANGED errors
           \/ errors < MaxErrors /\ errors' = errors + 1
        /\ notHere' = IF s \in stopped THEN notHere ELSE notHere \cup {s}
        /\ UNCHANGED <<running, marked, stopped, busy>>
  /\ UNCHANGED <<jobs, notices, spawned, current, passes, report>>

\* Mutant: the last pass is not followed by another read.
SleepEnds_bug ==
  /\ command = "sleep" /\ notices = {} /\ jobs \subseteq marked
  /\ current' = readCandidates
  /\ IF busy THEN Enter(readCandidates, TRUE)
     ELSE command' = "done" /\ report' = Report(current, FALSE) /\ UNCHANGED <<todo, passes, busy>>
  /\ UNCHANGED <<runtimeVars, stopped, notHere, errors>>

\* The gap between two passes is over: the notices of this one have arrived.
SleepEnds ==
  /\ command = "sleep" /\ notices = {} /\ jobs \subseteq marked
  /\ current' = readCandidates
  /\ IF busy THEN Enter(readCandidates, TRUE)
     ELSE command' = "done" /\ report' = Report(readCandidates, FALSE) /\ UNCHANGED <<todo, passes, busy>>
  /\ UNCHANGED <<runtimeVars, stopped, notHere, errors>>

Next ==
  \/ \E s \in Sessions : Finish(s) \/ Complete(s) \/ Wake(s) \/ Spawn(s) \/ Interrupt(s)
  \/ \E dryRun \in BOOLEAN : Begin(dryRun)
  \/ SleepEnds

---------------------------------------------------------------------------
\* "Whatever is still marked now would resume at the next start" (stop-jobs.ts):
\* however parents are woken and subagents started while it works, the command
\* ends with every other session that runs or is marked in its report.
NothingOmitted ==
  command # "done" /\ report' # None =>
    (running' \cup marked') \ {Invoking} \subseteq report'.stale \cup report'.leftover

\* "Still marked but not running in this OpenCode process" (stop-jobs.ts): the
\* sessions called stale do not run.
StaleIsNotRunning ==
  command # "done" /\ report' # None => report'.stale \cap running' = {}

Spec == Init /\ [][Next]_stopVars
===========================================================================
