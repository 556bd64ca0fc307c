------------------------------- MODULE AskJev -------------------------------
(***************************************************************************)
(* The ask_jev tool of opencode's jev plugin (plugins/jev.ts): calls that  *)
(* cut files into chunks and send them to the decision servers, one worker *)
(* per server in share mode, one at a time with the others on standby in   *)
(* split mode, and one request at a time per server over all calls.        *)
(*                                                                         *)
(* JavaScript runs one callback at a time; a step below is what runs       *)
(* between two awaits.  What the answers say is left to JevAnswers.        *)
(***************************************************************************)
EXTENDS Integers, FiniteSetsExt, SequencesExt

CONSTANTS
  Calls,         \* the ask_jev calls
  Order,         \* ROUTES.tools, the servers in order of preference
  ToolWorkers,   \* ROUTES.toolWorkers: as many as servers (share) or one (split)
  ChunksOf,      \* for a call, the number of chunks of each of its files
  Cut,           \* for a call, its files that the budget cut
  Routed,        \* the calls the router looks at; the others are forced
  None,
  MaxLoad,       \* bound of the model: calls started and requests that fail, together
  MaxAborts      \* bound of the model: calls the user interrupts

Servers == Range(Order)

VARIABLES
  turns,      \* server -> the promises chained on its queue, oldest first
  down,       \* server -> it is cooling down
  phase,      \* call -> where it is
  aborted,    \* call -> its signal is aborted
  at,         \* call -> the place in Order of the router's request
  pending,    \* call -> the chunks no worker has taken
  task,       \* call -> server -> what it is asked
  asker,      \* call -> server -> its worker: "off", "idle", "asking" or "stopped"
  launched,   \* call -> the workers started so far
  parts,      \* call -> the chunks answered
  unfinished, \* call -> the chunks given up
  gave_up,    \* call -> the servers whose worker failed
  failures    \* the requests that failed so far

jevVars == <<turns, down, phase, aborted, at, pending, task, asker, launched, parts, unfinished, gave_up, failures>>

Chunk(f, k) == [file |-> f, chunk |-> k, tries |-> 0]
Tasks(c) == FlattenSeq([f \in 1 .. Len(ChunksOf[c]) |-> [k \in 1 .. ChunksOf[c][f] |-> Chunk(f, k)]])
Room == Cardinality({c \in Calls : phase[c] # "new"}) + failures < MaxLoad
RouteQuestion == [file |-> 0, chunk |-> 0, tries |-> 0]

Init ==
  /\ turns = [s \in Servers |-> <<>>] /\ down = [s \in Servers |-> FALSE]
  /\ phase = [c \in Calls |-> "new"] /\ aborted = [c \in Calls |-> FALSE]
  /\ at = [c \in Calls |-> 1] /\ pending = [c \in Calls |-> Tasks(c)]
  /\ task = [c \in Calls |-> [s \in Servers |-> None]]
  /\ asker = [c \in Calls |-> [s \in Servers |-> "off"]]
  /\ launched = [c \in Calls |-> 0] /\ parts = [c \in Calls |-> <<>>]
  /\ unfinished = [c \in Calls |-> 0] /\ gave_up = [c \in Calls |-> {}] /\ failures = 0

---------------------------------------------------------------------------
\* toolTurn: a request waits for the promise before its own.

Join(queue, c) == Append(queue, [call |-> c, state |-> "waiting"])

\* The settled promises at the front are forgotten.
Trim(queue) ==
  LET unsettled == {i \in DOMAIN queue : queue[i].state # "settled"}
  IN  IF unsettled = {} THEN <<>> ELSE SubSeq(queue, Min(unsettled), Len(queue))

Mark(queue, i, state) == Trim([queue EXCEPT ![i].state = state])

TurnCame(queue, i) == IF i = 1 THEN TRUE ELSE queue[i - 1].state = "settled"

Place(s, c) == CHOOSE i \in DOMAIN turns[s] : turns[s][i].call = c /\ turns[s][i].state \in {"waiting", "sending"}

\* Mutant: an aborted waiter hands its turn on at once.
HandOn_bug(s, i) ==
  /\ i \in DOMAIN turns[s] /\ turns[s][i].state = "left"
  /\ turns' = [turns EXCEPT ![s] = Mark(@, i, "settled")]
  /\ UNCHANGED <<down, phase, aborted, at, pending, task, asker, launched, parts, unfinished, gave_up, failures>>

\* An aborted waiter hands its turn on once it would have had it.
HandOn(s, i) ==
  /\ i \in DOMAIN turns[s] /\ turns[s][i].state = "left" /\ TurnCame(turns[s], i)
  /\ turns' = [turns EXCEPT ![s] = Mark(@, i, "settled")]
  /\ UNCHANGED <<down, phase, aborted, at, pending, task, asker, launched, parts, unfinished, gave_up, failures>>

\* The turn comes; a server that is cooling down is not asked.
Send(s, i) ==
  /\ i \in DOMAIN turns[s] /\ turns[s][i].state = "waiting" /\ TurnCame(turns[s], i)
  /\ turns' = [turns EXCEPT ![s] = Mark(@, i, "sending")]
  /\ UNCHANGED <<down, phase, aborted, at, pending, task, asker, launched, parts, unfinished, gave_up, failures>>

---------------------------------------------------------------------------
\* A call: the router's question, then the workers.

Ask(c, s, t) ==
  /\ turns' = [turns EXCEPT ![s] = Join(@, c)]
  /\ task' = [task EXCEPT ![c][s] = t]

\* routeQuestion asks on the tool lane, unless the call is forced.
Start(c) ==
  /\ phase[c] = "new" /\ Room
  /\ IF c \in Routed
     THEN phase' = [phase EXCEPT ![c] = "route"] /\ Ask(c, Order[1], RouteQuestion)
     ELSE phase' = [phase EXCEPT ![c] = "prepared"] /\ UNCHANGED <<turns, task>>
  /\ UNCHANGED <<down, aborted, at, pending, asker, launched, parts, unfinished, gave_up, failures>>

\* The workers of the servers that start at once.
Launch(c) ==
  /\ phase[c] = "prepared"
  /\ LET n == Min({ToolWorkers, Len(Order)})
     IN  /\ launched' = [launched EXCEPT ![c] = n]
         /\ asker' = [asker EXCEPT ![c] = [s \in Servers |-> IF \E i \in 1 .. n : Order[i] = s THEN "idle" ELSE "off"]]
  /\ phase' = [phase EXCEPT ![c] = "send"]
  /\ UNCHANGED <<turns, down, aborted, at, pending, task, parts, unfinished, gave_up, failures>>

\* The head of a asker's loop.
Take(c, s) ==
  /\ asker[c][s] = "idle"
  /\ IF pending[c] # <<>> /\ ~aborted[c]
     THEN /\ Ask(c, s, Head(pending[c]))
          /\ pending' = [pending EXCEPT ![c] = Tail(@)]
          /\ asker' = [asker EXCEPT ![c][s] = "asking"]
     ELSE asker' = [asker EXCEPT ![c][s] = "stopped"] /\ UNCHANGED <<turns, task, pending>>
  /\ UNCHANGED <<down, phase, aborted, at, launched, parts, unfinished, gave_up, failures>>

\* The request of c on s is over: its turn is released.
Over(c, s) ==
  /\ turns[s] # <<>> /\ \E i \in DOMAIN turns[s] : turns[s][i] = [call |-> c, state |-> "sending"]
  /\ turns' = [turns EXCEPT ![s] = Mark(@, Place(s, c), "settled")]
  /\ task' = [task EXCEPT ![c][s] = None]

\* An answer.  The router's decides whether there is a scan.
Answer(c, s) ==
  /\ ~down[s] /\ Over(c, s)
  /\ IF phase[c] = "route"
     THEN /\ \E next \in {"prepared", "advised"} : phase' = [phase EXCEPT ![c] = IF aborted[c] THEN "aborted" ELSE next]
          /\ UNCHANGED <<parts, asker>>
     ELSE /\ parts' = [parts EXCEPT ![c] = IF aborted[c] THEN @ ELSE Append(@, task[c][s])]
          /\ asker' = [asker EXCEPT ![c][s] = IF aborted[c] THEN "stopped" ELSE "idle"]
          /\ UNCHANGED phase
  /\ UNCHANGED <<down, aborted, at, pending, launched, unfinished, gave_up, failures>>

\* What becomes of a chunk without an answer: once it goes back to the front.
PutBack(c, t) ==
  IF t.tries < 1
  THEN pending' = [pending EXCEPT ![c] = <<[t EXCEPT !.tries = @ + 1]>> \o @] /\ UNCHANGED unfinished
  ELSE unfinished' = [unfinished EXCEPT ![c] = @ + 1] /\ UNCHANGED pending

\* No answer: gave_up unasked while cooling down, unreachable (which starts the
\* cooldown), a timeout or a bad answer (which does not, on this lane), or aborted.
Fail(c, s, how) ==
  /\ CASE how = "skipped" -> down[s] /\ UNCHANGED <<down, failures>>
       [] how = "aborted" -> ~down[s] /\ aborted[c] /\ UNCHANGED <<down, failures>>
       [] OTHER -> /\ ~down[s] /\ ~aborted[c] /\ Room /\ failures' = failures + 1
                   /\ down' = [down EXCEPT ![s] = how = "unreachable"]
  /\ \E i \in DOMAIN turns[s] : turns[s][i] = [call |-> c, state |-> "sending"]
  /\ IF phase[c] = "route"
     THEN /\ IF aborted[c] THEN Over(c, s) /\ phase' = [phase EXCEPT ![c] = "aborted"] /\ UNCHANGED at
             ELSE IF how # "unusable" /\ at[c] < Len(Order)
             THEN LET r == Order[at[c] + 1]
                      released == [turns EXCEPT ![s] = Mark(@, Place(s, c), "settled")]
                  IN  /\ turns' = [released EXCEPT ![r] = Join(@, c)]
                      /\ task' = [task EXCEPT ![c] = [@ EXCEPT ![s] = None, ![r] = RouteQuestion]]
                      /\ at' = [at EXCEPT ![c] = @ + 1] /\ UNCHANGED phase
             ELSE Over(c, s) /\ phase' = [phase EXCEPT ![c] = "prepared"] /\ UNCHANGED at
          /\ UNCHANGED <<pending, asker, unfinished, gave_up>>
     ELSE /\ Over(c, s)
          /\ asker' = [asker EXCEPT ![c][s] = "stopped"]
          /\ IF aborted[c] THEN UNCHANGED <<pending, unfinished, gave_up>>
             ELSE PutBack(c, task[c][s]) /\ gave_up' = [gave_up EXCEPT ![c] = @ \cup {s}]
          /\ UNCHANGED <<phase, at>>
  /\ UNCHANGED <<aborted, launched, parts>>

\* Every worker has stopped: a standby takes over, or the verdicts are made.
Settle(c) ==
  /\ phase[c] = "send" /\ \A s \in Servers : asker[c][s] \in {"off", "stopped"}
  /\ IF pending[c] # <<>> /\ launched[c] < Len(Order) /\ ~aborted[c]
     THEN /\ launched' = [launched EXCEPT ![c] = @ + 1]
          /\ asker' = [asker EXCEPT ![c][Order[launched[c] + 1]] = "idle"]
          /\ UNCHANGED <<phase, unfinished>>
     ELSE /\ unfinished' = [unfinished EXCEPT ![c] = IF aborted[c] THEN @ ELSE @ + Len(pending[c])]
          /\ phase' = [phase EXCEPT ![c] = IF aborted[c] THEN "aborted"
                                           ELSE IF parts[c] = <<>> /\ unfinished'[c] > 0 THEN "failed" ELSE "done"]
          /\ UNCHANGED <<launched, asker>>
  /\ UNCHANGED <<turns, down, aborted, at, pending, task, parts, gave_up, failures>>

Ended(c) == phase[c] \in {"done", "failed", "aborted", "advised"}

\* The user interrupts a call: who waits for a turn leaves the queue.
Abort(c) ==
  /\ phase[c] # "new" /\ ~Ended(c) /\ ~aborted[c]
  /\ Cardinality({d \in Calls : aborted[d]}) < MaxAborts
  /\ aborted' = [aborted EXCEPT ![c] = TRUE]
  /\ LET waits(s) == \E i \in DOMAIN turns[s] : turns[s][i] = [call |-> c, state |-> "waiting"]
     IN  /\ turns' = [s \in Servers |-> IF waits(s) THEN [turns[s] EXCEPT ![Place(s, c)].state = "left"] ELSE turns[s]]
         /\ task' = [task EXCEPT ![c] = [s \in Servers |-> IF waits(s) THEN None ELSE @[s]]]
         /\ asker' = [asker EXCEPT ![c] = [s \in Servers |-> IF @[s] = "asking" /\ waits(s) THEN "stopped" ELSE @[s]]]
         /\ phase' = [phase EXCEPT ![c] = IF @ = "prepared" \/ (@ = "route" /\ \E s \in Servers : waits(s)) THEN "aborted" ELSE @]
  /\ UNCHANGED <<down, at, pending, launched, parts, unfinished, gave_up, failures>>

\* The hooks do not queue; any failure of theirs starts a cooldown.
HookFails(s) ==
  /\ ~down[s] /\ Room /\ \E c \in Calls : ~Ended(c)
  /\ failures' = failures + 1 /\ down' = [down EXCEPT ![s] = TRUE]
  /\ UNCHANGED <<turns, phase, aborted, at, pending, task, asker, launched, parts, unfinished, gave_up>>

\* The cooldown runs out.
CoolsOff(s) ==
  /\ down[s] /\ down' = [down EXCEPT ![s] = FALSE]
  /\ UNCHANGED <<turns, phase, aborted, at, pending, task, asker, launched, parts, unfinished, gave_up, failures>>

\* A request ends one way or another: fetch has a timeout.
Request(c, s) == Answer(c, s) \/ \E how \in {"skipped", "aborted", "unreachable", "unusable"} : Fail(c, s, how)

Queue(s) == \E i \in 1 .. Len(turns[s]) : Send(s, i) \/ HandOn(s, i)

\* What the event loop has to run.
Callbacks ==
  \/ \E c \in Calls : Launch(c) \/ Settle(c) \/ \E s \in Servers : Take(c, s) \/ Request(c, s)
  \/ \E s \in Servers : Queue(s)

Next ==
  \/ \E c \in Calls : Start(c) \/ Launch(c) \/ Settle(c) \/ Abort(c)
  \/ \E c \in Calls, s \in Servers : Take(c, s) \/ Request(c, s)
  \/ \E s \in Servers : Queue(s) \/ HookFails(s) \/ CoolsOff(s)

---------------------------------------------------------------------------
\* What the report says of a file: its parts, and whether it admits a gap.
Got(c, f) == Cardinality({i \in DOMAIN parts[c] : parts[c][i].file = f})
Verdict(c, f) ==
  IF Got(c, f) = 0 THEN "not checked"
  ELSE IF Got(c, f) < ChunksOf[c][f] THEN "partial: parts"
  ELSE IF f \in Cut[c] THEN "partial: lines" ELSE "whole"

\* "ask_jev requests go one at a time per server, across ALL ask_jev calls"
\* (jev.ts), also when a call that waits is interrupted.
OneAtATime ==
  \A s \in Servers : Cardinality({i \in DOMAIN turns[s] : turns[s][i].state = "sending"}) <= 1

\* jev.ts, askFiles: however workers fail and chunks go back, no chunk is judged
\* twice, none is lost, a verdict that does not say partial rests on every chunk of
\* the file, and an early stop is reported exactly if a chunk was given up.
VerdictsAdmitGaps ==
  \A c \in Calls :
    /\ \A i, j \in DOMAIN parts[c] :
         i # j => <<parts[c][i].file, parts[c][i].chunk>> # <<parts[c][j].file, parts[c][j].chunk>>
    /\ phase[c] \in {"done", "failed"} => unfinished[c] + Len(parts[c]) = Len(Tasks(c))
    /\ phase[c] = "done" => \A f \in DOMAIN ChunksOf[c] : ChunksOf[c][f] > 0 =>
         ((Verdict(c, f) = "whole") => {parts[c][i].chunk : i \in {i \in DOMAIN parts[c] : parts[c][i].file = f}} = 1 .. ChunksOf[c][f])

\* "An aborted waiter still hands its turn on, so the queue can't stall" (jev.ts):
\* a call that is started ends, whichever other calls are interrupted.
CallsEnd == <>[](\A c \in Calls : phase[c] # "new" => Ended(c))

\* "A worker that fails puts its chunk back once for another server and stops"
\* (jev.ts): a chunk is given up only if every server has failed the call.
OtherServerTakesOver ==
  \A c \in Calls : phase[c] \in {"done", "failed"} /\ gave_up[c] # Servers => unfinished[c] = 0

\* jev.ts: a server answers one ask_jev request at a time, no chunk is judged twice or
\* lost, and a verdict admits the gaps it has.
AskJevIsHonest == OneAtATime /\ VerdictsAdmitGaps

Spec == Init /\ [][Next]_jevVars
===========================================================================
