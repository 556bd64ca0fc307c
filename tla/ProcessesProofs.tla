--------------------------- MODULE ProcessesProofs ---------------------------
(***************************************************************************)
(* Proofs about the programs of MCProcesses, as the specification that TLC *)
(* checks composes them: the shutdown of the proxy for any number of       *)
(* connections, /stop-all-jobs for any sessions, a pass-through stream of  *)
(* any length, model-holder for any files, and, from the theorem of        *)
(* AskJevProofs, ask_jev.  No part disturbs another: a step of the         *)
(* composition is a step of one part and leaves the variables of the       *)
(* others alone.                                                           *)
(***************************************************************************)
EXTENDS MCProcesses, FiniteSetTheorems, SequenceTheorems, TLAPS

Asks == INSTANCE AskJevProofs

---------------------------------------------------------------------------
(* GracefulShutdown.                                                       *)

ShutdownTypes ==
  /\ server \in {"accepting", "draining", "drained", "closing", "exited"}
  /\ pc \in [Conns -> {"new", "idle", "busy", "finished", "aborted"}]
  /\ served \in [Conns -> Nat]
  /\ conns \subseteq Conns

\* The JoinSet holds every connection that is open, it is empty once the drain is
\* over, and the exporters are closed only after that.
DrainOrder ==
  /\ \A c \in Conns : pc[c] \in {"idle", "busy"} => c \in conns
  /\ conns # {} => server \in {"accepting", "draining"}
  /\ server \in {"accepting", "draining", "drained"} => queue = "open"

ShutdownInv == ShutdownTypes /\ DrainOrder

---------------------------------------------------------------------------
\* The serve loop starts with ShutdownInv: no connection, an empty JoinSet.
LEMMA ShutdownInitially == Shutdown!Init => ShutdownInv
BY DEF Shutdown!Init, ShutdownInv, ShutdownTypes, DrainOrder

\* A step of one connection that keeps the JoinSet, the server and the queue.
LEMMA ConnectionStep ==
  ASSUME ShutdownInv, NEW c \in Conns, NEW label \in {"idle", "busy", "finished"},
         pc[c] \in {"idle", "busy"}, Shutdown!Go(c, label),
         served' \in [Conns -> Nat], UNCHANGED <<server, conns, queue>>
  PROVE  ShutdownInv'
<1>1. ShutdownTypes'
  BY DEF ShutdownInv, ShutdownTypes, Shutdown!Go
<1>2. DrainOrder'
  BY DEF ShutdownInv, ShutdownTypes, DrainOrder, Shutdown!Go
<1> QED
  BY <1>1, <1>2 DEF ShutdownInv

\* Accept, respond, close and the export of one connection preserve ShutdownInv.
LEMMA ClientStep ==
  ASSUME ShutdownInv, NEW c \in Conns, Shutdown!Client(c) \/ Shutdown!Drained(c) \/ Shutdown!Export(c)
  PROVE  ShutdownInv'
<1>1. CASE Shutdown!Accept(c)
  <2>1. ShutdownTypes'
    BY <1>1 DEF Shutdown!Accept, Shutdown!Go, ShutdownInv, ShutdownTypes
  <2>2. DrainOrder'
    BY <1>1 DEF Shutdown!Accept, Shutdown!Go, ShutdownInv, ShutdownTypes, DrainOrder, Shutdown!sampleVars
  <2> QED
    BY <2>1, <2>2 DEF ShutdownInv
<1>2. CASE Shutdown!Request(c)
  BY <1>2, ConnectionStep DEF Shutdown!Request, Shutdown!sampleVars, ShutdownInv, ShutdownTypes
<1>3. CASE Shutdown!Respond(c)
  <2>1. served' \in [Conns -> Nat]
    BY <1>3 DEF Shutdown!Respond, ShutdownInv, ShutdownTypes
  <2> QED
    BY <1>3, <2>1, ConnectionStep DEF Shutdown!Respond, Shutdown!sampleVars
<1>4. CASE Shutdown!HangUp(c)
  BY <1>4, ConnectionStep DEF Shutdown!HangUp, Shutdown!sampleVars, ShutdownInv, ShutdownTypes
<1>5. CASE Shutdown!Drained(c)
  BY <1>5, ConnectionStep DEF Shutdown!Drained, Shutdown!sampleVars, ShutdownInv, ShutdownTypes
<1>6. CASE Shutdown!Export(c)
  BY <1>6 DEF Shutdown!Export, Shutdown!connVars, ShutdownInv, ShutdownTypes, DrainOrder
<1> QED
  BY <1>1, <1>2, <1>3, <1>4, <1>5, <1>6 DEF Shutdown!Client

\* Reaping, the signal, the drain and the close of the exporters preserve ShutdownInv.
LEMMA ServerStep ==
  ASSUME ShutdownInv, Shutdown!Serve \/ Shutdown!Signal
  PROVE  ShutdownInv'
<1>1. CASE Shutdown!Reap \/ Shutdown!JoinNext
  BY <1>1 DEF Shutdown!Reap, Shutdown!JoinNext, ShutdownInv, ShutdownTypes, DrainOrder, Shutdown!sampleVars
<1>2. CASE Shutdown!GraceExpires
  <2>1. ShutdownTypes'
    BY <1>2 DEF Shutdown!GraceExpires, ShutdownInv, ShutdownTypes
  <2>2. DrainOrder'
    BY <1>2 DEF Shutdown!GraceExpires, ShutdownInv, ShutdownTypes, DrainOrder, Shutdown!sampleVars
  <2> QED
    BY <2>1, <2>2 DEF ShutdownInv
<1>3. CASE Shutdown!CloseExporters
  BY <1>3 DEF Shutdown!CloseExporters, ShutdownInv, ShutdownTypes, DrainOrder, Shutdown!connVars
<1>4. CASE Shutdown!Exit
  BY <1>4 DEF Shutdown!Exit, ShutdownInv, ShutdownTypes, DrainOrder, Shutdown!connVars
<1>5. CASE Shutdown!Signal
  BY <1>5 DEF Shutdown!Signal, ShutdownInv, ShutdownTypes, DrainOrder, Shutdown!connVars, Shutdown!sampleVars
<1> QED
  BY <1>1, <1>2, <1>3, <1>4, <1>5 DEF Shutdown!Serve

\* ShutdownInv is inductive for the serve loop.
LEMMA ShutdownPreserved == ShutdownInv /\ [Shutdown!Next]_(Shutdown!vars) => ShutdownInv'
<1> SUFFICES ASSUME ShutdownInv, [Shutdown!Next]_(Shutdown!vars)
             PROVE  ShutdownInv'
  OBVIOUS
<1>1. CASE UNCHANGED Shutdown!vars
  BY <1>1 DEF Shutdown!vars, ShutdownInv, ShutdownTypes, DrainOrder
<1> QED
  BY <1>1, ClientStep, ServerStep DEF Shutdown!Next

\* A request in flight leaves "busy" by its response, its client or the deadline.
LEMMA InFlightStep ==
  ASSUME ShutdownInv, Shutdown!Next
  PROVE  Shutdown!InFlightCompletes
<1> SUFFICES ASSUME NEW c \in Conns, pc[c] = "busy", pc'[c] # "busy"
             PROVE  \/ served'[c] = served[c] + 1
                    \/ pc'[c] = "aborted" /\ server' = "drained"
                    \/ Shutdown!HangUp(c)
  BY DEF Shutdown!InFlightCompletes
<1>1. c \in conns
  BY DEF ShutdownInv, DrainOrder
<1>2. ASSUME NEW d \in Conns, Shutdown!Client(d) \/ Shutdown!Drained(d) \/ Shutdown!Export(d)
      PROVE  Shutdown!Respond(c) \/ Shutdown!HangUp(c)
  <2>1. CASE d # c
    BY <1>2, <2>1 DEF Shutdown!Client, Shutdown!Accept, Shutdown!Request, Shutdown!Respond, Shutdown!HangUp, Shutdown!Drained, Shutdown!Export, Shutdown!Go,
       Shutdown!connVars, ShutdownInv, ShutdownTypes
  <2>2. CASE d = c
    BY <1>2, <2>2 DEF Shutdown!Client, Shutdown!Accept, Shutdown!Request, Shutdown!Drained, Shutdown!Export, Shutdown!Go, Shutdown!connVars, ShutdownInv, ShutdownTypes
  <2> QED
    BY <2>1, <2>2
<1>3. ASSUME Shutdown!Respond(c)
      PROVE  served'[c] = served[c] + 1
  BY <1>3 DEF Shutdown!Respond, ShutdownInv, ShutdownTypes
<1>4. ASSUME Shutdown!Serve \/ Shutdown!Signal
      PROVE  pc'[c] = "aborted" /\ server' = "drained"
  BY <1>1, <1>4 DEF Shutdown!Serve, Shutdown!Reap, Shutdown!JoinNext, Shutdown!GraceExpires, Shutdown!CloseExporters, Shutdown!Exit, Shutdown!Signal, Shutdown!connVars
<1> QED
  BY <1>2, <1>3, <1>4 DEF Shutdown!Next

---------------------------------------------------------------------------
(* StopJobs.                                                               *)

\* Session rows have ids.
StopConstants == None \notin Sessions

\* What runs is marked, and the command reports once, when it is done.
StopInv ==
  /\ running \subseteq marked /\ marked \subseteq Sessions
  /\ command # "done" => report = None

\* Steps of the runtime and interrupts report nothing.
LEMMA RuntimeStep ==
  ASSUME StopInv, NEW s \in Sessions,
         Stop!Finish(s) \/ Stop!Complete(s) \/ Stop!Wake(s) \/ Stop!Spawn(s) \/ Stop!Interrupt(s)
  PROVE  StopInv' /\ Stop!NothingOmitted
<1>1. /\ report' = report /\ (command' # "done" => command # "done")
      /\ running' \subseteq marked' /\ marked' \subseteq Sessions
  BY DEF StopInv, Stop!Finish, Stop!Complete, Stop!Wake, Stop!Spawn, Stop!Interrupt, Stop!Halt,
     Stop!Leave, Stop!commandVars
<1> QED
  BY <1>1 DEF StopInv, Stop!NothingOmitted

\* A report is made of the candidates read in the same step.
LEMMA EnterStep ==
  ASSUME StopConstants, StopInv, command # "done", UNCHANGED <<running, marked>>, NEW still \in BOOLEAN,
         \/ Stop!Enter(Stop!readCandidates, still)
         \/ command' = "done" /\ report' = Stop!Report(Stop!readCandidates, still)
         \/ command' = "done" /\ report' = report
  PROVE  StopInv' /\ Stop!NothingOmitted
<1>1. CASE report' = report
  BY <1>1 DEF StopInv, Stop!NothingOmitted, Stop!Enter
<1>2. CASE command' = "done" /\ report' = Stop!Report(Stop!readCandidates, still)
  <2>1. marked \ {Invoking} \subseteq Stop!readCandidates
    BY DEF Stop!readCandidates, StopInv, StopConstants
  <2>2. report'.stale \cup report'.leftover = Stop!readCandidates
    BY <1>2 DEF Stop!Report
  <2> QED
    BY <1>2, <2>1, <2>2 DEF StopInv, Stop!NothingOmitted
<1> QED
  BY <1>1, <1>2 DEF Stop!Enter

---------------------------------------------------------------------------
(* The composition.                                                        *)

\* server.rs: shutdown_all runs behind the last handler, so that a handler that still
\* runs finds the exporter open; and from the signal on a request in flight ends with
\* its response or by its client, unless the grace has run out.
THEOREM ShutdownOrdered == Spec => ShutdownIsClean
<1> DEFINE Clean == Shutdown!ExporterOpenForHandlers' /\ Shutdown!InFlightCompletes
<1>1. Init => ShutdownInv
  BY ShutdownInitially DEF Init
<1>2. ShutdownInv /\ [Next]_vars => ShutdownInv' /\ [Clean]_vars
  <2> SUFFICES ASSUME ShutdownInv, [Next]_vars
               PROVE  ShutdownInv' /\ Clean
    OBVIOUS
  <2>1. Shutdown!Next \/ UNCHANGED Shutdown!vars
    BY DEF Next, vars, shutdownVars, Shutdown!vars
  <2>2. ShutdownInv'
    BY <2>1, ShutdownPreserved
  <2>3. Shutdown!ExporterOpenForHandlers'
    BY <2>2 DEF ShutdownInv, ShutdownTypes, DrainOrder, Shutdown!ExporterOpenForHandlers
  <2>4. Shutdown!InFlightCompletes
    BY <2>1, InFlightStep DEF Shutdown!InFlightCompletes, Shutdown!vars
  <2> QED
    BY <2>2, <2>3, <2>4
<1> QED
  BY <1>1, <1>2, PTL DEF Spec, ShutdownIsClean

\* stopAll: whatever is woken and spawned while the command works, every session that
\* runs or is marked when it ends, the one it was typed in apart, is in its report.
THEOREM ReportIsComplete ==
  ASSUME StopConstants
  PROVE  Spec => NothingOmitted
<1>1. Init => StopInv
  BY DEF Init, Stop!Init, StopInv
<1>2. StopInv /\ [Next]_vars => StopInv' /\ [Stop!NothingOmitted]_vars
  <2> SUFFICES ASSUME StopInv, [Next]_vars
               PROVE  StopInv' /\ Stop!NothingOmitted
    OBVIOUS
  <2>1. Stop!Next \/ UNCHANGED stopVars
    BY DEF Next, vars
  <2>2. CASE UNCHANGED stopVars
    BY <2>2 DEF StopInv, stopVars, Stop!NothingOmitted
  <2>3. ASSUME NEW dryRun \in BOOLEAN, Stop!Begin(dryRun)
        PROVE  StopInv' /\ Stop!NothingOmitted
    BY <2>3, EnterStep DEF Stop!Begin, Stop!runtimeVars
  <2>4. CASE Stop!SleepEnds
    BY <2>4, EnterStep DEF Stop!SleepEnds, Stop!runtimeVars
  <2> QED
    BY <2>1, <2>2, <2>3, <2>4, RuntimeStep DEF Stop!Next
<1> QED
  BY <1>1, <1>2, PTL DEF Spec, NothingOmitted

---------------------------------------------------------------------------
(* StreamPass.                                                             *)


StreamTypes ==
  /\ pos \in {"polling", "emitting", "over", "failed", "dropping", "dropped"}
  /\ block \in {"plain", "terminal"} /\ tail \in {"none", "plain", "terminal"}
  /\ acc \in Nat /\ copied \in Nat /\ sent \in Nat /\ terminal \in Nat
  /\ chan \in {"open", "taken", "closed", "Completed", "BackendClosed", "BackendError"}
  /\ obs \in {"waiting", "resolving", "copying", "analysing", "done"}
  /\ reason \in Stream!Reasons
  /\ cause \in {"none", "closed", "aborted", "finished", "client"}
  /\ signaled \in BOOLEAN /\ quiet \in BOOLEAN

\* The body: it ends once; completion_signaled is set with the first terminal event
\* handed on; what was handed on was accumulated before.
BodyInv ==
  /\ cause = "none" <=> pos \in {"polling", "emitting"}
  /\ cause \in {"closed", "aborted", "finished"} => ready = {} /\ tail = "none"
  /\ signaled <=> terminal > 0
  /\ cause = "aborted" => ~signaled
  /\ terminal <= sent
  /\ sent = (IF pos = "emitting" THEN acc - 1 ELSE acc)

\* What is true when an end reason is.
EndHolds(why) ==
  /\ why = "Completed" => terminal > 0
  /\ why = "BackendClosed" => cause = "closed" /\ terminal = 0
  /\ why = "BackendError" => cause = "aborted" /\ terminal = 0
  /\ why = "ClientGone" => cause = "client" /\ terminal = 0

\* The oneshot channel: a reason in it is true, a closed one means that the client
\* left, and it is open only while nothing has ended.
ChanInv ==
  /\ chan \in Stream!Reasons => EndHolds(chan)
  /\ chan = "closed" => EndHolds("ClientGone")
  /\ chan = "open" => ~signaled
  /\ chan = "open" /\ pos \notin {"polling", "emitting"} =>
       EndHolds("ClientGone") /\ pos = "failed"
  /\ chan # "open" /\ pos \in {"polling", "emitting"} => signaled
  /\ quiet => pos = "dropped"

\* The observer: before it has looked into the channel its reason may be wrong only
\* in ways resolve_end_reason repairs.
ObserverInv ==
  /\ obs = "waiting" => chan # "taken"
  /\ obs = "resolving" =>
       \/ chan = "taken" /\ reason # "Stalled" /\ EndHolds(reason)
       \/ reason = "ClientGone" /\ chan \in Stream!Reasons \cup {"closed"}
       \/ reason = "Stalled" /\ chan # "taken"
  /\ Stream!Classified => EndHolds(reason)
  /\ obs \in {"analysing", "done"} /\ reason = "Completed" => copied >= terminal

\* The inductive invariant.
StreamInv == StreamTypes /\ BodyInv /\ ChanInv /\ ObserverInv

---------------------------------------------------------------------------
(* The body's steps.                                                       *)

\* A stream starts with StreamInv: nothing received, nobody told of an end.
LEMMA StreamInitially == Stream!Init => StreamInv
<1> SUFFICES ASSUME Stream!Init
             PROVE  StreamInv
  OBVIOUS
<1>1. StreamTypes
  BY DEF Stream!Init, StreamTypes, Stream!Reasons
<1>2. BodyInv
  BY DEF Stream!Init, BodyInv
<1>3. ChanInv
  BY DEF Stream!Init, ChanInv, Stream!Reasons
<1>4. ObserverInv
  BY DEF Stream!Init, ObserverInv, Stream!Classified
<1> QED
  BY <1>1, <1>2, <1>3, <1>4 DEF StreamInv

\* A step of the body leaves the observer alone; what it must not do is put an untrue
\* reason in the channel, or make untrue the one the observer holds.
LEMMA BodyKeepsReasons ==
  ASSUME StreamInv, UNCHANGED Stream!observer,
         StreamTypes', BodyInv', ChanInv',
         terminal' = terminal \/ (terminal = 0 /\ cause = "none" /\ chan = "open"),
         cause' = cause \/ cause = "none",
         chan' = chan \/ (chan = "open" /\ chan' # "taken")
  PROVE  StreamInv'
<1>1. ASSUME NEW why \in Stream!Reasons, EndHolds(why), why # "Stalled",
             \/ chan # "open"
             \/ cause # "none"
      PROVE  EndHolds(why)'
  BY <1>1 DEF EndHolds, StreamInv, StreamTypes, BodyInv, ChanInv, Stream!Reasons
<1>2. ObserverInv'
  BY <1>1 DEF Stream!observer, StreamInv, StreamTypes, BodyInv, ChanInv, ObserverInv, Stream!Classified,
     EndHolds, Stream!Reasons
<1> QED
  BY <1>2 DEF StreamInv

\* Handing the next event to the client preserves StreamInv.
LEMMA DeliverStep ==
  ASSUME StreamInv, Stream!Deliver
  PROVE  StreamInv'
<1> USE DEF StreamInv, StreamTypes, BodyInv, ChanInv, Stream!Deliver, Stream!SignalEnd
<1>1. StreamTypes'
  BY DEF Stream!observer, Stream!Reasons
<1>a. signaled' <=> signaled \/ block = "terminal"
  OBVIOUS
<1>b. terminal' > 0 <=> terminal > 0 \/ block = "terminal"
  OBVIOUS
<1>2. BodyInv'
  <2>1. /\ cause' = cause /\ cause = "none" /\ pos' = "polling"
        /\ sent' = sent + 1 /\ acc' = acc /\ sent = acc - 1
    OBVIOUS
  <2>2. terminal' <= sent'
    OBVIOUS
  <2> QED
    BY <2>1, <2>2, <1>a, <1>b
<1>3. ChanInv'
  <2>1. pos' = "polling" /\ cause' = cause /\ quiet' = quiet /\ ~quiet /\ cause = "none"
    OBVIOUS
  <2>2. CASE block # "terminal"
    BY <1>a, <2>1, <2>2 DEF EndHolds, Stream!Reasons
  <2>3. CASE block = "terminal"
    <3>1. chan # "closed" /\ chan # "BackendClosed" /\ chan # "BackendError"
      BY DEF EndHolds, Stream!Reasons
    <3>2. chan' \in {"Completed", "taken"} /\ signaled' /\ terminal' > 0
      BY <1>a, <1>b, <2>3, <3>1
    <3> QED
      BY <2>1, <3>2 DEF EndHolds, Stream!Reasons
  <2> QED
    BY <2>2, <2>3
<1>4. UNCHANGED Stream!observer /\ cause' = cause
  OBVIOUS
<1>5. terminal' = terminal \/ (terminal = 0 /\ cause = "none" /\ chan = "open")
  OBVIOUS
<1>6. chan' = chan \/ (chan = "open" /\ chan' # "taken")
  OBVIOUS
<1> QED
  BY <1>1, <1>2, <1>3, <1>4, <1>5, <1>6, BodyKeepsReasons

\* Taking the complete events from the framer preserves StreamInv.
LEMMA TakeEventsStep ==
  ASSUME StreamInv, Stream!TakeEvents
  PROVE  StreamInv'
<1> USE DEF StreamInv, StreamTypes, BodyInv, ChanInv, Stream!TakeEvents, Stream!StartEmit, Stream!channels,
   Stream!history
<1>1. StreamTypes'
  BY DEF Stream!observer, Stream!Reasons
<1>2. BodyInv'
  OBVIOUS
<1>3. ChanInv'
  BY DEF EndHolds, Stream!Reasons
<1>4. UNCHANGED Stream!observer /\ terminal' = terminal
  OBVIOUS
<1>5. cause' = cause \/ cause = "none"
  OBVIOUS
<1>6. chan' = chan \/ (chan = "open" /\ chan' # "taken")
  OBVIOUS
<1> QED
  BY <1>1, <1>2, <1>3, <1>4, <1>5, <1>6, BodyKeepsReasons

\* Emitting what the framer held at the end of the input preserves StreamInv.
LEMMA EmitTailStep ==
  ASSUME StreamInv, Stream!EmitTail
  PROVE  StreamInv'
<1> USE DEF StreamInv, StreamTypes, BodyInv, ChanInv, Stream!EmitTail, Stream!StartEmit, Stream!channels,
   Stream!history
<1>1. StreamTypes'
  BY DEF Stream!observer, Stream!Reasons
<1>2. BodyInv'
  OBVIOUS
<1>3. ChanInv'
  BY DEF EndHolds, Stream!Reasons
<1>4. UNCHANGED Stream!observer /\ terminal' = terminal
  OBVIOUS
<1>5. cause' = cause \/ cause = "none"
  OBVIOUS
<1>6. chan' = chan \/ (chan = "open" /\ chan' # "taken")
  OBVIOUS
<1> QED
  BY <1>1, <1>2, <1>3, <1>4, <1>5, <1>6, BodyKeepsReasons

\* Ending the body on a read error, once the framer is drained, preserves StreamInv.
LEMMA DrainErrorStep ==
  ASSUME StreamInv, Stream!DrainError
  PROVE  StreamInv'
<1> USE DEF StreamInv, StreamTypes, BodyInv, ChanInv, Stream!DrainError, Stream!SignalEnd, Stream!channels,
   Stream!history
<1>1. StreamTypes'
  BY DEF Stream!observer, Stream!Reasons
<1>2. BodyInv'
  OBVIOUS
<1>3. ChanInv'
  BY DEF EndHolds, Stream!Reasons
<1>4. UNCHANGED Stream!observer /\ terminal' = terminal
  OBVIOUS
<1>5. cause' = cause \/ cause = "none"
  OBVIOUS
<1>6. chan' = chan \/ (chan = "open" /\ chan' # "taken")
  OBVIOUS
<1> QED
  BY <1>1, <1>2, <1>3, <1>4, <1>5, <1>6, BodyKeepsReasons

\* A chunk from the backend preserves StreamInv.
LEMMA ChunkStep ==
  ASSUME StreamInv, Stream!Chunk
  PROVE  StreamInv'
<1> USE DEF StreamInv, StreamTypes, BodyInv, ChanInv, Stream!Chunk, Stream!channels, Stream!history
<1>1. StreamTypes'
  BY DEF Stream!observer, Stream!Reasons
<1>2. BodyInv'
  OBVIOUS
<1>3. ChanInv'
  BY DEF EndHolds, Stream!Reasons
<1>4. UNCHANGED Stream!observer /\ terminal' = terminal
  OBVIOUS
<1>5. cause' = cause \/ cause = "none"
  OBVIOUS
<1>6. chan' = chan \/ (chan = "open" /\ chan' # "taken")
  OBVIOUS
<1> QED
  BY <1>1, <1>2, <1>3, <1>4, <1>5, <1>6, BodyKeepsReasons

\* A failing read preserves StreamInv.
LEMMA ReadErrorStep ==
  ASSUME StreamInv, Stream!ReadError
  PROVE  StreamInv'
<1> USE DEF StreamInv, StreamTypes, BodyInv, ChanInv, Stream!ReadError, Stream!channels, Stream!history
<1>1. StreamTypes'
  BY DEF Stream!observer, Stream!Reasons
<1>2. BodyInv'
  OBVIOUS
<1>3. ChanInv'
  BY DEF EndHolds, Stream!Reasons
<1>4. UNCHANGED Stream!observer /\ terminal' = terminal
  OBVIOUS
<1>5. cause' = cause \/ cause = "none"
  OBVIOUS
<1>6. chan' = chan \/ (chan = "open" /\ chan' # "taken")
  OBVIOUS
<1> QED
  BY <1>1, <1>2, <1>3, <1>4, <1>5, <1>6, BodyKeepsReasons

\* The end of the body preserves StreamInv.
LEMMA CloseStep ==
  ASSUME StreamInv, Stream!Close
  PROVE  StreamInv'
<1> USE DEF StreamInv, StreamTypes, BodyInv, ChanInv, Stream!Close, Stream!SignalEnd, Stream!channels,
   Stream!history
<1>1. StreamTypes'
  BY DEF Stream!observer, Stream!Reasons
<1>2. BodyInv'
  OBVIOUS
<1>3. ChanInv'
  BY DEF EndHolds, Stream!Reasons
<1>4. UNCHANGED Stream!observer /\ terminal' = terminal
  OBVIOUS
<1>5. cause' = cause \/ cause = "none"
  OBVIOUS
<1>6. chan' = chan \/ (chan = "open" /\ chan' # "taken")
  OBVIOUS
<1> QED
  BY <1>1, <1>2, <1>3, <1>4, <1>5, <1>6, BodyKeepsReasons

\* The departure of the client preserves StreamInv.
LEMMA ClientLeavesStep ==
  ASSUME StreamInv, Stream!ClientLeaves
  PROVE  StreamInv'
<1> USE DEF StreamInv, StreamTypes, BodyInv, ChanInv, Stream!ClientLeaves, Stream!channels, Stream!history
<1>1. StreamTypes'
  BY DEF Stream!observer, Stream!Reasons
<1>2. BodyInv'
  OBVIOUS
<1>3. ChanInv'
  BY DEF EndHolds, Stream!Reasons
<1>4. UNCHANGED Stream!observer /\ terminal' = terminal
  OBVIOUS
<1>5. cause' = cause \/ cause = "none"
  OBVIOUS
<1>6. chan' = chan \/ (chan = "open" /\ chan' # "taken")
  OBVIOUS
<1> QED
  BY <1>1, <1>2, <1>3, <1>4, <1>5, <1>6, BodyKeepsReasons

\* The drop of the body, which may send the last reason, preserves StreamInv.
LEMMA DropBodyStep ==
  ASSUME StreamInv, Stream!DropBody
  PROVE  StreamInv'
<1> USE DEF StreamInv, StreamTypes, BodyInv, ChanInv, Stream!DropBody, Stream!SignalEnd, Stream!channels,
   Stream!history
<1>1. StreamTypes'
  <2>1. /\ pos' \in {"dropping", "dropped"}
        /\ chan' \in {chan, "closed"}
        /\ quiet' \in {quiet, TRUE}
        /\ UNCHANGED <<block, tail, acc, copied, sent, terminal, obs, reason, cause, signaled>>
    BY DEF Stream!observer
  <2>2. signaled' \in BOOLEAN /\ quiet' \in BOOLEAN
    BY ONLY <2>1, StreamTypes, Zenon DEF StreamTypes
  <2>3. pos' \in {"dropping", "dropped"} /\ chan' \in {chan, "closed"}
        /\ UNCHANGED <<block, tail, acc, copied, sent, terminal, obs, reason, cause>>
    BY ONLY <2>1
  <2> QED
    BY ONLY <2>2, <2>3, StreamTypes DEF StreamTypes
<1>2. BodyInv'
  OBVIOUS
<1>3. ChanInv'
  BY DEF EndHolds, Stream!Reasons
<1>4. UNCHANGED Stream!observer /\ terminal' = terminal
  OBVIOUS
<1>5. cause' = cause \/ cause = "none"
  OBVIOUS
<1>6. chan' = chan \/ (chan = "open" /\ chan' # "taken")
  OBVIOUS
<1> QED
  BY <1>1, <1>2, <1>3, <1>4, <1>5, <1>6, BodyKeepsReasons

---------------------------------------------------------------------------
(* The observer's steps: the body's variables stay.                        *)

\* The observer that hears of an end preserves StreamInv.
LEMMA AwaitEndStep ==
  ASSUME StreamInv, Stream!AwaitEnd
  PROVE  StreamInv'
<1> USE DEF StreamInv, StreamTypes, BodyInv, ChanInv, Stream!AwaitEnd, Stream!Break, Stream!channels,
   Stream!history, Stream!bodyVars
<1>1. StreamTypes'
  BY DEF Stream!Reasons
<1>2. BodyInv'
  OBVIOUS
<1>3. ChanInv'
  BY DEF EndHolds, Stream!Reasons, ObserverInv
<1>4. ObserverInv'
  BY DEF EndHolds, Stream!Reasons, ObserverInv, Stream!Classified
<1> QED
  BY <1>1, <1>2, <1>3, <1>4

\* The observer's inactivity timer preserves StreamInv.
LEMMA TimeoutStep ==
  ASSUME StreamInv, Stream!Timeout
  PROVE  StreamInv'
<1> USE DEF StreamInv, StreamTypes, BodyInv, ChanInv, Stream!Timeout, Stream!Break, Stream!channels,
   Stream!history, Stream!bodyVars
<1>1. StreamTypes'
  BY DEF Stream!Reasons
<1>2. BodyInv'
  OBVIOUS
<1>3. ChanInv'
  BY DEF EndHolds, Stream!Reasons, ObserverInv
<1>4. ObserverInv'
  BY DEF EndHolds, Stream!Reasons, ObserverInv, Stream!Classified
<1> QED
  BY <1>1, <1>2, <1>3, <1>4

\* resolve_end_reason preserves StreamInv.
LEMMA ResolveStep ==
  ASSUME StreamInv, Stream!Resolve
  PROVE  StreamInv'
<1> USE DEF StreamInv, StreamTypes, BodyInv, ChanInv, Stream!Resolve, Stream!channels, Stream!history,
   Stream!bodyVars
<1>1. StreamTypes'
  BY DEF Stream!Reasons
<1>2. BodyInv'
  OBVIOUS
<1>3. ChanInv'
  BY DEF EndHolds, Stream!Reasons, ObserverInv
<1>4. ObserverInv'
  BY DEF EndHolds, Stream!Reasons, ObserverInv, Stream!Classified
<1> QED
  BY <1>1, <1>2, <1>3, <1>4

\* The copy of the accumulated bytes preserves StreamInv.
LEMMA CopyStep ==
  ASSUME StreamInv, Stream!Copy
  PROVE  StreamInv'
<1> USE DEF StreamInv, StreamTypes, BodyInv, ChanInv, Stream!Copy, Stream!channels, Stream!history,
   Stream!bodyVars
<1>1. StreamTypes'
  BY DEF Stream!Reasons
<1>2. BodyInv'
  OBVIOUS
<1>3. ChanInv'
  BY DEF EndHolds, Stream!Reasons, ObserverInv
<1>4. ObserverInv'
  BY DEF EndHolds, Stream!Reasons, ObserverInv, Stream!Classified
<1> QED
  BY <1>1, <1>2, <1>3, <1>4

\* The analysis of the copied bytes preserves StreamInv.
LEMMA AnalyseStep ==
  ASSUME StreamInv, Stream!Analyse
  PROVE  StreamInv'
<1> USE DEF StreamInv, StreamTypes, BodyInv, ChanInv, Stream!Analyse, Stream!channels, Stream!history,
   Stream!bodyVars
<1>1. StreamTypes'
  BY DEF Stream!Reasons
<1>2. BodyInv'
  OBVIOUS
<1>3. ChanInv'
  BY DEF EndHolds, Stream!Reasons, ObserverInv
<1>4. ObserverInv'
  BY DEF EndHolds, Stream!Reasons, ObserverInv, Stream!Classified
<1> QED
  BY <1>1, <1>2, <1>3, <1>4

\* StreamInv is inductive for the pass-through stream.
LEMMA StreamStep == StreamInv /\ [Stream!Next]_(Stream!vars) => StreamInv'
<1> SUFFICES ASSUME StreamInv, [Stream!Next]_(Stream!vars)
             PROVE  StreamInv'
  OBVIOUS
<1>1. CASE Stream!Body
  BY <1>1, DeliverStep, TakeEventsStep, EmitTailStep, DrainErrorStep, ChunkStep,
     ReadErrorStep, CloseStep, ClientLeavesStep, DropBodyStep DEF Stream!Body
<1>2. CASE Stream!Observe
  BY <1>2, AwaitEndStep, ResolveStep, CopyStep, AnalyseStep DEF Stream!Observe
<1>3. CASE Stream!Timeout
  BY <1>3, TimeoutStep
<1>4. CASE Stream!Done \/ UNCHANGED Stream!vars
  BY <1>4 DEF Stream!Done, Stream!vars, StreamInv, StreamTypes, BodyInv, ChanInv, ObserverInv, EndHolds,
     Stream!Classified
<1> QED
  BY <1>1, <1>2, <1>3, <1>4 DEF Stream!Next

\* StreamInv holds in every state of the composition of the processes.
LEMMA StreamInvariance == Spec => []StreamInv
<1>1. Init => StreamInv
  BY StreamInitially DEF Init
<1>2. [Next]_vars => [Stream!Next]_(Stream!vars)
  BY DEF Next, vars, streamVars, Stream!vars
<1> QED
  BY <1>1, <1>2, StreamStep, PTL DEF Spec

\* drain_error and advance_stream, for a stream of any number of chunks and events:
\* when the body ends on its own nothing the backend sent is left in the framer, and
\* a transfer is aborted only if its client was not handed the terminal event.
THEOREM StreamsAreDelivered == Spec => []EverythingDelivered
<1>1. StreamInv => EverythingDelivered
  BY DEF StreamInv, StreamTypes, BodyInv, EverythingDelivered, Stream!EverythingDelivered
<1> QED
  BY <1>1, StreamInvariance, PTL

\* await_end and resolve_end_reason, for every interleaving of the observer with the
\* body, its drop and the inactivity timer: the end class reported is what happened,
\* and the copy analysed for a completed stream holds its terminal event.
THEOREM StreamEndsAreTrue == Spec => []ObserverTellsTheTruth
<1>1. StreamInv => ObserverTellsTheTruth
  BY DEF StreamInv, StreamTypes, ObserverInv, EndHolds, ObserverTellsTheTruth, Stream!ObserverTellsTheTruth,
     Stream!EndIsTruth, Stream!AnalysisSeesCompletion, Stream!Classified
<1> QED
  BY <1>1, StreamInvariance, PTL

---------------------------------------------------------------------------
(* AskJev.                                                                 *)

\* The calls of the composition are those AskJevProofs is about.
LEMMA CallsRun == Spec => Asks!Spec
<1>1. Init => Asks!Init
  BY DEF Init, Jev!Servers, Jev!Chunk, Jev!Tasks, Jev!Init, Jev!Range, Jev!FlattenSeq, Asks!Servers,
     Asks!Chunk, Asks!Tasks, Asks!Init, Asks!Range, Asks!FlattenSeq
<1>2. [Next]_vars => [Jev!Next]_(Jev!jevVars)
  BY DEF Next, vars, jevVars, Jev!jevVars
<1>3. [Jev!Next]_(Jev!jevVars) => [Asks!Next]_(Asks!jevVars)
  BY DEF Jev!Servers, Jev!jevVars, Jev!Room, Jev!RouteQuestion, Jev!Join, Jev!Trim, Jev!Mark,
     Jev!TurnCame, Jev!Place, Jev!HandOn, Jev!Send, Jev!Ask, Jev!Start, Jev!Launch,
     Jev!Take, Jev!Over, Jev!Answer, Jev!PutBack, Jev!Fail, Jev!Settle, Jev!Ended,
     Jev!Abort, Jev!HookFails, Jev!CoolsOff, Jev!Request, Jev!Queue, Jev!Next, Jev!Range,
     Jev!FlattenSeq, Jev!Cardinality, Jev!Min, Asks!Servers, Asks!jevVars, Asks!Room,
     Asks!RouteQuestion, Asks!Join, Asks!Trim, Asks!Mark, Asks!TurnCame, Asks!Place,
     Asks!HandOn, Asks!Send, Asks!Ask, Asks!Start, Asks!Launch, Asks!Take, Asks!Over,
     Asks!Answer, Asks!PutBack, Asks!Fail, Asks!Settle, Asks!Ended, Asks!Abort,
     Asks!HookFails, Asks!CoolsOff, Asks!Request, Asks!Queue, Asks!Next, Asks!Range,
     Asks!FlattenSeq, Asks!Cardinality, Asks!Min
<1> QED
  BY <1>1, <1>2, <1>3, PTL DEF Spec, Asks!Spec

\* ask_jev of jev.ts: one request at a time per server, no chunk judged twice or lost, and
\* no verdict that hides a gap, for any number of concurrent calls.
THEOREM CallsAreHonest ==
  ASSUME ToolWorkers \in Nat
  PROVE  Spec => []AskJevIsHonest
<1>1. Asks!Constants
  <2>1. Order \in Seq({"s1", "s2"}) /\ Len(Order) = 2 /\ Order # <<>>
    BY DEF Order
  <2>2. Asks!Servers = {"s1", "s2"}
    BY <2>1 DEF Asks!Servers, Asks!Range, Order
  <2>3. ChunksOf \in [Calls -> Seq(Nat)]
    BY DEF ChunksOf
  <2> QED
    BY <2>1, <2>2, <2>3 DEF Asks!Constants
<1>2. Asks!AskJevIsHonest => AskJevIsHonest
  BY DEF AskJevIsHonest, Jev!Servers, Jev!Chunk, Jev!Tasks, Jev!Got, Jev!Verdict, Jev!OneAtATime,
     Jev!VerdictsAdmitGaps, Jev!AskJevIsHonest, Jev!Range, Jev!FlattenSeq, Jev!Cardinality,
     Asks!Servers, Asks!Chunk, Asks!Tasks, Asks!Got, Asks!Verdict, Asks!OneAtATime,
     Asks!VerdictsAdmitGaps, Asks!AskJevIsHonest, Asks!Range, Asks!FlattenSeq,
     Asks!Cardinality
<1>3. Asks!Spec => []Asks!AskJevIsHonest
  BY <1>1, Asks!AnswersAreHonest
<1> QED
  BY <1>2, <1>3, CallsRun, PTL

---------------------------------------------------------------------------
(* Increasing listings of finite sets.                                     *)

\* A set of counterexamples among the naturals has a least one.
LEMMA LeastNatural ==
  ASSUME NEW T, T \subseteq Nat, T # {}
  PROVE  \E x \in T : \A y \in T : x <= y
<1> DEFINE B == {0 .. x : x \in T}
           R == StrictSubsetOrdering(Nat)
<1>1. B \subseteq FiniteSubsetsOf(Nat)
  <2> SUFFICES ASSUME NEW x \in T  PROVE 0 .. x \in FiniteSubsetsOf(Nat)  OBVIOUS
  <2>1. 0 .. x \subseteq Nat /\ x \in Int /\ 0 \in Int  OBVIOUS
  <2>2. IsFiniteSet(0 .. x)  BY <2>1, FS_Interval
  <2> QED  BY <2>1, <2>2 DEF FiniteSubsetsOf
<1>2. B # {}  OBVIOUS
<1>3. IsWellFoundedOn(R, FiniteSubsetsOf(Nat))  BY FS_StrictSubsetOrderingWellFounded
<1>4. PICK b \in B : \A d \in B : ~ (<<d, b>> \in R)
  <2> HIDE DEF B, R
  <2> QED  BY <1>1, <1>2, <1>3, WFMin
<1>5. PICK x \in T : b = 0 .. x  OBVIOUS
<1>6. ASSUME NEW y \in T, y < x  PROVE FALSE
  <2>1. 0 .. y \subseteq Nat /\ 0 .. x \subseteq Nat  OBVIOUS
  <2>2. 0 .. y \subseteq 0 .. x /\ x \in 0 .. x /\ x \notin 0 .. y  BY <1>6
  <2>3. <<0 .. y, 0 .. x>> \in R  BY <2>1, <2>2 DEF StrictSubsetOrdering
  <2> QED  BY <1>4, <1>5, <2>3
<1> QED  BY <1>6

\* A function on 1 .. n whose values grow.
Increasing(t, n) == \A i, j \in 1 .. n : i < j => t[i] < t[j]

\* A finite set of integers can be listed in increasing order: a listing of all but
\* one element shows which element is the greatest, and a listing of the others goes
\* before it.
LEMMA IncreasingListing ==
  ASSUME NEW n \in Nat, NEW S, S \subseteq Int, IsFiniteSet(S), Cardinality(S) = n
  PROVE  \E t \in [1 .. n -> S] : Increasing(t, n)
<1> DEFINE Listed(T, k) == \E t \in [1 .. k -> T] : Increasing(t, k)
           Bad == {k \in Nat : \E T \in SUBSET S : Cardinality(T) = k /\ ~Listed(T, k)}
<1>0. SUFFICES ASSUME Bad # {}  PROVE FALSE
  <2>1. S \in SUBSET S
    OBVIOUS
  <2> QED
    BY <2>1
<1>1. PICK m \in Bad : \A k \in Bad : m <= k
  <2>1. Bad \subseteq Nat
    OBVIOUS
  <2> HIDE DEF Bad
  <2> QED
    BY <1>0, <2>1, LeastNatural
<1>2. PICK T \in SUBSET S : Cardinality(T) = m /\ ~Listed(T, m)
  BY <1>1
<1>3. IsFiniteSet(T) /\ m \in Nat /\ T \subseteq Int
  BY <1>1, <1>2, FS_Subset
<1>4. m # 0
  <2> SUFFICES ASSUME m = 0  PROVE FALSE
    OBVIOUS
  <2>1. <<>> \in [1 .. 0 -> T] /\ Increasing(<<>>, 0)
    BY DEF Increasing
  <2> QED
    BY <1>2, <2>1
<1>5. ASSUME NEW x \in T
      PROVE  Listed(T \ {x}, m - 1)
  <2>1. Cardinality(T \ {x}) = m - 1
    BY <1>2, <1>3, FS_RemoveElement
  <2>2. m - 1 \in Nat /\ m - 1 \notin Bad
    <3> HIDE DEF Bad
    <3> QED
      BY <1>1, <1>3, <1>4
  <2>3. T \ {x} \in SUBSET S
    BY <1>2
  <2> HIDE DEF Listed
  <2> QED
    BY <2>1, <2>2, <2>3
<1>6. PICK x \in T : TRUE
  <2>1. T # {}
    BY <1>2, <1>3, <1>4, FS_EmptySet
  <2> QED
    BY <2>1
<1>7. \E g \in T : \A y \in T \ {g} : y < g
  <2> HIDE DEF Bad
  <2>1. PICK t \in [1 .. (m - 1) -> T \ {x}] : Increasing(t, m - 1)
    BY <1>5, <1>6
  <2>2. \A y \in T \ {x} : \E i \in 1 .. (m - 1) : y = t[i]
    <3>1. t \in Injection(1 .. (m - 1), T \ {x})
      <4>1. \A i, j \in 1 .. (m - 1) : t[i] = t[j] => i = j
        <5> SUFFICES ASSUME NEW i \in 1 .. (m - 1), NEW j \in 1 .. (m - 1), t[i] = t[j], i < j
                     PROVE  FALSE
          BY <1>3, <1>4
        <5>1. t[i] \in Int /\ t[i] < t[j]
          BY <2>1 DEF Increasing
        <5> QED
          BY <5>1
      <4> QED
        BY <4>1, <2>1 DEF Injection, IsInjective
    <3>2. Cardinality(T \ {x}) = m - 1 /\ IsFiniteSet(T \ {x})
      BY <1>2, <1>3, FS_RemoveElement
    <3>3. Cardinality(1 .. (m - 1)) = m - 1
      BY <1>3, <1>4, FS_Interval
    <3>4. t \in Surjection(1 .. (m - 1), T \ {x})
      BY <3>1, <3>2, <3>3, FS_Injection
    <3> QED
      BY <3>4 DEF Surjection
  <2>3. CASE m = 1
    BY <2>2, <2>3, <1>6
  <2>4. CASE m # 1 /\ t[m - 1] < x
    <3>1. ASSUME NEW y \in T \ {x}
          PROVE  y < x
      <4>1. PICK i \in 1 .. (m - 1) : y = t[i]
        BY <2>2
      <4>2. y \in Int /\ x \in Int /\ m - 1 \in 1 .. (m - 1)
        BY <2>4, <1>3, <1>4, <1>6
      <4>3. t[m - 1] \in Int
        BY <2>1, <1>3, <4>2
      <4>4. i = m - 1 \/ y < t[m - 1]
        BY <2>1, <4>1, <4>2, <1>3 DEF Increasing
      <4> QED
        BY <2>4, <4>1, <4>2, <4>3, <4>4
    <3> QED
      BY <3>1, <1>6
  <2>5. CASE m # 1 /\ ~(t[m - 1] < x)
    <3>0. m - 1 \in 1 .. (m - 1)
      BY <2>5, <1>3, <1>4
    <3>1. t[m - 1] \in T \ {x}
      BY <2>1, <3>0
    <3>2. \A y \in T \ {t[m - 1]} : y < t[m - 1]
      <4>1. ASSUME NEW y \in T \ {x}, y # t[m - 1]  PROVE y < t[m - 1]
        BY <4>1, <2>1, <2>2, <2>5, <3>0, <1>3 DEF Increasing
      <4>2. x < t[m - 1]
        <5>1. t[m - 1] \in Int /\ x \in Int /\ x # t[m - 1]
          BY <3>1, <1>3, <1>6
        <5> QED
          BY <5>1, <2>5
      <4> QED
        BY <4>1, <4>2
    <3> QED
      BY <3>1, <3>2
  <2> QED
    BY <2>3, <2>4, <2>5
<1>8. PICK g \in T : \A y \in T \ {g} : y < g
  BY <1>7
<1>9. PICK t \in [1 .. (m - 1) -> T \ {g}] : Increasing(t, m - 1)
  BY <1>5, <1>8
<1> DEFINE u == [i \in 1 .. m |-> IF i = m THEN g ELSE t[i]]
<1>10. u \in [1 .. m -> T]
  BY <1>3, <1>8, <1>9
<1>11. Increasing(u, m)
  <2> SUFFICES ASSUME NEW i \in 1 .. m, NEW j \in 1 .. m, i < j
               PROVE  u[i] < u[j]
    BY DEF Increasing
  <2>1. i \in 1 .. (m - 1) /\ u[i] = t[i] /\ t[i] \in T \ {g}
    BY <1>3, <1>9
  <2>2. CASE j = m
    BY <2>1, <2>2, <1>8
  <2>3. CASE j # m
    BY <2>1, <2>3, <1>3, <1>9 DEF Increasing
  <2> QED
    BY <2>2, <2>3
<1> HIDE DEF u
<1> QED
  BY <1>2, <1>10, <1>11

---------------------------------------------------------------------------
(* ModelHolder.                                                            *)

\* The files are finitely many and none is empty; a number of threads is one.
HolderConstants == HeldFiles \subseteq Nat \ {0} /\ IsFiniteSet(HeldFiles) /\ LockThreads \subseteq Nat

\* The larger and the smaller of two integers.
LEMMA OfTwo ==
  ASSUME NEW a \in Int, NEW b \in Int
  PROVE  /\ Holder!Max({a, b}) = IF a >= b THEN a ELSE b
         /\ Holder!Min({a, b}) = IF a <= b THEN a ELSE b
<1> DEFINE P(x) == \A y \in {a, b} : x >= y
           Q(x) == \A y \in {a, b} : x <= y
<1>1. Holder!Max({a, b}) = CHOOSE x \in {a, b} : P(x)
  BY DEF Holder!Max
<1>2. Holder!Min({a, b}) = CHOOSE x \in {a, b} : Q(x)
  BY DEF Holder!Min
<1>3. (\E x \in {a, b} : P(x)) /\ (\E x \in {a, b} : Q(x))
  OBVIOUS
<1>4. P(CHOOSE x \in {a, b} : P(x)) /\ (CHOOSE x \in {a, b} : P(x)) \in {a, b}
  BY <1>3
<1>5. Q(CHOOSE x \in {a, b} : Q(x)) /\ (CHOOSE x \in {a, b} : Q(x)) \in {a, b}
  BY <1>3
<1>6. PICK u, v : u = Holder!Max({a, b}) /\ v = Holder!Min({a, b})
  OBVIOUS
<1>7. P(u) /\ u \in {a, b} /\ Q(v) /\ v \in {a, b}
  BY <1>1, <1>2, <1>4, <1>5, <1>6
<1>8. u = (IF a >= b THEN a ELSE b) /\ v = (IF a <= b THEN a ELSE b)
  BY <1>7
<1> QED
  BY <1>6, <1>8

\* The least index of a set of indices is one of them.
LEMMA LeastIsIn ==
  ASSUME NEW S, S \subseteq Nat, S # {}
  PROVE  Holder!Min(S) \in S
<1>1. \E x \in S : \A y \in S : x <= y
  BY LeastNatural
<1> QED
  BY <1>1 DEF Holder!Min

\* The bytes of files.
Octets(files) == UNION {{p} \X (1 .. p) : p \in files}

LEMMA BytesAreOctets ==
  ASSUME HolderConstants, NEW files, files \subseteq HeldFiles
  PROVE  /\ Holder!Bytes(files) = Cardinality(Octets(files))
         /\ IsFiniteSet(Octets(files)) /\ IsFiniteSet(files)
<1>1. ASSUME NEW p \in files PROVE Size[p] = p /\ p \in Nat \ {0}
  BY DEF Size, HolderConstants
<1>2. {{p} \X (1 .. Size[p]) : p \in files} = {{p} \X (1 .. p) : p \in files}
  BY <1>1
<1>3. Holder!Bytes(files) = Cardinality(Octets(files))
  BY <1>2 DEF Holder!Bytes, Octets, Holder!Cardinality, Cardinality, Holder!IsFiniteSet, IsFiniteSet
<1>4. IsFiniteSet(files)
  BY FS_Subset DEF HolderConstants
<1> DEFINE T == {{p} \X (1 .. p) : p \in files}
           f == [p \in files |-> {p} \X (1 .. p)]
<1>5. f \in Surjection(files, T)
  BY DEF Surjection
<1>6. IsFiniteSet(T)
  <2> HIDE DEF T, f
  <2> QED
    BY <1>4, <1>5, FS_Surjection
<1>7. ASSUME NEW t \in T PROVE IsFiniteSet(t)
  <2>1. PICK p \in files : t = {p} \X (1 .. p)
    OBVIOUS
  <2>2. p \in Int /\ 1 \in Int
    BY <1>1
  <2>3. IsFiniteSet(1 .. p) /\ IsFiniteSet({p})
    BY <2>2, FS_Interval, FS_Singleton
  <2> QED
    BY <2>1, <2>3, FS_Product
<1>8. IsFiniteSet(UNION T)
  <2> HIDE DEF T
  <2> QED
    BY <1>6, <1>7, FS_UNION
<1> QED
  BY <1>3, <1>4, <1>8 DEF Octets

\* Some of the files have as many bytes as all of them only if they are all of them.
LEMMA FewerFilesFewerBytes ==
  ASSUME HolderConstants, NEW some, NEW all, some \subseteq all, all \subseteq HeldFiles
  PROVE  /\ Holder!Bytes(some) \in Nat /\ Holder!Bytes(all) \in Nat
         /\ Holder!Bytes(some) = Holder!Bytes(all) <=> Cardinality(some) = Cardinality(all)
         /\ Holder!Bytes(some) = 0 <=> some = {}
<1>1. /\ Holder!Bytes(some) = Cardinality(Octets(some)) /\ Holder!Bytes(all) = Cardinality(Octets(all))
      /\ IsFiniteSet(Octets(some)) /\ IsFiniteSet(Octets(all)) /\ IsFiniteSet(some) /\ IsFiniteSet(all)
  BY BytesAreOctets
<1>2. ASSUME NEW p \in all PROVE <<p, 1>> \in Octets(all) /\ (<<p, 1>> \in Octets(some) => p \in some)
  <2>1. 1 \in 1 .. p
    BY DEF HolderConstants
  <2> QED
    BY <2>1 DEF Octets
<1>3. Octets(some) \subseteq Octets(all)
  BY DEF Octets
<1>4. Octets(some) = Octets(all) => some = all
  BY <1>2
<1>5. Cardinality(Octets(some)) = Cardinality(Octets(all)) => Octets(some) = Octets(all)
  BY <1>1, <1>3, FS_Subset
<1>6. Cardinality(some) = Cardinality(all) => some = all
  BY <1>1, FS_Subset
<1>7. Octets(some) = {} <=> some = {}
  <2>1. Octets({}) = {}
    BY DEF Octets
  <2>2. ASSUME NEW p \in some PROVE <<p, 1>> \in Octets(some)
    <3>1. 1 \in 1 .. p
      BY DEF HolderConstants
    <3> QED
      BY <3>1 DEF Octets
  <2> QED
    BY <2>1, <2>2
<1> QED
  BY <1>1, <1>4, <1>5, <1>6, <1>7, FS_CardinalityType, FS_EmptySet

\* A list without repetitions.
Distinct(s) == \A i, j \in 1 .. Len(s) : s[i] = s[j] => i = j

AppFields == {"stage", "warmup_complete", "all_locked", "failed_lock_files", "sort_by", "scroll_offset",
              "filter_input", "filter_mode", "show_help"}
StageNames == {"found", "mapped", "warming", "complete", "locking", "locked"}
Warm == {"complete", "locking", "locked"}

\* A state the UI can draw: a stage for each file, and an offset the filtered list has.
Drawn(a, files) ==
  /\ a = [x \in AppFields |-> a[x]]
  /\ a.stage \in [files -> StageNames]
  /\ a.warmup_complete \in BOOLEAN /\ a.all_locked \in BOOLEAN
  /\ a.scroll_offset \in Nat /\ a.scroll_offset <= Holder!MaxOffset(a)

AppTypes == Drawn(app, Holder!Set(paths))

Process == [regions : UNION {[1 .. n -> Holder!Regions] : n \in Nat}, access : {"ok", "denied", "gone"}]

HolderTypes ==
  /\ mode.command \in {"tui", "oneshot", "check"}
  /\ mode.command # "check" => mode.lock_threads \in Nat
  /\ worker \in {"find", "read"} => mode.command = "check"
  /\ worker \notin {"find", "read", "done"} => mode.command # "check"
  /\ next \in Nat \ {0}
  /\ should_exit \in BOOLEAN
  /\ procs \in [holder : Process, server : Process, read : SUBSET {"holder", "server"}]
  /\ worker = "find" => procs.read = {}
  /\ paths \in Seq(HeldFiles) /\ Distinct(paths)
  /\ mapped \in Seq(Holder!Set(paths)) /\ Distinct(mapped)

\* Only the UI thread of `tui` asks for the exit, and a panic of it does.
ExitInv ==
  /\ ~Holder!Tui => ui = "none"
  /\ ui = "none" => ~should_exit
  /\ ui = "panicked" => should_exit

\* The files up to the one before n.
Sofar(n) == {mapped[i] : i \in {k \in 1 .. Len(mapped) : k < n}}

\* The worker goes through the files in their order, each stage behind the one before.
WorkInv ==
  /\ worker \in {"expand", "find", "read"} => mapped = <<>>
  /\ worker = "map" => \A i \in 1 .. Len(mapped) : \E j \in 1 .. Len(paths) : j < next /\ mapped[i] = paths[j]
  /\ worker = "warm" => \A i \in 1 .. Len(mapped) : i < next => app.stage[mapped[i]] = "complete"
  /\ worker \in {"expand", "find", "read", "map", "warm"} => ~app.warmup_complete
  /\ app.warmup_complete => \A i \in 1 .. Len(mapped) : app.stage[mapped[i]] \in Warm

\* What mlock was asked for is in RAM or failed, chunk by chunk, and known to be so only
\* when every chunk was asked for.
LockInv ==
  /\ pinned \subseteq {p \in HeldFiles : faults[p] # "lock"} /\ failed \subseteq {p \in HeldFiles : faults[p] = "lock"}
  /\ locked \subseteq HeldFiles
  /\ threads # {} => worker = "locking"
  /\ worker # "done" => locked = pinned /\ \A p \in Holder!Set(paths) : app.stage[p] = "locked" => p \in pinned
  /\ worker \in {"expand", "find", "read", "map", "warm"} => pinned = {} /\ failed = {}
  /\ worker = "lock" => pinned \cup failed = Sofar(next)
  /\ worker = "locking" => pinned \cup failed \cup threads = Sofar(next + Holder!Concurrency)
  /\ worker \in {"locked", "join"} => pinned \cup failed \subseteq Holder!Set(mapped)
  /\ worker = "locked" /\ ~should_exit => pinned \cup failed = Holder!Set(mapped)
  /\ worker \notin {"join", "done"} => ~app.all_locked
  /\ app.failed_lock_files \subseteq failed
  /\ worker = "join" /\ app.all_locked => pinned = Holder!Set(mapped)

\* What a process has mapped, as far as it could be read.
Told(models, k) ==
  \/ DOMAIN models = {}
  \/ \A r \in Holder!Set(procs[k].regions) : r.inode \notin DOMAIN models =>
       \E q \in Holder!Set(procs[k].regions) : q.inode = r.inode /\ ~Holder!IsModelFile(q)

\* The lines printed were true, and still are.
PrintInv ==
  /\ printed # None /\ printed.line = "locked" =>
       /\ worker = "join" /\ ~Holder!Tui
       /\ printed.locked = Holder!Bytes(pinned) /\ printed.failed = Holder!Set(mapped) \ pinned
  /\ printed # None /\ printed.line = "released" =>
       /\ worker = "done" /\ pinned = {}
       /\ Holder!Tui => (printed.locked = "all") = (printed.count = Holder!Cardinality(locked))
  /\ printed # None /\ printed.line = "compared" =>
       /\ worker = "done"
       /\ printed.verdict # None =>
            \A k \in {"holder", "server"} : \A r \in Holder!Set(procs[k].regions) :
              r.inode \notin printed.shared =>
                \E q \in Holder!Set(procs[k].regions) : q.inode = r.inode /\ ~Holder!IsModelFile(q)
  /\ worker = "read" /\ "holder" \in procs.read => Told(printed.holder, "holder")
  /\ worker = "read" /\ "server" \in procs.read => "holder" \in procs.read /\ Told(printed.server, "server")

HolderInv == HolderTypes /\ ExitInv /\ AppTypes /\ WorkInv /\ LockInv /\ PrintInv

\* The invariant gives what the run checks.
LEMMA HolderInvImplies ==
  ASSUME HolderConstants, HolderInv
  PROVE  HolderTellsTheTruth
<1> USE DEF HolderInv
<1>1. app.scroll_offset <= Holder!MaxOffset(app)
  BY DEF AppTypes, Drawn
<1>2. ASSUME Holder!Tui, worker # "done", Holder!Title = "locked" PROVE pinned = Holder!Set(mapped)
  BY <1>2 DEF Holder!Title, LockInv, AppTypes, Drawn
<1>3. ASSUME Holder!Tui, worker # "done", Holder!Title \in {"complete", "partial"}
      PROVE  \A p \in Holder!Set(mapped) : app.stage[p] \in {"complete", "locking", "locked"}
  <2>1. app.warmup_complete
    BY <1>3 DEF Holder!Title
  <2>2. DOMAIN mapped = 1 .. Len(mapped)
    BY DEF HolderTypes
  <2> QED
    BY <2>1, <2>2 DEF WorkInv, Warm, Holder!Set, Holder!Range
<1>4. app.failed_lock_files \cap pinned = {}
  BY DEF LockInv
<1>5. ASSUME worker # "done" PROVE Holder!Counted({"locked"}) <= Holder!Cardinality(pinned)
  <2> DEFINE L == {p \in DOMAIN app.stage : app.stage[p] \in {"locked"}}
  <2>1. L \subseteq pinned
    BY <1>5 DEF LockInv, AppTypes, Drawn
  <2>2. IsFiniteSet(pinned)
    BY FS_Subset DEF LockInv, HolderConstants
  <2>3. Cardinality(L) <= Cardinality(pinned)
    <3> HIDE DEF L
    <3> QED
      BY <2>1, <2>2, FS_Subset
  <2> QED
    BY <2>3 DEF Holder!Counted, Holder!Cardinality, Cardinality, Holder!IsFiniteSet, IsFiniteSet
<1>6. printed # None /\ printed.line = "locked" =>
       /\ printed.locked = Holder!Bytes(pinned)
       /\ printed.failed = Holder!Set(mapped) \ pinned
  BY DEF PrintInv
<1>7. printed # None /\ printed.line = "released" =>
       /\ pinned = {}
       /\ Holder!Tui => (printed.locked = "all") = (printed.count = Holder!Cardinality(locked))
  BY DEF PrintInv
<1>8. printed # None /\ printed.line = "compared" /\ printed.verdict # None =>
       \A k \in {"holder", "server"} : \A r \in Holder!Set(procs[k].regions) :
         r.inode \notin printed.shared =>
           ~\A q \in Holder!Set(procs[k].regions) : q.inode = r.inode => Holder!IsModelFile(q)
  BY DEF PrintInv
<1> QED
  BY <1>1, <1>2, <1>3, <1>4, <1>5, <1>6, <1>7, <1>8 DEF HolderTellsTheTruth, Holder!HolderTellsTheTruth

\* MaxOffset is a number, zero at least.
LEMMA OffsetsExist ==
  ASSUME HolderConstants, NEW a, DOMAIN a.stage \subseteq HeldFiles
  PROVE  Holder!MaxOffset(a) \in Nat
<1>1. IsFiniteSet(Holder!Filtered(a))
  BY FS_Subset DEF Holder!Filtered, HolderConstants
<1>2. Cardinality(Holder!Filtered(a)) \in Nat
  BY <1>1, FS_CardinalityType
<1>3. Holder!Cardinality(Holder!Filtered(a)) = Cardinality(Holder!Filtered(a))
  BY DEF Holder!Cardinality, Cardinality, Holder!IsFiniteSet, IsFiniteSet
<1> DEFINE c == Cardinality(Holder!Filtered(a)) - 1
<1>4. c \in Int
  BY <1>2
<1>5. Holder!MaxOffset(a) = Holder!Max({c, 0})
  BY <1>3 DEF Holder!MaxOffset
<1> HIDE DEF c
<1> QED
  BY <1>4, <1>5, OfTwo

\* The state before anything is mapped.
LEMMA NewIsDrawn ==
  ASSUME HolderConstants, NEW files, files \subseteq HeldFiles
  PROVE  /\ Drawn(Holder!NewApp(files), files)
         /\ \A p \in files : Holder!NewApp(files).stage[p] = "found"
         /\ Holder!NewApp(files).warmup_complete = FALSE /\ Holder!NewApp(files).all_locked = FALSE
         /\ Holder!NewApp(files).failed_lock_files = {}
<1> DEFINE a == Holder!NewApp(files)
<1>1. /\ a = [x \in AppFields |-> a[x]] /\ a.stage \in [files -> StageNames] /\ DOMAIN a.stage = files
      /\ a.warmup_complete = FALSE /\ a.all_locked = FALSE /\ a.scroll_offset = 0
      /\ a.failed_lock_files = {} /\ \A p \in files : a.stage[p] = "found"
  BY DEF Holder!NewApp, AppFields, StageNames
<1> HIDE DEF a
<1>2. Holder!MaxOffset(a) \in Nat
  BY <1>1, OffsetsExist
<1>3. a.scroll_offset \in Nat /\ a.scroll_offset <= Holder!MaxOffset(a)
  BY <1>1, <1>2
<1>4. Drawn(a, files)
  BY <1>1, <1>3 DEF Drawn
<1> QED
  BY <1>1, <1>4 DEF a

\* A step of a file does not move the list.
LEMMA StepIsDrawn ==
  ASSUME NEW a, NEW b, NEW files, Drawn(a, files), b = [x \in AppFields |-> b[x]],
         b.stage \in [files -> StageNames], b.warmup_complete \in BOOLEAN, b.all_locked \in BOOLEAN,
         b.scroll_offset = a.scroll_offset, b.filter_input = a.filter_input
  PROVE  Drawn(b, files)
<1>1. Holder!MaxOffset(a) = Holder!MaxOffset(b)
  BY DEF Holder!MaxOffset, Holder!Filtered, Drawn
<1> QED
  BY <1>1 DEF Drawn

\* A key moves it within the filtered list, or to its head.
LEMMA KeyIsDrawn ==
  ASSUME HolderConstants, NEW files, files \subseteq HeldFiles, NEW a, NEW b, Drawn(a, files),
         b = [x \in AppFields |-> b[x]], b.stage = a.stage, b.warmup_complete = a.warmup_complete,
         b.all_locked = a.all_locked,
         \/ b.scroll_offset = 0
         \/ b.filter_input = a.filter_input /\ b.scroll_offset \in Nat /\ b.scroll_offset <= Holder!MaxOffset(a)
  PROVE  Drawn(b, files)
<1>1. DOMAIN a.stage = files /\ DOMAIN b.stage = files
  BY DEF Drawn
<1>2. Holder!MaxOffset(b) \in Nat
  BY <1>1, OffsetsExist
<1>3. b.filter_input = a.filter_input => Holder!MaxOffset(a) = Holder!MaxOffset(b)
  BY <1>1 DEF Holder!MaxOffset, Holder!Filtered
<1>4. b.scroll_offset \in Nat /\ b.scroll_offset <= Holder!MaxOffset(b)
  BY <1>2, <1>3
<1> QED
  BY <1>4 DEF Drawn

\* The program starts with the invariant.
LEMMA HolderStarts ==
  ASSUME HolderConstants, Holder!Init
  PROVE  HolderInv
<1>1. /\ next = 1 /\ mapped = <<>> /\ threads = {} /\ pinned = {} /\ locked = {} /\ failed = {}
      /\ should_exit = FALSE /\ paths = <<>> /\ ui = "none" /\ app = Holder!NewApp({}) /\ printed = None
  BY DEF Holder!Init
<1>2. Holder!Set(<<>>) = {}
  BY DEF Holder!Set, Holder!Range
<1>3. AppTypes
  <2>1. Holder!Set(paths) = {} /\ {} \subseteq HeldFiles
    BY <1>1, <1>2
  <2> QED
    BY <1>1, <2>1, NewIsDrawn DEF AppTypes
<1>4. HolderTypes
  <2>1. mode.command \in {"tui", "oneshot", "check"} /\ (mode.command # "check" => mode.lock_threads \in Nat)
    BY DEF Holder!Init, HolderConstants
  <2>2. worker = (IF mode.command = "check" THEN "find" ELSE "expand")
    BY DEF Holder!Init
  <2>3. procs \in [holder : Process, server : Process, read : SUBSET {"holder", "server"}]
    <3>1. Holder!Processes \subseteq Process
      <4>1. UNION {[1 .. n -> Holder!Regions] : n \in 0 .. 2} \subseteq UNION {[1 .. n -> Holder!Regions] : n \in Nat}
        <5> SUFFICES ASSUME NEW n \in 0 .. 2, NEW f \in [1 .. n -> Holder!Regions]
                     PROVE  f \in UNION {[1 .. m -> Holder!Regions] : m \in Nat}
          OBVIOUS
        <5>1. n \in Nat
          OBVIOUS
        <5> QED
          BY <5>1
      <4> QED
        BY <4>1 DEF Holder!Processes, Process
    <3>2. Holder!NoProcess \in Process
      <4>1. <<>> \in [1 .. 0 -> Holder!Regions]
        OBVIOUS
      <4> QED
        BY <4>1 DEF Holder!NoProcess, Process
    <3> QED
      BY <3>1, <3>2 DEF Holder!Init, Holder!Unread
  <2>4. /\ paths \in Seq(HeldFiles) /\ Distinct(paths)
        /\ mapped \in Seq(Holder!Set(paths)) /\ Distinct(mapped)
    BY <1>1 DEF Distinct
  <2>5. next \in Nat \ {0}
    BY <1>1
  <2>6. should_exit \in BOOLEAN
    BY <1>1
  <2>7. procs.read = {}
    BY DEF Holder!Init, Holder!Unread
  <2> QED
    BY <2>1, <2>2, <2>3, <2>4, <2>5, <2>6, <2>7 DEF HolderTypes
<1>5. worker \in {"expand", "find"} /\ procs.read = {}
  BY DEF Holder!Init, Holder!Unread
<1>6. ExitInv
  BY <1>1 DEF ExitInv
<1>7. app.warmup_complete = FALSE /\ app.all_locked = FALSE /\ app.failed_lock_files = {}
  BY <1>1 DEF Holder!NewApp
<1>8. WorkInv
  BY <1>1, <1>5, <1>7 DEF WorkInv
<1>9. LockInv
  BY <1>1, <1>2, <1>5, <1>7 DEF LockInv
<1>10. PrintInv
  BY <1>1, <1>5 DEF PrintInv
<1> QED
  BY <1>3, <1>4, <1>6, <1>8, <1>9, <1>10 DEF HolderInv

\* Before the end nothing printed binds anybody.
LEMMA PrintKept ==
  ASSUME PrintInv, UNCHANGED printed, worker \notin {"join", "done", "read"}, worker' # "read"
  PROVE  PrintInv'
BY DEF PrintInv

\* Steps of the UI thread.
LEMMA PrintStays ==
  ASSUME PrintInv, UNCHANGED <<printed, worker, pinned, mapped, locked, procs, mode>>
  PROVE  PrintInv'
BY DEF PrintInv, Told, Holder!Tui

\* expand_globs lists files, each once.
LEMMA GlobsExpand ==
  ASSUME HolderConstants, NEW patterns \in Holder!CommandLines, Holder!Expands(patterns)
  PROVE  Holder!expand_globs(patterns) \in Seq(HeldFiles) /\ Distinct(Holder!expand_globs(patterns))
<1> DEFINE found == UNION {IF patterns[i].matches # {} THEN patterns[i].matches ELSE {patterns[i].direct} : i \in DOMAIN patterns}
           n == Cardinality(found)
           P(s) == \A i, j \in DOMAIN s : i < j => s[i] < s[j]
<1>0. Holder!Files = HeldFiles
  BY DEF Holder!Files, Size
<1>1. \A i \in DOMAIN patterns : patterns[i] \in Holder!Patterns
  <2>1. [matches |-> Holder!Files, direct |-> None, parent |-> FALSE] \in Holder!Patterns
    BY DEF Holder!Patterns
  <2>2. CASE \E p \in Holder!Patterns : patterns = <<p>>
    BY <2>2
  <2>3. CASE \E p \in Holder!Patterns : patterns = <<[matches |-> Holder!Files, direct |-> None, parent |-> FALSE], p>>
    <3>1. PICK p \in Holder!Patterns : patterns = <<[matches |-> Holder!Files, direct |-> None, parent |-> FALSE], p>>
      BY <2>3
    <3> DEFINE q == [matches |-> Holder!Files, direct |-> None, parent |-> FALSE]
    <3>2. q \in Holder!Patterns /\ patterns = <<q, p>>
      BY <2>1, <3>1
    <3> HIDE DEF q
    <3> QED
      BY <3>2
  <2> QED
    BY <2>2, <2>3 DEF Holder!CommandLines
<1>2. found \subseteq HeldFiles
  BY <1>0, <1>1 DEF Holder!Expands, Holder!Patterns
<1>3. IsFiniteSet(found) /\ n \in Nat /\ found \subseteq Int
  <2>1. IsFiniteSet(found)
    <3> HIDE DEF found
    <3> QED
      BY <1>2, FS_Subset DEF HolderConstants
  <2>2. n \in Nat
    <3> HIDE DEF found
    <3> QED
      BY <2>1, FS_CardinalityType
  <2>3. found \subseteq Int
    <3> HIDE DEF found
    <3> QED
      BY <1>2 DEF HolderConstants
  <2> QED
    BY <2>1, <2>2, <2>3
<1>4. Holder!expand_globs(patterns) = CHOOSE s \in [1 .. n -> found] : P(s)
  BY DEF Holder!expand_globs, Holder!Cardinality, Cardinality, Holder!IsFiniteSet, IsFiniteSet
<1> HIDE DEF found
<1>5. \E s \in [1 .. n -> found] : P(s)
  <2>1. PICK s \in [1 .. n -> found] : Increasing(s, n)
    <3> HIDE DEF n
    <3> QED
      BY <1>3, IncreasingListing DEF n
  <2> QED
    BY <2>1 DEF Increasing
<1> HIDE DEF n, P
<1>6. PICK s \in [1 .. n -> found] : s = Holder!expand_globs(patterns) /\ P(s)
  BY <1>4, <1>5
<1>7. s \in Seq(found) /\ Len(s) = n
  BY <1>3
<1>8. Distinct(s)
  <2> SUFFICES ASSUME NEW i \in 1 .. n, NEW j \in 1 .. n, s[i] = s[j], i < j PROVE FALSE
    BY <1>3, <1>7 DEF Distinct
  <2>1. s[i] < s[j] /\ s[i] \in Int
    BY <1>3, <1>6 DEF P
  <2> QED
    BY <2>1
<1> QED
  BY <1>2, <1>6, <1>7, <1>8

\* The elements of a list of files are files.
LEMMA PathsAreFiles ==
  ASSUME HolderTypes
  PROVE  /\ Holder!Set(paths) = {paths[i] : i \in 1 .. Len(paths)} /\ Holder!Set(paths) \subseteq HeldFiles
         /\ Holder!Set(mapped) = {mapped[i] : i \in 1 .. Len(mapped)} /\ Holder!Set(mapped) \subseteq Holder!Set(paths)
         /\ Len(paths) \in Nat /\ Len(mapped) \in Nat /\ mapped \in Seq(HeldFiles)
BY DEF HolderTypes, Holder!Set, Holder!Range

\* The arguments.
LEMMA ExpandStep ==
  ASSUME HolderConstants, HolderInv, NEW size, NEW patterns \in Holder!CommandLines, Holder!Expand(size, patterns)
  PROVE  HolderInv'
<1> USE DEF HolderInv
<1>1. /\ worker = "expand" /\ mapped = <<>> /\ mapped' = <<>> /\ pinned = {} /\ failed = {} /\ threads = {}
      /\ next' = 1
  BY DEF Holder!Expand, WorkInv, LockInv, Holder!GoTo
<1>2. UNCHANGED <<mode, procs, faults, mapped, threads, pinned, locked, failed, should_exit, keys>>
  BY DEF Holder!Expand
<1>3. CASE worker' = "done"
  <2>1. UNCHANGED <<paths, app, ui>> /\ printed' = [line |-> "error"]
    BY <1>3 DEF Holder!Expand, Holder!GoTo
  <2>2. HolderTypes' /\ ExitInv' /\ AppTypes'
    BY <1>1, <1>2, <1>3, <2>1 DEF HolderTypes, ExitInv, AppTypes, Holder!Tui
  <2>3. WorkInv'
    BY <1>1, <1>2, <1>3, <2>1 DEF WorkInv
  <2>4. LockInv'
    BY <1>1, <1>2, <1>3, <2>1 DEF LockInv
  <2>5. PrintInv'
    BY <1>3, <2>1 DEF PrintInv
  <2> QED
    BY <2>2, <2>3, <2>4, <2>5
<1>4. CASE worker' # "done"
  <2>1. /\ worker' = "map" /\ paths' = Holder!expand_globs(patterns) /\ Holder!Expands(patterns)
        /\ app' = Holder!NewApp(Holder!Set(paths')) /\ UNCHANGED printed
        /\ ui' = IF Holder!Tui THEN "running" ELSE "none"
    BY <1>4 DEF Holder!Expand, Holder!GoTo
  <2>2. paths' \in Seq(HeldFiles) /\ Distinct(paths')
    BY <2>1, GlobsExpand
  <2>3. HolderTypes'
    BY <1>1, <1>2, <2>1, <2>2 DEF HolderTypes, Distinct
  <2>4. Holder!Set(paths)' \subseteq HeldFiles
    BY <2>2 DEF Holder!Set, Holder!Range
  <2>5. /\ AppTypes' /\ app'.warmup_complete = FALSE /\ app'.all_locked = FALSE /\ app'.failed_lock_files = {}
        /\ \A p \in Holder!Set(paths') : app'.stage[p] = "found"
    <3> DEFINE S == Holder!Set(paths')
    <3>1. S \subseteq HeldFiles /\ app' = Holder!NewApp(S)
      BY <2>1, <2>4
    <3>2. AppTypes' <=> Drawn(app', S)
      BY DEF AppTypes
    <3> HIDE DEF S
    <3>3. /\ Drawn(app', S) /\ app'.warmup_complete = FALSE /\ app'.all_locked = FALSE /\ app'.failed_lock_files = {}
          /\ \A p \in S : app'.stage[p] = "found"
      BY <3>1, NewIsDrawn
    <3> QED
      BY <3>2, <3>3 DEF S
  <2>6. ExitInv'
    BY <1>1, <1>2, <2>1 DEF ExitInv, Holder!Tui, HolderTypes
  <2>7. WorkInv'
    BY <1>1, <1>2, <2>1, <2>5 DEF WorkInv
  <2>8. LockInv'
    BY <1>1, <1>2, <2>1, <2>5 DEF LockInv
  <2>9. PrintInv'
    BY <1>1, <2>1, PrintKept
  <2> QED
    BY <2>3, <2>5, <2>6, <2>7, <2>8, <2>9
<1> QED
  BY <1>3, <1>4

\* The variables of the UI and of `check`, which the worker leaves alone.
LEMMA ExitKept ==
  ASSUME ExitInv, UNCHANGED <<mode, ui, should_exit>>
  PROVE  ExitInv'
BY DEF ExitInv, Holder!Tui

\* One stage of one file.
LEMMA Restaged ==
  ASSUME NEW files, NEW p \in files, NEW stage \in StageNames, Drawn(app, files)
  PROVE  LET b == [app EXCEPT !.stage[p] = stage] IN
         /\ Drawn(b, files)
         /\ b.warmup_complete = app.warmup_complete /\ b.all_locked = app.all_locked
         /\ b.failed_lock_files = app.failed_lock_files
         /\ b.stage[p] = stage /\ \A q \in files \ {p} : b.stage[q] = app.stage[q]
<1> DEFINE b == [app EXCEPT !.stage[p] = stage]
<1>1. /\ b = [x \in AppFields |-> b[x]] /\ b.stage = [app.stage EXCEPT ![p] = stage]
      /\ b.warmup_complete = app.warmup_complete /\ b.all_locked = app.all_locked
      /\ b.failed_lock_files = app.failed_lock_files
      /\ b.scroll_offset = app.scroll_offset /\ b.filter_input = app.filter_input
  BY DEF Drawn, AppFields
<1> HIDE DEF b
<1>2. b.stage \in [files -> StageNames] /\ b.stage[p] = stage /\ \A q \in files \ {p} : b.stage[q] = app.stage[q]
  BY <1>1 DEF Drawn
<1>3. Drawn(b, files)
  BY <1>1, <1>2, StepIsDrawn DEF Drawn
<1> QED
  BY <1>1, <1>2, <1>3 DEF b

\* Mapping the files one by one.
LEMMA MapStep ==
  ASSUME HolderConstants, HolderInv, Holder!MapNext
  PROVE  HolderInv'
<1> USE DEF HolderInv
<1>1. /\ worker = "map" /\ pinned = {} /\ failed = {} /\ threads = {}
      /\ app.warmup_complete = FALSE /\ app.all_locked = FALSE
  BY DEF Holder!MapNext, WorkInv, LockInv, AppTypes, Drawn
<1>2. UNCHANGED <<mode, procs, faults, paths, threads, pinned, locked, failed, should_exit, ui, keys>>
  BY DEF Holder!MapNext
<1>3. ExitInv'
  BY <1>2, ExitKept
<1>4. /\ Len(paths) \in Nat /\ Len(mapped) \in Nat /\ next \in Nat \ {0}
      /\ Holder!Set(paths) = {paths[i] : i \in 1 .. Len(paths)}
  BY PathsAreFiles DEF HolderTypes
<1>5. CASE worker' = "warm"
  <2>1. next' = 1 /\ UNCHANGED <<mapped, app, printed>>
    BY <1>1, <1>5 DEF Holder!MapNext, Holder!GoTo
  <2>2. HolderTypes' /\ AppTypes'
    BY <1>1, <1>2, <1>5, <2>1 DEF HolderTypes, AppTypes
  <2>3. WorkInv'
    BY <1>1, <1>5, <2>1 DEF WorkInv
  <2>4. LockInv'
    BY <1>1, <1>2, <1>5, <2>1 DEF LockInv
  <2>5. PrintInv'
    BY <1>1, <1>5, <2>1, PrintKept
  <2> QED
    BY <1>3, <2>2, <2>3, <2>4, <2>5
<1>6. CASE worker' = "done"
  <2>1. next' = 1 /\ mapped' = <<>> /\ printed' = [line |-> "error"] /\ UNCHANGED app
    BY <1>1, <1>6 DEF Holder!MapNext, Holder!GoTo
  <2>2. HolderTypes' /\ AppTypes'
    BY <1>1, <1>2, <1>6, <2>1 DEF HolderTypes, AppTypes, Distinct
  <2>3. WorkInv'
    BY <1>1, <1>6, <2>1 DEF WorkInv
  <2>4. LockInv'
    BY <1>1, <1>2, <1>6, <2>1 DEF LockInv
  <2>5. PrintInv'
    BY <1>6, <2>1 DEF PrintInv
  <2> QED
    BY <1>3, <2>2, <2>3, <2>4, <2>5
<1>7. CASE worker' = "map" /\ UNCHANGED mapped
  <2>1. next' = next + 1 /\ UNCHANGED <<app, printed>>
    <3>1. mapped # Append(mapped, paths[next])
      <4>1. Len(Append(mapped, paths[next])) = Len(mapped) + 1
        BY <1>4 DEF HolderTypes
      <4> QED
        BY <1>4, <4>1
    <3> QED
      BY <1>1, <1>7, <3>1 DEF Holder!MapNext, Holder!GoTo
  <2>2. HolderTypes' /\ AppTypes'
    BY <1>1, <1>2, <1>7, <2>1 DEF HolderTypes, AppTypes
  <2>3. WorkInv'
    <3>1. \A i \in 1 .. Len(mapped) : \E j \in 1 .. Len(paths) : j < next + 1 /\ mapped[i] = paths[j]
      BY <1>1, <1>4 DEF WorkInv
    <3> QED
      BY <1>1, <1>2, <1>7, <2>1, <3>1 DEF WorkInv
  <2>4. LockInv'
    BY <1>1, <1>2, <1>7, <2>1 DEF LockInv
  <2>5. PrintInv'
    BY <1>1, <1>7, <2>1, PrintKept
  <2> QED
    BY <1>3, <2>2, <2>3, <2>4, <2>5
<1>8. CASE worker' = "map" /\ mapped' # mapped
  <2> DEFINE p == paths[next]
  <2>1. /\ next <= Len(paths) /\ next' = next + 1 /\ UNCHANGED printed
        /\ mapped' = Append(mapped, p) /\ app' = [app EXCEPT !.stage[p] = "mapped"]
    BY <1>1, <1>4, <1>8 DEF Holder!MapNext, Holder!GoTo
  <2>2. next \in 1 .. Len(paths) /\ p \in Holder!Set(paths)
    BY <1>4, <2>1
  <2>3. /\ Drawn(app', Holder!Set(paths)) /\ app'.warmup_complete = FALSE /\ app'.all_locked = FALSE
        /\ app'.failed_lock_files = app.failed_lock_files
        /\ app'.stage[p] = "mapped" /\ \A q \in Holder!Set(paths) \ {p} : app'.stage[q] = app.stage[q]
    <3>1. "mapped" \in StageNames /\ Drawn(app, Holder!Set(paths))
      BY DEF StageNames, AppTypes
    <3> HIDE DEF p
    <3> QED
      BY <1>1, <2>1, <2>2, <3>1, Restaged
  <2>4. \A i \in 1 .. Len(mapped) : mapped[i] # p
    <3> SUFFICES ASSUME NEW i \in 1 .. Len(mapped), mapped[i] = p PROVE FALSE
      OBVIOUS
    <3>1. PICK j \in 1 .. Len(paths) : j < next /\ mapped[i] = paths[j]
      BY <1>1 DEF WorkInv
    <3>2. j = next
      BY <2>2, <3>1 DEF HolderTypes, Distinct
    <3> QED
      BY <1>4, <3>1, <3>2
  <2>5. /\ mapped' \in Seq(Holder!Set(paths)) /\ Len(mapped') = Len(mapped) + 1
        /\ mapped'[Len(mapped) + 1] = p /\ \A i \in 1 .. Len(mapped) : mapped'[i] = mapped[i]
    BY <2>1, <2>2 DEF HolderTypes
  <2> HIDE DEF p
  <2>6. Distinct(mapped')
    <3> SUFFICES ASSUME NEW i \in 1 .. (Len(mapped) + 1), NEW j \in 1 .. (Len(mapped) + 1), mapped'[i] = mapped'[j]
                 PROVE  i = j
      BY <2>5 DEF Distinct
    <3>1. CASE i = Len(mapped) + 1 /\ j # Len(mapped) + 1
      <4>1. j \in 1 .. Len(mapped)
        BY <1>4, <3>1
      <4> QED
        BY <2>4, <2>5, <3>1, <4>1
    <3>2. CASE j = Len(mapped) + 1 /\ i # Len(mapped) + 1
      <4>1. i \in 1 .. Len(mapped)
        BY <1>4, <3>2
      <4> QED
        BY <2>4, <2>5, <3>2, <4>1
    <3>3. CASE j # Len(mapped) + 1 /\ i # Len(mapped) + 1
      <4>1. i \in 1 .. Len(mapped) /\ j \in 1 .. Len(mapped)
        BY <1>4, <3>3
      <4> QED
        BY <2>5, <4>1 DEF HolderTypes, Distinct
    <3> QED
      BY <3>1, <3>2, <3>3
  <2>7. HolderTypes' /\ AppTypes'
    <3>1. next' \in Nat \ {0} /\ Holder!Set(paths)' = Holder!Set(paths)
      BY <1>2, <1>4, <2>1
    <3>2. AppTypes'
      BY <2>3, <3>1 DEF AppTypes
    <3>3. HolderTypes'
      BY <1>1, <1>2, <1>8, <2>5, <2>6, <3>1 DEF HolderTypes
    <3> QED
      BY <3>2, <3>3
  <2>8. WorkInv'
    <3>1. ASSUME NEW i \in 1 .. Len(mapped') PROVE \E j \in 1 .. Len(paths) : j < next + 1 /\ mapped'[i] = paths[j]
      <4>1. CASE i = Len(mapped) + 1
        BY <1>4, <2>2, <2>5, <4>1 DEF p
      <4>2. CASE i # Len(mapped) + 1
        <5>1. i \in 1 .. Len(mapped) /\ mapped'[i] = mapped[i]
          BY <1>4, <2>5, <4>2
        <5>2. PICK j \in 1 .. Len(paths) : j < next /\ mapped[i] = paths[j]
          BY <1>1, <5>1 DEF WorkInv
        <5> QED
          BY <1>4, <5>1, <5>2
      <4> QED
        BY <4>1, <4>2
    <3> QED
      BY <1>2, <1>8, <2>1, <2>3, <3>1 DEF WorkInv
  <2>9. LockInv'
    <3>1. ASSUME NEW q \in Holder!Set(paths), app'.stage[q] = "locked" PROVE q \in pinned
      BY <1>1, <2>3, <3>1 DEF LockInv
    <3>2. Holder!Set(paths)' = Holder!Set(paths)
      BY <1>2
    <3> QED
      BY <1>1, <1>2, <1>8, <2>3, <3>1, <3>2 DEF LockInv
  <2>10. PrintInv'
    BY <1>1, <1>8, <2>1, PrintKept
  <2> QED
    BY <1>3, <2>7, <2>8, <2>9, <2>10
<1>9. worker' \in {"map", "warm", "done"}
  BY <1>1 DEF Holder!MapNext, Holder!GoTo
<1> QED
  BY <1>5, <1>6, <1>7, <1>8, <1>9

\* Before the first file there is none, and past the last one there are all.
LEMMA SofarEnds ==
  ASSUME HolderTypes
  PROVE  Sofar(1) = {} /\ \A n \in Nat : n > Len(mapped) => Sofar(n) = Holder!Set(mapped)
<1>1. Len(mapped) \in Nat /\ Holder!Set(mapped) = {mapped[i] : i \in 1 .. Len(mapped)}
  BY PathsAreFiles
<1>2. {k \in 1 .. Len(mapped) : k < 1} = {}
  BY <1>1
<1>3. ASSUME NEW n \in Nat, n > Len(mapped) PROVE {k \in 1 .. Len(mapped) : k < n} = 1 .. Len(mapped)
  BY <1>1, <1>3
<1> QED
  BY <1>1, <1>2, <1>3 DEF Sofar

\* Warming the mapped files one by one.
LEMMA WarmStep ==
  ASSUME HolderConstants, HolderInv, Holder!WarmNext
  PROVE  HolderInv'
<1> USE DEF HolderInv
<1>1. /\ worker = "warm" /\ pinned = {} /\ failed = {} /\ threads = {}
      /\ app.warmup_complete = FALSE /\ app.all_locked = FALSE
  BY DEF Holder!WarmNext, WorkInv, LockInv, AppTypes, Drawn
<1>2. UNCHANGED <<mode, procs, faults, paths, mapped, threads, pinned, locked, failed, should_exit, ui, keys, printed>>
  BY DEF Holder!WarmNext
<1>3. ExitInv'
  BY <1>2, ExitKept
<1>4. /\ Len(mapped) \in Nat /\ next \in Nat \ {0}
      /\ Holder!Set(mapped) = {mapped[i] : i \in 1 .. Len(mapped)} /\ Holder!Set(mapped) \subseteq Holder!Set(paths)
  BY PathsAreFiles DEF HolderTypes
<1>5. worker' \in {"warm", "lock"} /\ PrintInv'
  <2>1. worker' \in {"warm", "lock"}
    BY <1>1 DEF Holder!WarmNext, Holder!GoTo
  <2> QED
    BY <1>1, <1>2, <2>1, PrintKept
<1>6. CASE worker' = "lock" /\ UNCHANGED app
  <2>1. next' = 1
    BY <1>1, <1>6 DEF Holder!WarmNext, Holder!GoTo
  <2>2. HolderTypes' /\ AppTypes'
    BY <1>1, <1>2, <1>6, <2>1 DEF HolderTypes, AppTypes
  <2>3. WorkInv'
    BY <1>1, <1>2, <1>6, <2>1 DEF WorkInv
  <2>4. LockInv'
    <3>1. Sofar(next)' = {}
      <4>1. Sofar(1)' = {}
        BY <2>2, SofarEnds DEF Sofar
      <4> QED
        BY <2>1, <4>1 DEF Sofar
    <3> QED
      BY <1>1, <1>2, <1>6, <3>1 DEF LockInv
  <2> QED
    BY <1>3, <1>5, <2>2, <2>3, <2>4
<1>7. CASE worker' = "lock" /\ app' # app
  <2>1. /\ next' = 1 /\ app' = [app EXCEPT !.warmup_complete = @ \/ ~should_exit]
        /\ next > Len(mapped) \/ should_exit
    BY <1>1, <1>7 DEF Holder!WarmNext, Holder!GoTo, Holder!aborted
  <2>2. /\ app' = [x \in AppFields |-> app'[x]] /\ app'.stage = app.stage /\ app'.warmup_complete = ~should_exit
        /\ app'.all_locked = app.all_locked /\ app'.failed_lock_files = app.failed_lock_files
        /\ app'.scroll_offset = app.scroll_offset /\ app'.filter_input = app.filter_input
    BY <1>1, <2>1 DEF AppTypes, Drawn, AppFields
  <2>3. Drawn(app, Holder!Set(paths)) /\ Holder!Set(paths)' = Holder!Set(paths)
    BY <1>2 DEF AppTypes
  <2>4. Drawn(app', Holder!Set(paths))
    <3>1. app'.warmup_complete \in BOOLEAN /\ app'.all_locked \in BOOLEAN /\ app'.stage \in [Holder!Set(paths) -> StageNames]
      BY <2>2, <2>3 DEF Drawn
    <3> QED
      BY <2>2, <2>3, <3>1, StepIsDrawn
  <2>5. HolderTypes' /\ AppTypes'
    <3>1. AppTypes'
      BY <2>3, <2>4 DEF AppTypes
    <3>2. HolderTypes'
      BY <1>1, <1>2, <1>7, <2>1 DEF HolderTypes
    <3> QED
      BY <3>1, <3>2
  <2>6. WorkInv'
    <3>1. ASSUME ~should_exit, NEW i \in 1 .. Len(mapped) PROVE app.stage[mapped[i]] = "complete"
      <4>1. i < next
        BY <1>4, <2>1, <3>1
      <4> QED
        BY <1>1, <4>1 DEF WorkInv
    <3> QED
      BY <1>2, <1>7, <2>2, <3>1 DEF WorkInv, Warm
  <2>7. LockInv'
    <3>1. Sofar(next)' = {}
      <4>1. Sofar(1)' = {}
        BY <2>5, SofarEnds DEF Sofar
      <4> QED
        BY <2>1, <4>1 DEF Sofar
    <3> QED
      BY <1>1, <1>2, <1>7, <2>2, <2>3, <3>1 DEF LockInv
  <2> QED
    BY <1>3, <1>5, <2>5, <2>6, <2>7
<1>8. CASE worker' = "warm"
  <2> DEFINE p == mapped[next]
  <2>1. /\ next <= Len(mapped) /\ ~should_exit
        /\ \/ app' = Holder!Stage(p, "warming") /\ UNCHANGED next
           \/ app' = Holder!Stage(p, "complete") /\ next' = next + 1
    BY <1>1, <1>8 DEF Holder!WarmNext, Holder!GoTo, Holder!aborted
  <2>2. next \in 1 .. Len(mapped) /\ p \in Holder!Set(paths)
    <3>1. next \in 1 .. Len(mapped)
      BY <1>4, <2>1
    <3> QED
      BY <1>4, <3>1
  <2>3. PICK stage \in {"warming", "complete"} :
          /\ app' = [app EXCEPT !.stage[p] = stage]
          /\ next' = IF stage = "complete" THEN next + 1 ELSE next
    BY <2>1 DEF Holder!Stage, ExitInv
  <2>4. /\ Drawn(app', Holder!Set(paths)) /\ app'.warmup_complete = FALSE /\ app'.all_locked = FALSE
        /\ app'.failed_lock_files = app.failed_lock_files
        /\ app'.stage[p] = stage /\ \A q \in Holder!Set(paths) \ {p} : app'.stage[q] = app.stage[q]
    <3>1. stage \in StageNames /\ Drawn(app, Holder!Set(paths))
      BY DEF StageNames, AppTypes
    <3> HIDE DEF p
    <3> QED
      BY <1>1, <2>2, <2>3, <3>1, Restaged
  <2>5. HolderTypes' /\ AppTypes'
    <3>1. next' \in Nat \ {0} /\ Holder!Set(paths)' = Holder!Set(paths)
      BY <1>2, <1>4, <2>3
    <3>2. AppTypes'
      BY <2>4, <3>1 DEF AppTypes
    <3>3. HolderTypes'
      BY <1>1, <1>2, <1>8, <3>1 DEF HolderTypes
    <3> QED
      BY <3>2, <3>3
  <2>6. WorkInv'
    <3>1. ASSUME NEW i \in 1 .. Len(mapped), i < next' PROVE app'.stage[mapped[i]] = "complete"
      <4>1. CASE i = next
        BY <1>4, <2>2, <2>3, <2>4, <3>1, <4>1
      <4>2. CASE i # next
        <5>1. i < next
          BY <1>4, <2>3, <3>1, <4>2
        <5>2. mapped[i] # p /\ mapped[i] \in Holder!Set(paths)
          BY <1>4, <2>2, <4>2 DEF HolderTypes, Distinct
        <5> QED
          BY <1>1, <2>4, <5>1, <5>2 DEF WorkInv
      <4> QED
        BY <4>1, <4>2
    <3> QED
      BY <1>2, <1>8, <2>4, <3>1 DEF WorkInv
  <2> HIDE DEF p
  <2>7. LockInv'
    <3>1. ASSUME NEW q \in Holder!Set(paths), app'.stage[q] = "locked" PROVE q \in pinned
      BY <1>1, <2>3, <2>4, <3>1 DEF LockInv
    <3>2. Holder!Set(paths)' = Holder!Set(paths)
      BY <1>2
    <3> QED
      BY <1>1, <1>2, <1>8, <2>4, <3>1, <3>2 DEF LockInv
  <2> QED
    BY <1>3, <1>5, <2>5, <2>6, <2>7
<1> QED
  BY <1>5, <1>6, <1>7, <1>8

\* A chunk takes the files on by as many as there are lock threads.
LEMMA ChunkAdds ==
  ASSUME HolderTypes, worker \in {"lock", "locking"}
  PROVE  /\ Holder!Concurrency \in Nat \ {0}
         /\ Sofar(next) \cup Holder!Chunk = Sofar(next + Holder!Concurrency)
         /\ Holder!Chunk \subseteq Holder!Set(mapped)
<1> DEFINE c == Holder!Concurrency
           l == Len(mapped)
<1>1. mode.lock_threads \in Nat /\ next \in Nat \ {0} /\ l \in Nat
  BY PathsAreFiles DEF HolderTypes
<1>2. c \in Nat \ {0}
  BY <1>1, OfTwo DEF Holder!Concurrency
<1> HIDE DEF c
<1> DEFINE m == Holder!Min({next + c - 1, l})
<1>3. m \in Int /\ m <= l /\ m <= next + c - 1 /\ (m = l \/ m = next + c - 1)
  <2>1. next + c - 1 \in Int /\ l \in Int
    BY <1>1, <1>2
  <2>2. PICK a \in Int, b \in Int : a = next + c - 1 /\ b = l
    BY <2>1
  <2>3. m = IF a <= b THEN a ELSE b
    BY <2>2, OfTwo
  <2> HIDE DEF l, m
  <2> QED
    BY <2>2, <2>3
<1>4. Holder!Chunk = {mapped[i] : i \in next .. m}
  BY DEF Holder!Chunk, c
<1> HIDE DEF m, l
<1>5. {k \in 1 .. l : k < next + c} = {k \in 1 .. l : k < next} \cup (next .. m)
  BY <1>1, <1>2, <1>3
<1>6. next .. m \subseteq 1 .. l
  BY <1>1, <1>3
<1>7. Holder!Set(mapped) = {mapped[i] : i \in 1 .. l}
  BY PathsAreFiles DEF l
<1>8. /\ Sofar(next) = {mapped[i] : i \in {k \in 1 .. l : k < next}}
      /\ Sofar(next + c) = {mapped[i] : i \in {k \in 1 .. l : k < next + c}}
  BY DEF Sofar, l
<1>9. Sofar(next + c) = Sofar(next) \cup Holder!Chunk
  BY <1>4, <1>5, <1>8
<1> QED
  BY <1>2, <1>4, <1>6, <1>7, <1>9 DEF c

\* The stages of a chunk.
LEMMA ChunkIsDrawn ==
  ASSUME NEW files, NEW chunk, chunk \subseteq files, Drawn(app, files)
  PROVE  LET b == [app EXCEPT !.stage = [p \in DOMAIN @ |-> IF p \in chunk THEN "locking" ELSE @[p]]] IN
         /\ Drawn(b, files)
         /\ b.warmup_complete = app.warmup_complete /\ b.all_locked = app.all_locked
         /\ b.failed_lock_files = app.failed_lock_files
         /\ \A q \in files : b.stage[q] = IF q \in chunk THEN "locking" ELSE app.stage[q]
<1> DEFINE b == [app EXCEPT !.stage = [p \in DOMAIN @ |-> IF p \in chunk THEN "locking" ELSE @[p]]]
<1>1. /\ b = [x \in AppFields |-> b[x]]
      /\ b.stage = [p \in DOMAIN app.stage |-> IF p \in chunk THEN "locking" ELSE app.stage[p]]
      /\ b.warmup_complete = app.warmup_complete /\ b.all_locked = app.all_locked
      /\ b.failed_lock_files = app.failed_lock_files
      /\ b.scroll_offset = app.scroll_offset /\ b.filter_input = app.filter_input
  BY DEF Drawn, AppFields
<1> HIDE DEF b
<1>2. /\ b.stage \in [files -> StageNames]
      /\ \A q \in files : b.stage[q] = IF q \in chunk THEN "locking" ELSE app.stage[q]
  BY <1>1 DEF Drawn, StageNames
<1>3. Drawn(b, files)
  BY <1>1, <1>2, StepIsDrawn DEF Drawn
<1> QED
  BY <1>1, <1>2, <1>3 DEF b

\* The worker starts a chunk of lock threads, or is through.
LEMMA LockChunkStep ==
  ASSUME HolderConstants, HolderInv, Holder!LockChunk
  PROVE  HolderInv'
<1> USE DEF HolderInv
<1>1. worker = "lock" /\ threads = {} /\ app.all_locked = FALSE /\ pinned \cup failed = Sofar(next)
  BY DEF Holder!LockChunk, LockInv, AppTypes, Drawn
<1>2. UNCHANGED <<mode, procs, faults, paths, mapped, pinned, locked, failed, should_exit, ui, keys, printed>>
  BY DEF Holder!LockChunk
<1>3. ExitInv'
  BY <1>2, ExitKept
<1>4. /\ Len(mapped) \in Nat /\ next \in Nat \ {0}
      /\ Holder!Set(mapped) = {mapped[i] : i \in 1 .. Len(mapped)} /\ Holder!Set(mapped) \subseteq Holder!Set(paths)
  BY PathsAreFiles DEF HolderTypes
<1>5. worker' \in {"join", "locked", "locking"} /\ PrintInv'
  <2>1. worker' \in {"join", "locked", "locking"}
    BY DEF Holder!LockChunk, Holder!GoTo
  <2> QED
    BY <1>1, <1>2, <2>1, PrintKept
<1>6. Sofar(next) \subseteq Holder!Set(mapped)
  BY <1>4 DEF Sofar
<1>7. CASE worker' \in {"join", "locked"}
  <2>1. /\ next' = 1 /\ UNCHANGED <<threads, app>>
        /\ worker' = "locked" => next > Len(mapped) \/ should_exit
    BY <1>1, <1>7 DEF Holder!LockChunk, Holder!GoTo, Holder!aborted
  <2>2. HolderTypes' /\ AppTypes'
    BY <1>1, <1>2, <1>7, <2>1 DEF HolderTypes, AppTypes
  <2>3. WorkInv'
    BY <1>2, <1>7, <2>1 DEF WorkInv
  <2>4. worker' = "locked" /\ ~should_exit => pinned \cup failed = Holder!Set(mapped)
    BY <1>1, <1>4, <2>1, SofarEnds
  <2>5. LockInv'
    BY <1>1, <1>2, <1>6, <1>7, <2>1, <2>4 DEF LockInv
  <2> QED
    BY <1>3, <1>5, <2>2, <2>3, <2>5
<1>8. CASE worker' = "locking"
  <2>1. /\ threads' = Holder!Chunk /\ UNCHANGED next
        /\ app' = IF ui = "panicked" THEN app
                  ELSE [app EXCEPT !.stage = [p \in DOMAIN @ |-> IF p \in Holder!Chunk THEN "locking" ELSE @[p]]]
    BY <1>1, <1>8 DEF Holder!LockChunk, Holder!GoTo
  <2>2. /\ Holder!Concurrency \in Nat \ {0} /\ Holder!Chunk \subseteq Holder!Set(mapped)
        /\ Sofar(next) \cup Holder!Chunk = Sofar(next + Holder!Concurrency)
    BY <1>1, ChunkAdds
  <2>3. /\ Drawn(app', Holder!Set(paths)) /\ app'.warmup_complete = app.warmup_complete
        /\ app'.all_locked = app.all_locked /\ app'.failed_lock_files = app.failed_lock_files
        /\ \A q \in Holder!Set(paths) : app'.stage[q] \in {"locking", app.stage[q]}
    <3>1. Drawn(app, Holder!Set(paths)) /\ Holder!Chunk \subseteq Holder!Set(paths)
      BY <1>4, <2>2 DEF AppTypes
    <3>2. CASE ui = "panicked"
      BY <2>1, <3>1, <3>2
    <3>3. CASE ui # "panicked"
      BY <2>1, <3>1, <3>3, ChunkIsDrawn
    <3> QED
      BY <3>2, <3>3
  <2>4. HolderTypes' /\ AppTypes'
    <3>1. Holder!Set(paths)' = Holder!Set(paths)
      BY <1>2
    <3>2. AppTypes'
      BY <2>3, <3>1 DEF AppTypes
    <3>3. HolderTypes'
      BY <1>1, <1>2, <1>8, <2>1 DEF HolderTypes
    <3> QED
      BY <3>2, <3>3
  <2>5. WorkInv'
    <3>1. ASSUME app.warmup_complete, NEW i \in 1 .. Len(mapped) PROVE app'.stage[mapped[i]] \in Warm
      <4>1. mapped[i] \in Holder!Set(paths) /\ app.stage[mapped[i]] \in Warm
        BY <1>4, <3>1 DEF WorkInv
      <4> QED
        BY <2>3, <4>1 DEF Warm
    <3> QED
      BY <1>2, <1>8, <2>3, <3>1 DEF WorkInv
  <2>6. LockInv'
    <3>1. (Sofar(next + Holder!Concurrency))' = Sofar(next + Holder!Concurrency)
      BY <1>2, <2>1 DEF Sofar, Holder!Concurrency
    <3>2. pinned \cup failed \cup threads' = Sofar(next + Holder!Concurrency)
      BY <1>1, <2>1, <2>2
    <3>3. ASSUME NEW q \in Holder!Set(paths), app'.stage[q] = "locked" PROVE q \in pinned
      BY <1>1, <2>3, <3>3 DEF LockInv
    <3>4. Holder!Set(paths)' = Holder!Set(paths)
      BY <1>2
    <3> QED
      BY <1>1, <1>2, <1>8, <2>3, <3>1, <3>2, <3>3, <3>4 DEF LockInv
  <2> QED
    BY <1>3, <1>5, <2>4, <2>5, <2>6
<1> QED
  BY <1>5, <1>7, <1>8

\* One lock thread.
LEMMA LockStep ==
  ASSUME HolderConstants, HolderInv, NEW p \in HeldFiles, Holder!Lock(p)
  PROVE  HolderInv'
<1> USE DEF HolderInv
<1>1. /\ worker = "locking" /\ p \in threads /\ threads' = threads \ {p}
      /\ pinned \cup failed \cup threads = Sofar(next + Holder!Concurrency)
  BY DEF Holder!Lock, LockInv
<1>2. UNCHANGED <<mode, procs, faults, paths, worker, next, mapped, should_exit, ui, keys, printed>>
  BY DEF Holder!Lock
<1>3. ExitInv' /\ HolderTypes' /\ PrintInv'
  <2>1. ExitInv'
    BY <1>2, ExitKept
  <2>2. HolderTypes'
    BY <1>2 DEF HolderTypes
  <2>3. PrintInv'
    BY <1>1, <1>2, PrintKept
  <2> QED
    BY <2>1, <2>2, <2>3
<1>4. p \in Holder!Set(paths) /\ Holder!Set(mapped) \subseteq Holder!Set(paths)
      /\ Holder!Set(mapped) = {mapped[i] : i \in 1 .. Len(mapped)}
  <2>1. /\ Holder!Set(mapped) \subseteq Holder!Set(paths)
        /\ Holder!Set(mapped) = {mapped[i] : i \in 1 .. Len(mapped)}
    BY PathsAreFiles
  <2>2. Sofar(next + Holder!Concurrency) \subseteq Holder!Set(mapped)
    BY <2>1 DEF Sofar
  <2> QED
    BY <1>1, <2>1, <2>2
<1>5. (Sofar(next + Holder!Concurrency))' = Sofar(next + Holder!Concurrency) /\ Holder!Set(paths)' = Holder!Set(paths)
  BY <1>2 DEF Sofar, Holder!Concurrency
<1>6. CASE faults[p] = "lock"
  <2>1. failed' = failed \cup {p} /\ UNCHANGED <<pinned, locked, app>>
    BY <1>6 DEF Holder!Lock
  <2>2. AppTypes' /\ WorkInv'
    BY <1>2, <2>1 DEF AppTypes, WorkInv
  <2>3. (pinned \cup failed \cup threads)' = pinned \cup failed \cup threads
    BY <1>1, <2>1
  <2>4. LockInv'
    BY <1>1, <1>2, <1>5, <1>6, <2>1, <2>3 DEF LockInv
  <2> QED
    BY <1>3, <2>2, <2>4
<1>7. CASE faults[p] # "lock"
  <2>1. pinned' = pinned \cup {p} /\ locked' = locked \cup {p} /\ app' = Holder!Stage(p, "locked") /\ UNCHANGED failed
    BY <1>7 DEF Holder!Lock
  <2>2. /\ Drawn(app', Holder!Set(paths)) /\ app'.warmup_complete = app.warmup_complete
        /\ app'.all_locked = app.all_locked /\ app'.failed_lock_files = app.failed_lock_files
        /\ \A q \in Holder!Set(paths) \ {p} : app'.stage[q] = app.stage[q]
        /\ app'.stage[p] \in {"locked", app.stage[p]}
    <3>1. Drawn(app, Holder!Set(paths)) /\ "locked" \in StageNames
      BY DEF AppTypes, StageNames
    <3>2. CASE ui = "panicked"
      BY <2>1, <3>1, <3>2 DEF Holder!Stage
    <3>3. CASE ui # "panicked"
      BY <1>4, <2>1, <3>1, <3>3, Restaged DEF Holder!Stage
    <3> QED
      BY <3>2, <3>3
  <2>3. AppTypes'
    BY <1>5, <2>2 DEF AppTypes
  <2>4. WorkInv'
    <3>1. ASSUME app.warmup_complete, NEW i \in 1 .. Len(mapped) PROVE app'.stage[mapped[i]] \in Warm
      <4>1. mapped[i] \in Holder!Set(paths) /\ app.stage[mapped[i]] \in Warm
        BY <1>4, <3>1 DEF WorkInv
      <4> QED
        BY <2>2, <4>1 DEF Warm
    <3> QED
      BY <1>1, <1>2, <2>2, <3>1 DEF WorkInv
  <2>5. LockInv'
    <3>1. (pinned \cup failed \cup threads)' = pinned \cup failed \cup threads
      BY <1>1, <2>1
    <3>2. ASSUME NEW q \in Holder!Set(paths), app'.stage[q] = "locked" PROVE q \in pinned'
      BY <1>1, <2>1, <2>2, <3>2 DEF LockInv
    <3> QED
      BY <1>1, <1>2, <1>5, <1>7, <2>1, <2>2, <3>1, <3>2 DEF LockInv
  <2> QED
    BY <1>3, <2>3, <2>4, <2>5
<1> QED
  BY <1>6, <1>7

\* The worker waits for the threads of a chunk.
LEMMA ChunkDoneStep ==
  ASSUME HolderConstants, HolderInv, Holder!ChunkDone
  PROVE  HolderInv'
<1> USE DEF HolderInv
<1>1. worker = "locking" /\ threads = {} /\ worker' = "lock" /\ next' = next + Holder!Concurrency
  BY DEF Holder!ChunkDone
<1>2. UNCHANGED <<mode, procs, faults, paths, mapped, threads, pinned, locked, failed, should_exit, ui, app, keys, printed>>
  BY DEF Holder!ChunkDone
<1>3. Holder!Concurrency \in Nat \ {0}
  BY <1>1, ChunkAdds
<1>4. next' \in Nat \ {0}
  BY <1>1, <1>3 DEF HolderTypes
<1>5. ExitInv' /\ PrintInv'
  BY <1>1, <1>2, ExitKept, PrintKept
<1>6. HolderTypes' /\ AppTypes'
  BY <1>1, <1>2, <1>4 DEF HolderTypes, AppTypes
<1>7. WorkInv'
  BY <1>1, <1>2 DEF WorkInv
<1>8. LockInv'
  <2>1. Sofar(next)' = Sofar(next + Holder!Concurrency)
    BY <1>1, <1>2 DEF Sofar
  <2> QED
    BY <1>1, <1>2, <2>1 DEF LockInv
<1> QED
  BY <1>5, <1>6, <1>7, <1>8

\* What is known after the last chunk.
LEMMA LockEndStep ==
  ASSUME HolderConstants, HolderInv, Holder!LockEnd
  PROVE  HolderInv'
<1> USE DEF HolderInv
<1>1. /\ worker = "locked" /\ worker' = "join" /\ next' = 1 /\ threads = {} /\ app.all_locked = FALSE
      /\ pinned \cup failed \subseteq Holder!Set(mapped)
      /\ ~should_exit => pinned \cup failed = Holder!Set(mapped)
      /\ locked = pinned /\ pinned \cap failed = {}
  BY DEF Holder!LockEnd, Holder!GoTo, LockInv, AppTypes, Drawn
<1>2. UNCHANGED <<mode, procs, faults, paths, mapped, threads, pinned, locked, failed, should_exit, ui, keys>>
  BY DEF Holder!LockEnd
<1>3. /\ app' = IF ~Holder!Tui \/ should_exit THEN app ELSE IF failed = {} THEN [app EXCEPT !.all_locked = TRUE]
                ELSE [app EXCEPT !.failed_lock_files = failed]
      /\ printed' = IF Holder!Tui THEN printed ELSE [line |-> "locked", locked |-> Holder!Bytes(locked), failed |-> failed]
  BY DEF Holder!LockEnd, Holder!aborted
<1>4. ExitInv'
  BY <1>2, ExitKept
<1>5. /\ Drawn(app', Holder!Set(paths)) /\ app'.warmup_complete = app.warmup_complete
      /\ app'.stage = app.stage /\ app'.failed_lock_files \subseteq failed
      /\ app'.all_locked => failed = {} /\ ~should_exit
  <2>1. Drawn(app, Holder!Set(paths)) /\ app.failed_lock_files \subseteq failed
    BY DEF AppTypes, LockInv
  <2>2. CASE ~Holder!Tui \/ should_exit
    BY <1>1, <1>3, <2>1, <2>2
  <2>3. CASE ~(~Holder!Tui \/ should_exit) /\ failed = {}
    <3>1. /\ app' = [x \in AppFields |-> app'[x]] /\ app'.stage = app.stage /\ app'.warmup_complete = app.warmup_complete
          /\ app'.all_locked = TRUE /\ app'.failed_lock_files = app.failed_lock_files
          /\ app'.scroll_offset = app.scroll_offset /\ app'.filter_input = app.filter_input
      BY <1>3, <2>1, <2>3 DEF Drawn, AppFields
    <3>2. Drawn(app', Holder!Set(paths))
      <4>1. app'.stage \in [Holder!Set(paths) -> StageNames] /\ app'.warmup_complete \in BOOLEAN /\ app'.all_locked \in BOOLEAN
        BY <2>1, <3>1 DEF Drawn
      <4> QED
        BY <2>1, <3>1, <4>1, StepIsDrawn
    <3> QED
      BY <2>1, <2>3, <3>1, <3>2
  <2>4. CASE ~(~Holder!Tui \/ should_exit) /\ failed # {}
    <3>1. /\ app' = [x \in AppFields |-> app'[x]] /\ app'.stage = app.stage /\ app'.warmup_complete = app.warmup_complete
          /\ app'.all_locked = app.all_locked /\ app'.failed_lock_files = failed
          /\ app'.scroll_offset = app.scroll_offset /\ app'.filter_input = app.filter_input
      BY <1>3, <2>1, <2>4 DEF Drawn, AppFields
    <3>2. Drawn(app', Holder!Set(paths))
      <4>1. app'.stage \in [Holder!Set(paths) -> StageNames] /\ app'.warmup_complete \in BOOLEAN /\ app'.all_locked \in BOOLEAN
        BY <2>1, <3>1 DEF Drawn
      <4> QED
        BY <2>1, <3>1, <4>1, StepIsDrawn
    <3> QED
      BY <1>1, <3>1, <3>2
  <2> QED
    BY <2>2, <2>3, <2>4
<1>6. HolderTypes' /\ AppTypes'
  <2>1. Holder!Set(paths)' = Holder!Set(paths) /\ next' \in Nat \ {0}
    BY <1>1, <1>2
  <2>2. AppTypes'
    BY <1>5, <2>1 DEF AppTypes
  <2>3. HolderTypes'
    BY <1>1, <1>2, <2>1 DEF HolderTypes
  <2> QED
    BY <2>2, <2>3
<1>7. WorkInv'
  BY <1>1, <1>2, <1>5 DEF WorkInv
<1>8. LockInv'
  <2>1. Holder!Set(mapped)' = Holder!Set(mapped) /\ Holder!Set(paths)' = Holder!Set(paths)
    BY <1>2
  <2>2. app'.all_locked => pinned = Holder!Set(mapped)
    BY <1>1, <1>5
  <2> QED
    BY <1>1, <1>2, <1>5, <2>1, <2>2 DEF LockInv
<1>9. PrintInv'
  <2>1. CASE Holder!Tui
    <3>1. UNCHANGED printed
      BY <1>3, <2>1
    <3> QED
      BY <1>1, <3>1, PrintKept
  <2>2. CASE ~Holder!Tui
    <3>1. printed' = [line |-> "locked", locked |-> Holder!Bytes(locked), failed |-> failed]
      BY <1>3, <2>2
    <3>2. printed'.line = "locked" /\ printed'.locked = Holder!Bytes(locked) /\ printed'.failed = failed
      BY <3>1
    <3>3. failed = Holder!Set(mapped) \ pinned
      BY <1>1, <2>2 DEF ExitInv
    <3>4. Holder!Bytes(pinned)' = Holder!Bytes(locked) /\ Holder!Set(mapped)' = Holder!Set(mapped) /\ ~Holder!Tui'
      BY <1>1, <1>2, <2>2 DEF Holder!Bytes, Holder!Tui
    <3> QED
      BY <1>1, <1>2, <3>2, <3>3, <3>4 DEF PrintInv
  <2> QED
    BY <2>1, <2>2
<1> QED
  BY <1>4, <1>6, <1>7, <1>8, <1>9

\* A list without repetitions has as many files as it is long.
LEMMA MappedCount ==
  ASSUME HolderConstants, HolderTypes
  PROVE  Cardinality(Holder!Set(mapped)) = Len(mapped) /\ (Holder!Set(mapped) = {} <=> mapped = <<>>)
<1> DEFINE S == Holder!Set(mapped)
<1>1. /\ S = {mapped[i] : i \in 1 .. Len(mapped)} /\ S \subseteq HeldFiles /\ Len(mapped) \in Nat
      /\ mapped \in Seq(HeldFiles)
  BY PathsAreFiles
<1>2. mapped \in Bijection(1 .. Len(mapped), S)
  <2>1. mapped \in [1 .. Len(mapped) -> S]
    BY <1>1
  <2>2. \A i, j \in 1 .. Len(mapped) : mapped[i] = mapped[j] => i = j
    BY DEF HolderTypes, Distinct
  <2>3. \A p \in S : \E i \in 1 .. Len(mapped) : mapped[i] = p
    BY <1>1
  <2> HIDE DEF S
  <2> QED
    BY <2>1, <2>2, <2>3 DEF Bijection, Injection, Surjection, IsInjective
<1>3. Cardinality(1 .. Len(mapped)) = Len(mapped) /\ IsFiniteSet(1 .. Len(mapped))
  BY <1>1, FS_Interval
<1>4. Cardinality(S) = Len(mapped)
  <2> HIDE DEF S
  <2> QED
    BY <1>2, <1>3, FS_Bijection DEF ExistsBijection
<1>5. S = {} <=> mapped = <<>>
  <2>1. CASE mapped = <<>>
    BY <1>1, <2>1
  <2>2. CASE mapped # <<>>
    <3>1. Len(mapped) # 0
      BY <1>1, <2>2
    <3>2. 1 \in 1 .. Len(mapped)
      BY <1>1, <3>1
    <3> QED
      BY <1>1, <2>2, <3>2
  <2> QED
    BY <2>1, <2>2
<1> QED
  BY <1>4, <1>5

\* The mappings are dropped, and the summary printed.
LEMMA ReleaseStep ==
  ASSUME HolderConstants, HolderInv, Holder!Release
  PROVE  HolderInv'
<1> USE DEF HolderInv
<1>1. /\ worker = "join" /\ worker' = "done" /\ mapped' = <<>> /\ pinned' = {} /\ threads = {}
      /\ locked = pinned /\ pinned \subseteq Holder!Set(mapped)
  BY DEF Holder!Release, LockInv
<1>2. UNCHANGED <<mode, procs, faults, paths, next, threads, locked, failed, should_exit, ui, app, keys>>
  BY DEF Holder!Release
<1>3. ExitInv'
  BY <1>2, ExitKept
<1>4. HolderTypes' /\ AppTypes'
  BY <1>1, <1>2 DEF HolderTypes, AppTypes, Distinct
<1>5. WorkInv'
  BY <1>1, <1>2 DEF WorkInv
<1>6. LockInv'
  BY <1>1, <1>2 DEF LockInv
<1>7. PrintInv'
  <2>1. CASE ~Holder!Tui
    <3>1. printed'.line = "released"
      BY <2>1 DEF Holder!Release
    <3>2. ~Holder!Tui'
      BY <1>2, <2>1 DEF Holder!Tui
    <3> QED
      BY <1>1, <3>1, <3>2 DEF PrintInv
  <2>2. CASE Holder!Tui /\ mapped = <<>>
    <3>1. printed'.line = "nothing mapped"
      BY <2>2 DEF Holder!Release
    <3> QED
      BY <1>1, <3>1 DEF PrintInv
  <2>3. CASE Holder!Tui /\ mapped # <<>>
    <3> DEFINE l == Holder!Bytes(locked)
               all == Holder!Bytes(Holder!Set(mapped))
               some == CASE l = 0 -> "nothing" [] l > 0 /\ l = all -> "all" [] OTHER -> "some"
    <3>1. /\ printed'.line = "released" /\ printed'.count = Len(mapped) /\ printed'.locked = some
      BY <2>3 DEF Holder!Release
    <3>2. Holder!Set(mapped) \subseteq HeldFiles
      BY PathsAreFiles
    <3>3. /\ l \in Nat /\ all \in Nat /\ (l = all <=> Cardinality(locked) = Cardinality(Holder!Set(mapped)))
          /\ l = 0 <=> locked = {}
      BY <1>1, <3>2, FewerFilesFewerBytes
    <3>4. /\ Cardinality(Holder!Set(mapped)) = Len(mapped) /\ Holder!Set(mapped) # {} /\ Len(mapped) \in Nat
      BY <2>3, MappedCount, PathsAreFiles
    <3>5. Len(mapped) # 0 /\ Cardinality({}) = 0
      BY <2>3, <3>4, FS_EmptySet DEF HolderTypes
    <3> HIDE DEF l, all
    <3>6. some = "all" <=> l > 0 /\ l = all
      BY <3>3
    <3>7. some = "all" <=> Cardinality(locked) = Len(mapped)
      <4>1. CASE l = 0
        BY <3>3, <3>4, <3>5, <3>6, <4>1
      <4>2. CASE l > 0
        BY <3>3, <3>4, <3>6, <4>2
      <4> QED
        BY <3>3, <4>1, <4>2
    <3>8. Holder!Cardinality(locked)' = Cardinality(locked)
      BY <1>2 DEF Holder!Cardinality, Cardinality, Holder!IsFiniteSet, IsFiniteSet
    <3> HIDE DEF some
    <3>9. (printed'.locked = "all") = (printed'.count = Holder!Cardinality(locked)')
      BY <3>1, <3>7, <3>8
    <3> QED
      BY <1>1, <3>1, <3>9 DEF PrintInv
  <2> QED
    BY <2>1, <2>2, <2>3
<1> QED
  BY <1>3, <1>4, <1>5, <1>6, <1>7

\* What a key may do to the state drawn: the list moves, the work does not.
Tapped(a, b) ==
  /\ b = [x \in AppFields |-> b[x]]
  /\ b.stage = a.stage /\ b.warmup_complete = a.warmup_complete /\ b.all_locked = a.all_locked
  /\ b.failed_lock_files = a.failed_lock_files
  /\ \/ b.scroll_offset = 0
     \/ b.filter_input = a.filter_input /\ b.scroll_offset \in Nat /\ b.scroll_offset <= Holder!MaxOffset(a)

\* The keys that move the list keep it within what the filter leaves.
LEMMA Scrolls ==
  ASSUME HolderConstants, NEW files, files \subseteq HeldFiles, NEW a, Drawn(a, files)
  PROVE  /\ Tapped(a, a) /\ Tapped(a, Holder!scroll_down(a)) /\ Tapped(a, Holder!scroll_up(a))
         /\ Tapped(a, Holder!scroll_page_down(a)) /\ Tapped(a, Holder!scroll_page_up(a))
<1> DEFINE m == Holder!MaxOffset(a)
<1>1. m \in Nat
  BY OffsetsExist DEF Drawn
<1>2. a.scroll_offset \in Nat /\ a.scroll_offset <= m /\ a = [x \in AppFields |-> a[x]]
  BY DEF Drawn
<1>3. Tapped(a, a)
  BY <1>2 DEF Tapped
<1>4. ASSUME NEW n \in Nat, n <= m, NEW b, b = [a EXCEPT !.scroll_offset = n] PROVE Tapped(a, b)
  <2>1. /\ b = [x \in AppFields |-> b[x]] /\ b.stage = a.stage /\ b.warmup_complete = a.warmup_complete
        /\ b.all_locked = a.all_locked /\ b.failed_lock_files = a.failed_lock_files
        /\ b.filter_input = a.filter_input /\ b.scroll_offset = n
    BY <1>2, <1>4 DEF AppFields
  <2> QED
    BY <1>4, <2>1 DEF Tapped
<1> HIDE DEF m
<1>5. Tapped(a, Holder!scroll_down(a))
  <2> DEFINE n == IF a.scroll_offset < m THEN a.scroll_offset + 1 ELSE a.scroll_offset
  <2>1. n \in Nat /\ n <= m
    BY <1>1, <1>2
  <2>2. Holder!scroll_down(a) = [a EXCEPT !.scroll_offset = n]
    BY DEF Holder!scroll_down, m
  <2> HIDE DEF n
  <2> QED
    BY <1>4, <2>1, <2>2
<1>6. Tapped(a, Holder!scroll_up(a))
  <2> DEFINE n == IF a.scroll_offset > 0 THEN a.scroll_offset - 1 ELSE a.scroll_offset
  <2>1. n \in Nat /\ n <= m
    BY <1>1, <1>2
  <2>2. Holder!scroll_up(a) = [a EXCEPT !.scroll_offset = n]
    BY DEF Holder!scroll_up
  <2> HIDE DEF n
  <2> QED
    BY <1>4, <2>1, <2>2
<1>7. Tapped(a, Holder!scroll_page_down(a))
  <2> DEFINE t == a.scroll_offset + 10
             n == Holder!Min({t, m})
  <2>1. t \in Int /\ m \in Int /\ t \in Nat
    BY <1>1, <1>2
  <2>2. n = IF t <= m THEN t ELSE m
    <3> HIDE DEF t
    <3> QED
      BY <2>1, OfTwo
  <2>3. n \in Nat /\ n <= m
    <3> HIDE DEF n, t
    <3> QED
      BY <1>1, <2>1, <2>2
  <2>4. Holder!scroll_page_down(a) = [a EXCEPT !.scroll_offset = n]
    BY DEF Holder!scroll_page_down, m
  <2> HIDE DEF n
  <2> QED
    BY <1>4, <2>3, <2>4
<1>8. Tapped(a, Holder!scroll_page_up(a))
  <2> DEFINE t == a.scroll_offset - 10
             n == Holder!Max({t, 0})
  <2>1. t \in Int /\ t <= m
    BY <1>1, <1>2
  <2>2. n = IF t >= 0 THEN t ELSE 0
    <3> HIDE DEF t
    <3> QED
      BY <2>1, OfTwo
  <2>3. n \in Nat /\ n <= m
    <3> HIDE DEF n, t
    <3> QED
      BY <1>1, <2>1, <2>2
  <2>4. Holder!scroll_page_up(a) = [a EXCEPT !.scroll_offset = n]
    BY DEF Holder!scroll_page_up
  <2> HIDE DEF n
  <2> QED
    BY <1>4, <2>3, <2>4
<1> QED
  BY <1>3, <1>5, <1>6, <1>7, <1>8

\* Every key of the prompt and of the list does no more than that.
LEMMA KeysTap ==
  ASSUME HolderConstants, NEW files, files \subseteq HeldFiles, NEW a, Drawn(a, files), NEW key
  PROVE  /\ Tapped(a, Holder!FilterKey(a, key)) /\ Tapped(a, Holder!ListKey(a, key))
         /\ Tapped(a, [a EXCEPT !.show_help = key \notin {"h", "esc", "q", "ctrl-c"}])
<1>1. /\ a.scroll_offset \in Nat /\ a.scroll_offset <= Holder!MaxOffset(a) /\ a = [x \in AppFields |-> a[x]]
  BY DEF Drawn
<1>2. ASSUME NEW b, b = [x \in AppFields |-> b[x]],
             \A x \in {"stage", "warmup_complete", "all_locked", "failed_lock_files"} : b[x] = a[x],
             b.scroll_offset = 0 \/ (b.filter_input = a.filter_input /\ b.scroll_offset = a.scroll_offset)
      PROVE  Tapped(a, b)
  BY <1>1, <1>2 DEF Tapped
<1>3. Tapped(a, Holder!FilterKey(a, key))
  <2> DEFINE b == Holder!FilterKey(a, key)
  <2>1. CASE key = "ctrl-c"
    <3>1. b = [a EXCEPT !.filter_mode = FALSE, !.filter_input = <<>>, !.scroll_offset = 0]
      BY <2>1 DEF Holder!FilterKey, Holder!Letters
    <3> QED
      BY <1>1, <1>2, <3>1 DEF AppFields
  <2>2. CASE key = "enter"
    <3>1. b = [a EXCEPT !.filter_mode = FALSE, !.scroll_offset = 0]
      BY <2>2 DEF Holder!FilterKey, Holder!Letters
    <3> QED
      BY <1>1, <1>2, <3>1 DEF AppFields
  <2>3. CASE key = "esc"
    <3>1. b = [a EXCEPT !.filter_mode = FALSE]
      BY <2>3 DEF Holder!FilterKey, Holder!Letters
    <3> QED
      BY <1>1, <1>2, <3>1 DEF AppFields
  <2>4. CASE key = "backspace"
    <3>1. PICK f : b = [a EXCEPT !.filter_input = f, !.scroll_offset = 0]
      BY <2>4 DEF Holder!FilterKey, Holder!Letters
    <3> QED
      BY <1>1, <1>2, <3>1 DEF AppFields
  <2>5. CASE key \in Holder!Letters
    <3>1. PICK f : b = [a EXCEPT !.filter_input = f, !.scroll_offset = 0]
      BY <2>5 DEF Holder!FilterKey, Holder!Letters
    <3> QED
      BY <1>1, <1>2, <3>1 DEF AppFields
  <2>6. CASE key \notin Holder!Letters \cup {"ctrl-c", "enter", "esc", "backspace"}
    <3>1. b = a
      BY <2>6 DEF Holder!FilterKey
    <3> QED
      BY <1>1, <1>2, <3>1
  <2> QED
    BY <2>1, <2>2, <2>3, <2>4, <2>5, <2>6
<1>4. Tapped(a, Holder!ListKey(a, key))
  <2> DEFINE b == Holder!ListKey(a, key)
  <2>1. CASE key \in {"down", "up", "space", "page-up"}
    <3>1. b \in {Holder!scroll_down(a), Holder!scroll_up(a), Holder!scroll_page_down(a), Holder!scroll_page_up(a)}
      BY <2>1 DEF Holder!ListKey
    <3> QED
      BY <3>1, Scrolls
  <2>2. CASE key \in {"s", "p", "d"}
    <3>1. PICK s : b = [a EXCEPT !.sort_by = s]
      BY <2>2 DEF Holder!ListKey
    <3> QED
      BY <1>1, <1>2, <3>1 DEF AppFields
  <2>3. CASE key = "/"
    <3>1. b = [a EXCEPT !.filter_mode = TRUE]
      BY <2>3 DEF Holder!ListKey
    <3> QED
      BY <1>1, <1>2, <3>1 DEF AppFields
  <2>4. CASE key = "x"
    <3>1. b = [a EXCEPT !.filter_input = <<>>, !.scroll_offset = 0]
      BY <2>4 DEF Holder!ListKey
    <3> QED
      BY <1>1, <1>2, <3>1 DEF AppFields
  <2>5. CASE key = "h"
    <3>1. b = [a EXCEPT !.show_help = TRUE]
      BY <2>5 DEF Holder!ListKey
    <3> QED
      BY <1>1, <1>2, <3>1 DEF AppFields
  <2>6. CASE key \notin {"down", "up", "space", "page-up", "s", "p", "d", "/", "x", "h"}
    <3>1. b = a
      BY <2>6 DEF Holder!ListKey
    <3> QED
      BY <1>1, <1>2, <3>1
  <2> QED
    BY <2>1, <2>2, <2>3, <2>4, <2>5, <2>6
<1>5. Tapped(a, [a EXCEPT !.show_help = key \notin {"h", "esc", "q", "ctrl-c"}])
  <2>1. PICK s : s = (key \notin {"h", "esc", "q", "ctrl-c"})
    OBVIOUS
  <2> DEFINE b == [a EXCEPT !.show_help = s]
  <2>2. Tapped(a, b)
    BY <1>1, <1>2 DEF AppFields
  <2> QED
    BY <2>1, <2>2
<1> QED
  BY <1>3, <1>4, <1>5

\* A key: what is mapped, warmed and locked is as before.
LEMMA KeyStep ==
  ASSUME HolderConstants, HolderInv, NEW key \in Holder!Keys, Holder!Key(key)
  PROVE  HolderInv'
<1> USE DEF HolderInv
<1>1. UNCHANGED <<mode, procs, faults, paths, worker, next, mapped, threads, pinned, locked, failed, ui, printed>>
  BY DEF Holder!Key
<1>2. ui = "running" /\ ~should_exit /\ should_exit' \in BOOLEAN
  <2>1. ui = "running" /\ ~should_exit
    BY DEF Holder!Key
  <2>2. should_exit' = TRUE \/ should_exit' = should_exit
    BY DEF Holder!Key
  <2> QED
    BY <2>1, <2>2 DEF HolderTypes
<1>3. Holder!Set(paths) \subseteq HeldFiles /\ Drawn(app, Holder!Set(paths))
  BY PathsAreFiles DEF AppTypes
<1>4. Tapped(app, app')
  <2>1. \/ app' = Holder!FilterKey(app, key) \/ app' = Holder!ListKey(app, key) \/ app' = app
        \/ app' = [app EXCEPT !.show_help = key \notin {"h", "esc", "q", "ctrl-c"}]
    BY DEF Holder!Key
  <2> QED
    BY <1>3, <2>1, KeysTap, Scrolls
<1>5. Drawn(app', Holder!Set(paths))
  <2> DEFINE S == Holder!Set(paths)
  <2>1. S \subseteq HeldFiles /\ Drawn(app, S)
    BY <1>3
  <2> HIDE DEF S
  <2>2. Drawn(app', S)
    BY <1>4, <2>1, KeyIsDrawn DEF Tapped
  <2> QED
    BY <2>2 DEF S
<1>6. /\ app'.stage = app.stage /\ app'.warmup_complete = app.warmup_complete /\ app'.all_locked = app.all_locked
      /\ app'.failed_lock_files = app.failed_lock_files
  BY <1>4 DEF Tapped
<1>7. Holder!Set(paths)' = Holder!Set(paths) /\ Holder!Set(mapped)' = Holder!Set(mapped)
  BY <1>1
<1>8. HolderTypes'
  BY <1>1, <1>2, <1>7 DEF HolderTypes
<1>9. AppTypes'
  BY <1>5, <1>7 DEF AppTypes
<1>10. ExitInv'
  BY <1>1, <1>2 DEF ExitInv, Holder!Tui
<1>11. WorkInv'
  BY <1>1, <1>6 DEF WorkInv
<1>12. LockInv'
  <2>1. Sofar(next)' = Sofar(next) /\ Sofar(next + Holder!Concurrency)' = Sofar(next + Holder!Concurrency)
    BY <1>1 DEF Sofar, Holder!Concurrency
  <2> QED
    BY <1>1, <1>2, <1>6, <1>7, <2>1 DEF LockInv
<1>13. PrintInv'
  BY <1>1, PrintStays
<1> QED
  BY <1>8, <1>9, <1>10, <1>11, <1>12, <1>13

\* The UI thread ends, because it was told to or by a panic.
LEMMA UiStep ==
  ASSUME HolderConstants, HolderInv, Holder!UiLeaves \/ Holder!UiPanics
  PROVE  HolderInv'
<1> USE DEF HolderInv
<1>1. UNCHANGED <<mode, procs, faults, paths, worker, next, mapped, threads, pinned, locked, failed, app, printed>>
  BY DEF Holder!UiLeaves, Holder!UiPanics
<1>2. /\ ui = "running" /\ should_exit' \in BOOLEAN /\ should_exit' = TRUE /\ ui' # "none"
  <2>1. CASE Holder!UiLeaves
    BY <2>1 DEF Holder!UiLeaves, HolderTypes
  <2>2. CASE Holder!UiPanics
    BY <2>2 DEF Holder!UiPanics
  <2> QED
    BY <2>1, <2>2
<1>3. HolderTypes'
  BY <1>1, <1>2 DEF HolderTypes
<1>4. AppTypes'
  BY <1>1 DEF AppTypes
<1>5. ExitInv'
  BY <1>1, <1>2 DEF ExitInv, Holder!Tui
<1>6. WorkInv'
  BY <1>1 DEF WorkInv
<1>7. LockInv'
  <2>1. Sofar(next)' = Sofar(next) /\ Sofar(next + Holder!Concurrency)' = Sofar(next + Holder!Concurrency)
    BY <1>1 DEF Sofar, Holder!Concurrency
  <2> QED
    BY <1>1, <1>2, <2>1 DEF LockInv
<1>8. PrintInv'
  BY <1>1, PrintStays
<1> QED
  BY <1>3, <1>4, <1>5, <1>6, <1>7, <1>8

\* The files of a process: an inode that is none of its model files has a region whose
\* name is not a model file's.
LEMMA ModelsAreTold ==
  ASSUME HolderTypes, NEW k \in {"holder", "server"}
  PROVE  Told(Holder!Models(procs[k]), k)
<1> DEFINE R == procs[k].regions
           F == Holder!aggregate_maps(R)
           M == Holder!Models(procs[k])
<1>1. PICK n \in Nat : R \in [1 .. n -> Holder!Regions]
  <2>1. procs[k] \in Process
    BY DEF HolderTypes
  <2>2. R \in UNION {[1 .. n -> Holder!Regions] : n \in Nat}
    BY <2>1 DEF Process
  <2> QED
    BY <2>2
<1>2. Holder!Set(R) = {R[i] : i \in 1 .. n}
  BY <1>1 DEF Holder!Set, Holder!Range
<1>3. CASE procs[k].access # "ok"
  <2>1. DOMAIN M = {}
    BY <1>3 DEF Holder!Models
  <2> QED
    BY <2>1 DEF Told
<1>4. CASE procs[k].access = "ok"
  <2>1. DOMAIN M = {i \in DOMAIN F : Holder!IsModelFile(F[i])}
    BY <1>4 DEF Holder!Models
  <2>2. DOMAIN F = {r.inode : r \in Holder!Set(R)}
    BY DEF Holder!aggregate_maps
  <2>3. ASSUME NEW inode \in DOMAIN F
        PROVE  \E s : F[inode] = [R[Holder!Min({i \in DOMAIN R : R[i].inode = inode})] EXCEPT !.size = s]
    BY <2>2 DEF Holder!aggregate_maps
  <2>4. ASSUME NEW r \in Holder!Set(R), r.inode \notin DOMAIN M
        PROVE  \E q \in Holder!Set(R) : q.inode = r.inode /\ ~Holder!IsModelFile(q)
    <3> DEFINE own == {i \in DOMAIN R : R[i].inode = r.inode}
               q == R[Holder!Min(own)]
    <3>1. own \subseteq Nat /\ own # {}
      BY <1>1, <1>2
    <3>2. Holder!Min(own) \in own
      <4> HIDE DEF own
      <4> QED
        BY <3>1, LeastIsIn
    <3>3. q \in Holder!Set(R) /\ q.inode = r.inode /\ q \in Holder!Regions
      BY <1>1, <1>2, <3>2
    <3>4. r.inode \in DOMAIN F /\ ~Holder!IsModelFile(F[r.inode])
      BY <2>1, <2>2, <2>4
    <3>5. PICK s : F[r.inode] = [q EXCEPT !.size = s]
      BY <2>3, <3>4
    <3> HIDE DEF q, F, R
    <3>6. F[r.inode].ext = q.ext
      BY <3>3, <3>5 DEF Holder!Regions
    <3> QED
      BY <3>3, <3>4, <3>6 DEF Holder!IsModelFile
  <2> QED
    BY <2>4 DEF Told
<1> QED
  BY <1>3, <1>4

\* The steps of `check`: nothing is mapped here, and what is printed is what was read.
LEMMA CheckStep ==
  ASSUME HolderConstants, HolderInv,
         \/ Holder!Find \/ Holder!Compare
         \/ \E kind \in {"holder", "server"} : Holder!ReadMaps(kind) \/ Holder!Exits(kind)
  PROVE  HolderInv'
<1> USE DEF HolderInv
<1>1. /\ UNCHANGED <<mode, faults, paths, next, mapped, threads, pinned, locked, failed, should_exit, ui, app>>
      /\ worker \in {"find", "read"} /\ worker' \in {"read", "done"}
  BY DEF Holder!Find, Holder!Compare, Holder!ReadMaps, Holder!Exits
<1>2. /\ procs' \in [holder : Process, server : Process, read : SUBSET {"holder", "server"}]
      /\ \A k \in {"holder", "server"} : procs'[k].regions = procs[k].regions
  <2>1. CASE Holder!Find \/ Holder!Compare
    BY <2>1 DEF Holder!Find, Holder!Compare, HolderTypes
  <2>2. ASSUME NEW kind \in {"holder", "server"}, Holder!ReadMaps(kind) PROVE <1>2
    BY <2>2 DEF Holder!ReadMaps, HolderTypes
  <2>3. ASSUME NEW kind \in {"holder", "server"}, Holder!Exits(kind) PROVE <1>2
    <3>1. procs' = [procs EXCEPT ![kind].access = "gone"]
      BY <2>3 DEF Holder!Exits
    <3>2. procs[kind] \in Process /\ [procs[kind] EXCEPT !.access = "gone"] \in Process
      BY DEF HolderTypes, Process
    <3>3. [procs[kind] EXCEPT !.access = "gone"].regions = procs[kind].regions
      BY <3>2 DEF Process
    <3>4. PICK p \in Process : procs' = [procs EXCEPT ![kind] = p] /\ p.regions = procs[kind].regions
      BY <3>1, <3>2, <3>3
    <3> QED
      BY <3>4 DEF HolderTypes
  <2> QED
    BY <2>1, <2>2, <2>3
<1>3. HolderTypes'
  BY <1>1, <1>2 DEF HolderTypes
<1>4. AppTypes' /\ ExitInv'
  BY <1>1, ExitKept DEF AppTypes
<1>5. WorkInv'
  BY <1>1 DEF WorkInv
<1>6. LockInv'
  BY <1>1 DEF LockInv
<1>7. PrintInv'
  <2>1. CASE Holder!Find
    <3>1. CASE worker' = "done"
      <4>1. printed' = [line |-> "none found"] \/ printed' = [line |-> "error"]
        BY <2>1, <3>1 DEF Holder!Find
      <4>2. CASE printed' = [line |-> "none found"]
        BY <3>1, <4>2 DEF PrintInv
      <4>3. CASE printed' = [line |-> "error"]
        BY <3>1, <4>3 DEF PrintInv
      <4> QED
        BY <4>1, <4>2, <4>3
    <3>2. CASE worker' = "read"
      <4>1. UNCHANGED <<printed, procs>> /\ worker = "find"
        BY <2>1, <3>2 DEF Holder!Find
      <4>2. procs.read = {}
        BY <4>1 DEF HolderTypes
      <4> QED
        BY <1>1, <3>2, <4>1, <4>2 DEF PrintInv
    <3> QED
      BY <1>1, <3>1, <3>2
  <2>2. CASE Holder!Compare
    <3> DEFINE H == DOMAIN printed.holder
               S == DOMAIN printed.server
    <3>1. /\ worker = "read" /\ worker' = "done" /\ procs.read = {"holder", "server"}
          /\ Told(printed.holder, "holder") /\ Told(printed.server, "server")
      BY <2>2 DEF Holder!Compare, PrintInv
    <3>2. CASE H \cup S = {}
      <4>1. printed' = [line |-> "nothing"]
        BY <2>2, <3>2 DEF Holder!Compare
      <4>2. printed'.line = "nothing"
        BY <4>1
      <4> QED
        BY <3>1, <4>2 DEF PrintInv
    <3>3. CASE H \cup S # {}
      <4>1. PICK m, u, c, v : /\ printed' = [line |-> "compared", shared |-> H \cap S, mismatched |-> m,
                                              unused |-> u, uncached |-> c, verdict |-> v]
                              /\ v # None => H = S
        BY <2>2, <3>3 DEF Holder!Compare
      <4>2. printed'.line = "compared" /\ printed'.shared = H \cap S /\ (printed'.verdict # None => H = S)
        BY <4>1
      <4>3. ASSUME printed'.verdict # None, NEW k \in {"holder", "server"}, NEW r \in Holder!Set(procs[k].regions),
                   r.inode \notin printed'.shared
            PROVE  \E q \in Holder!Set(procs[k].regions) : q.inode = r.inode /\ ~Holder!IsModelFile(q)
        <5>1. H = S /\ H # {} /\ r.inode \notin H /\ r.inode \notin S
          BY <3>3, <4>2, <4>3
        <5> QED
          BY <3>1, <4>3, <5>1 DEF Told
      <4>4. \A k \in {"holder", "server"} : Holder!Set(procs[k].regions)' = Holder!Set(procs[k].regions)
        BY <1>2
      <4> QED
        BY <3>1, <4>2, <4>3, <4>4 DEF PrintInv
    <3> QED
      BY <3>2, <3>3
  <2>3. ASSUME NEW kind \in {"holder", "server"}, Holder!ReadMaps(kind) PROVE PrintInv'
    <3>1. /\ worker = "read" /\ worker' = "read" /\ (kind = "server" => "holder" \in procs.read)
          /\ procs'.read = procs.read \cup {kind} /\ kind \notin procs.read
      BY <2>3 DEF Holder!ReadMaps, HolderTypes
    <3>2. CASE kind = "holder"
      <4>1. printed' = [line |-> "reading", holder |-> Holder!Models(procs.holder)]
        BY <2>3, <3>2 DEF Holder!ReadMaps
      <4>2. printed'.line = "reading" /\ printed'.holder = Holder!Models(procs["holder"])
        BY <4>1
      <4>3. Told(printed.holder, "holder")'
        <5>1. Told(Holder!Models(procs["holder"]), "holder")
          BY ModelsAreTold
        <5> QED
          BY <1>2, <4>2, <5>1 DEF Told
      <4>4. "server" \notin procs'.read
        BY <3>1, <3>2 DEF PrintInv
      <4> QED
        BY <4>2, <4>3, <4>4 DEF PrintInv
    <3>3. CASE kind = "server"
      <4>1. printed' = [line |-> "maps", holder |-> printed.holder, server |-> Holder!Models(procs.server)]
        BY <2>3, <3>3 DEF Holder!ReadMaps
      <4>2. /\ printed'.line = "maps" /\ printed'.holder = printed.holder
            /\ printed'.server = Holder!Models(procs["server"])
        BY <4>1
      <4>3. Told(printed.holder, "holder")'
        <5>1. Told(printed.holder, "holder")
          BY <3>1, <3>3 DEF PrintInv
        <5> QED
          BY <1>2, <4>2, <5>1 DEF Told
      <4>4. Told(printed.server, "server")'
        <5>1. Told(Holder!Models(procs["server"]), "server")
          BY ModelsAreTold
        <5> QED
          BY <1>2, <4>2, <5>1 DEF Told
      <4>5. "holder" \in procs'.read
        BY <3>1, <3>3
      <4> QED
        BY <4>2, <4>3, <4>4, <4>5 DEF PrintInv
    <3> QED
      BY <3>2, <3>3
  <2>4. ASSUME NEW kind \in {"holder", "server"}, Holder!Exits(kind) PROVE PrintInv'
    <3>1. UNCHANGED <<printed, worker>> /\ worker = "read" /\ procs'.read = procs.read
      BY <2>4 DEF Holder!Exits, HolderTypes
    <3>2. \A k \in {"holder", "server"} : Holder!Set(procs[k].regions)' = Holder!Set(procs[k].regions)
      BY <1>2
    <3>3. (Told(printed.holder, "holder") => Told(printed.holder, "holder")')
          /\ (Told(printed.server, "server") => Told(printed.server, "server")')
      BY <3>1, <3>2 DEF Told
    <3> QED
      BY <3>1, <3>3 DEF PrintInv
  <2> QED
    BY <2>1, <2>2, <2>3, <2>4
<1> QED
  BY <1>3, <1>4, <1>5, <1>6, <1>7

\* Every step of model-holder, and every step of another program, keeps the invariant.
LEMMA HolderStep ==
  ASSUME HolderConstants, HolderInv, [Holder!Next]_holderVars
  PROVE  HolderInv'
<1>1. Holder!Files = HeldFiles
  BY DEF Holder!Files, Size
<1>2. CASE UNCHANGED holderVars
  <2>1. /\ HolderTypes' /\ AppTypes' /\ ExitInv' /\ WorkInv' /\ LockInv'
    <3>1. UNCHANGED <<mode, faults, paths, worker, next, mapped, threads, pinned, locked, failed, should_exit, ui, app,
                      procs, keys, printed>>
      BY <1>2 DEF holderVars
    <3>2. Sofar(next)' = Sofar(next) /\ Sofar(next + Holder!Concurrency)' = Sofar(next + Holder!Concurrency)
      BY <3>1 DEF Sofar, Holder!Concurrency
    <3>3. HolderTypes' /\ AppTypes' /\ ExitInv' /\ WorkInv'
      BY <3>1 DEF HolderInv, HolderTypes, AppTypes, ExitInv, WorkInv, Holder!Tui
    <3>4. LockInv'
      BY <3>1, <3>2 DEF HolderInv, LockInv
    <3> QED
      BY <3>3, <3>4
  <2>2. PrintInv'
    BY <1>2, PrintStays DEF holderVars, HolderInv
  <2> QED
    BY <2>1, <2>2 DEF HolderInv
<1>3. CASE \E size \in PageSizes, patterns \in Holder!CommandLines : Holder!Expand(size, patterns)
  BY <1>3, ExpandStep
<1>4. CASE Holder!MapNext
  BY <1>4, MapStep
<1>5. CASE Holder!WarmNext
  BY <1>5, WarmStep
<1>6. CASE Holder!LockChunk
  BY <1>6, LockChunkStep
<1>7. CASE Holder!ChunkDone
  BY <1>7, ChunkDoneStep
<1>8. CASE Holder!LockEnd
  BY <1>8, LockEndStep
<1>9. CASE Holder!Release
  BY <1>9, ReleaseStep
<1>10. CASE \E p \in HeldFiles : Holder!Lock(p)
  BY <1>10, LockStep
<1>11. CASE \E key \in Holder!Keys : Holder!Key(key)
  BY <1>11, KeyStep
<1>12. CASE Holder!UiLeaves \/ Holder!UiPanics
  BY <1>12, UiStep
<1>13. CASE \/ Holder!Find \/ Holder!Compare
            \/ \E kind \in {"holder", "server"} : Holder!ReadMaps(kind) \/ Holder!Exits(kind)
  BY <1>13, CheckStep
<1> QED
  BY <1>1, <1>2, <1>3, <1>4, <1>5, <1>6, <1>7, <1>8, <1>9, <1>10, <1>11, <1>12, <1>13 DEF Holder!Next

\* What model-holder shows and prints is so, for any finite set of files none of which is
\* empty, any number of lock threads, and whichever files cannot be opened or locked: while
\* the worker maps, warms and locks, its threads finish in any order, the user presses keys
\* and the UI thread panics.  `check` calls no file shared that one process maps alone.
THEOREM HoldersTellTheTruth ==
  ASSUME HolderConstants
  PROVE  Spec => []HolderTellsTheTruth
<1>1. Init => HolderInv
  BY HolderStarts DEF Init
<1>2. HolderInv /\ [Next]_vars => HolderInv'
  <2> SUFFICES ASSUME HolderInv, [Next]_vars PROVE HolderInv'
    OBVIOUS
  <2>1. [Holder!Next]_holderVars
    BY DEF Next, vars
  <2> QED
    BY <2>1, HolderStep
<1>3. HolderInv => HolderTellsTheTruth
  BY HolderInvImplies
<1> QED
  BY <1>1, <1>2, <1>3, PTL DEF Spec
=============================================================================
