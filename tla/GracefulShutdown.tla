-------------------------- MODULE GracefulShutdown --------------------------
(***************************************************************************)
(* The serve loop and its three-tier shutdown (server.rs), with the        *)
(* exporters closed after the drain and the detached tasks that hand the   *)
(* samples in (handler.rs, streaming.rs).                                  *)
(*                                                                         *)
(* A connection is kept alive between requests.  The export of a request's *)
(* sample runs in a task of its own, which the JoinSet of connections does *)
(* not contain.  A forced close is a timeout, so it may fall anywhere in   *)
(* the drain.                                                              *)
(***************************************************************************)
EXTENDS Integers, FiniteSets

CONSTANTS
  Conns,        \* connections
  MaxRequests   \* bound of the model: requests per connection

VARIABLES
  server,     \* "accepting", "draining", "drained", "closing" or "exited"
  listening,  \* the listener is bound
  draining,   \* drain_tx is dropped
  conns,      \* the JoinSet: connections whose task has not been joined
  pc,         \* the state of each connection
  told,       \* connections whose graceful_shutdown() was called
  served,     \* responses completed on each connection
  exporting,  \* the export task of each connection: how many are under way
  queue,      \* the exporter: "open", "closed" or "joined"
  accepted,   \* samples the exporter took
  refused     \* samples that found the exporter shut down

vars == <<server, listening, draining, conns, pc, told, served, exporting,
          queue, accepted, refused>>

connVars == <<conns, pc, told>>
sampleVars == <<exporting, queue, accepted, refused>>

Init ==
  /\ server = "accepting" /\ listening = TRUE /\ draining = FALSE
  /\ conns = {} /\ told = {}
  /\ pc = [c \in Conns |-> "new"]
  /\ served = [c \in Conns |-> 0]
  /\ exporting = [c \in Conns |-> 0]
  /\ queue = "open" /\ accepted = 0 /\ refused = 0

Go(c, label) == pc' = [pc EXCEPT ![c] = label]

---------------------------------------------------------------------------
(* Connections: tasks of the JoinSet.                                      *)

\* listener.accept(): conns.spawn.
Accept(c) ==
  /\ server = "accepting" /\ listening /\ pc[c] = "new"
  /\ conns' = conns \cup {c}
  /\ Go(c, "idle")
  /\ UNCHANGED <<server, listening, draining, told, served, sampleVars>>

\* A request arrives on a connection that is still open for another one.
Request(c) ==
  /\ pc[c] = "idle" /\ c \notin told /\ server # "exited"
  /\ served[c] < MaxRequests
  /\ Go(c, "busy")
  /\ UNCHANGED <<server, listening, draining, conns, told, served, sampleVars>>

\* The response is complete; its sample, if it has one, is left to a detached
\* task.  A connection that was told to stop closes.
Respond(c) ==
  /\ pc[c] = "busy"
  /\ served' = [served EXCEPT ![c] = @ + 1]
  /\ exporting' \in {exporting, [exporting EXCEPT ![c] = @ + 1]}
  /\ Go(c, IF c \in told THEN "finished" ELSE "idle")
  /\ UNCHANGED <<server, listening, draining, conns, told, queue, accepted, refused>>

\* The client hangs up, between requests or during one.
HangUp(c) ==
  /\ pc[c] \in {"idle", "busy"}
  /\ Go(c, "finished")
  /\ UNCHANGED <<server, listening, draining, conns, told, served, sampleVars>>

\* drained.changed(): graceful_shutdown closes an idle connection now and a
\* busy one after its response.
Drained(c) ==
  /\ draining /\ c \notin told /\ pc[c] \in {"idle", "busy"}
  /\ told' = told \cup {c}
  /\ Go(c, IF pc[c] = "idle" THEN "finished" ELSE "busy")
  /\ UNCHANGED <<server, listening, draining, conns, served, sampleVars>>

\* The detached export of one sample: WriterQueue::enqueue.
Export(c) ==
  /\ exporting[c] > 0 /\ server # "exited"
  /\ exporting' = [exporting EXCEPT ![c] = @ - 1]
  /\ \/ queue = "open" /\ accepted' = accepted + 1 /\ UNCHANGED refused
     \/ queue # "open" /\ refused' = refused + 1 /\ UNCHANGED accepted
  /\ UNCHANGED <<server, listening, draining, connVars, served, queue>>

---------------------------------------------------------------------------
(* GracefulServe::run and drain_then_close_exporters.                      *)

\* conns.join_next() of the accept loop.
Reap ==
  /\ server = "accepting"
  /\ \E c \in conns : pc[c] = "finished" /\ conns' = conns \ {c}
  /\ UNCHANGED <<server, listening, draining, pc, told, served, sampleVars>>

\* The signal: drop the listener, then drain_tx.
Signal ==
  /\ server = "accepting"
  /\ listening' = FALSE /\ draining' = TRUE
  /\ server' = IF conns = {} THEN "drained" ELSE "draining"
  /\ UNCHANGED <<connVars, served, sampleVars>>

\* Mutant: the first connection to finish ends the drain.
JoinNext_bug ==
  /\ server = "draining"
  /\ \E c \in conns : pc[c] = "finished" /\ conns' = conns \ {c}
  /\ server' = "drained"
  /\ UNCHANGED <<listening, draining, pc, told, served, sampleVars>>

\* conns.join_next() of the drain.
JoinNext ==
  /\ server = "draining"
  /\ \E c \in conns : pc[c] = "finished" /\ conns' = conns \ {c}
  /\ server' = IF conns' = {} THEN "drained" ELSE "draining"
  /\ UNCHANGED <<listening, draining, pc, told, served, sampleVars>>

\* Mutant: the grace timer logs and waits on.
GraceExpires_bug ==
  /\ server = "draining"
  /\ \A c \in conns : pc[c] # "finished"
  /\ UNCHANGED vars

\* The deadline: drop(conns) aborts every task that is left.  The join branch
\* of the biased select goes first.
GraceExpires ==
  /\ server = "draining"
  /\ \A c \in conns : pc[c] # "finished"
  /\ pc' = [c \in Conns |-> IF c \in conns THEN "aborted" ELSE pc[c]]
  /\ conns' = {}
  /\ server' = "drained"
  /\ UNCHANGED <<listening, draining, told, served, sampleVars>>

\* exporters.shutdown_all(): close the queue, then join its writer.
CloseExporters ==
  /\ server = "drained"
  /\ queue' = "closed"
  /\ server' = "closing"
  /\ UNCHANGED <<listening, draining, connVars, served, exporting, accepted, refused>>

\* The join returns, or its budget is spent; the process ends, and with it
\* every task that is still running.
Exit ==
  /\ server = "closing"
  /\ queue' = "joined"
  /\ server' = "exited"
  /\ UNCHANGED <<listening, draining, connVars, served, exporting, accepted, refused>>

Client(c) == Accept(c) \/ Request(c) \/ Respond(c) \/ HangUp(c)
Serve == Reap \/ JoinNext \/ GraceExpires \/ CloseExporters \/ Exit

Next ==
  \/ \E c \in Conns : Client(c) \/ Drained(c) \/ Export(c)
  \/ Serve \/ Signal

\* The serve loop is scheduled, its timers fire and the connection tasks are
\* polled; nothing is assumed of clients, backends or the signal.
Fairness == WF_vars(Serve) /\ \A c \in Conns : WF_vars(Drained(c))

Spec == Init /\ [][Next]_vars
FairSpec == Spec /\ Fairness

---------------------------------------------------------------------------
TypeOK ==
  /\ server \in {"accepting", "draining", "drained", "closing", "exited"}
  /\ listening \in BOOLEAN /\ draining \in BOOLEAN
  /\ conns \subseteq Conns /\ told \subseteq Conns
  /\ pc \in [Conns -> {"new", "idle", "busy", "finished", "aborted"}]
  /\ served \in [Conns -> 0 .. MaxRequests]
  /\ exporting \in [Conns -> 0 .. MaxRequests]
  /\ queue \in {"open", "closed", "joined"}
  /\ accepted \in Nat /\ refused \in Nat
  /\ accepted + refused <= MaxRequests * Cardinality(Conns)

\* "in-flight bodies COMPLETE": from the signal on, a request in flight ends
\* with its response or by its client, unless the grace has run out.
InFlightCompletes ==
  \A c \in Conns :
    draining /\ pc[c] = "busy" /\ pc'[c] # "busy" =>
      \/ served'[c] = served[c] + 1
      \/ pc'[c] = "aborted" /\ server' = "drained"
      \/ HangUp(c)

\* "handlers still holding the manager during the drain can enqueue until the
\* last response completes": while a handler runs, the exporter is open.
ExporterOpenForHandlers == \A c \in Conns : pc[c] = "busy" => queue = "open"

\* "the DRAIN ends within `grace` of the signal, always", and the process after
\* it, whatever hung clients and silent backends do.
SignalEndsProcess == <>[](draining => server = "exited")

\* The doc comment of shutdown_all: call it after the drain, "so no request
\* hands a sample in behind it".
NoSampleBehindClose == refused = 0
===========================================================================
