----------------------------- MODULE StreamPass -----------------------------
(***************************************************************************)
(* One pass-through stream (streaming.rs): the response body that forwards *)
(* the backend's events to the client (advance_stream), and the detached   *)
(* observer task that waits for the end of the stream, classifies it and   *)
(* analyses the accumulated bytes (StreamObserver).                        *)
(*                                                                         *)
(* They share a buffer, a oneshot channel for the end reason and a watch   *)
(* channel for activity.  The body is polled by the connection; it is      *)
(* dropped when it is over, when it failed, or when the client leaves.     *)
(* Bytes are abstracted to what completion detection tells apart: ordinary *)
(* events, terminal events ([DONE], message_stop) and an unterminated tail *)
(* (StreamFraming models the bytes).                                       *)
(***************************************************************************)
EXTENDS Integers

CONSTANT MaxChunks   \* bound of the model: the chunks a backend sends

Reasons == {"Completed", "BackendClosed", "BackendError", "Stalled", "ClientGone"}

VARIABLES
  source,     \* the backend's body: open, or done (FusedStream)
  chunks,     \* chunks it has sent
  ready,      \* complete events in the framer, of which kind
  tail,       \* the unterminated tail in the framer: none, plain or terminal
  pos,        \* the body: polling, emitting, over, failed, dropping, dropped
  block,      \* the block being emitted: plain or terminal
  error,      \* pending_error is set
  signaled,   \* completion_signaled
  acc,        \* blocks in the accumulated buffer
  chan,       \* the oneshot: open, a reason (sent, not received), taken, closed
  activity,   \* the watch channel holds an unseen change
  quiet,      \* the watch channel has lost its sender
  obs,        \* the observer: waiting, resolving, copying, analysing, done
  reason,     \* its end reason
  copied,     \* blocks in the copy it analyses
  sent,       \* history: blocks handed to the client
  terminal,   \* history: how many when the terminal event was among them, or 0
  cause       \* history: why the body ended: none, closed, aborted, finished, client

bodyVars == <<source, chunks, ready, tail, pos, block, error, signaled, acc>>
history == <<sent, terminal, cause>>
channels == <<chan, activity, quiet>>
observer == <<obs, reason, copied>>
vars == <<source, chunks, ready, tail, pos, block, error, signaled, acc, chan, activity,
          quiet, obs, reason, copied, sent, terminal, cause>>

Init ==
  /\ source = "open" /\ chunks = 0
  /\ ready = {} /\ tail = "none"
  /\ pos = "polling" /\ block = "plain"
  /\ error = FALSE /\ signaled = FALSE
  /\ acc = 0
  /\ chan = "open" /\ activity = FALSE /\ quiet = FALSE
  /\ obs = "waiting" /\ reason = "Stalled" /\ copied = 0
  /\ sent = 0 /\ terminal = 0 /\ cause = "none"

---------------------------------------------------------------------------
(* The body.                                                               *)

\* signal_end: the sender is taken by the first reason.
SignalEnd(why) == chan' = IF chan = "open" THEN why ELSE chan

\* emit_block accumulates first ...
StartEmit(kind) ==
  /\ acc' = acc + 1
  /\ block' = kind
  /\ pos' = "emitting"

\* ... then signals a completion, then activity, and yields the bytes.
Deliver ==
  /\ pos = "emitting"
  /\ IF block = "terminal" THEN SignalEnd("Completed") ELSE UNCHANGED chan
  /\ signaled' = (signaled \/ (block = "terminal" /\ chan = "open"))
  /\ activity' = TRUE
  /\ sent' = sent + 1
  /\ terminal' = IF terminal = 0 /\ block = "terminal" THEN sent + 1 ELSE terminal
  /\ pos' = "polling"
  /\ UNCHANGED <<source, chunks, ready, tail, block, error, acc, quiet, observer, cause>>

\* take_framed found complete events.
TakeEvents ==
  /\ pos = "polling" /\ ready # {}
  /\ StartEmit(IF "terminal" \in ready THEN "terminal" ELSE "plain")
  /\ ready' = {}
  /\ UNCHANGED <<source, chunks, tail, error, signaled, channels, observer, history>>

\* The tail leaves as it is: at the high-water mark, before a pending error
\* and at the end of the backend's body.
EmitTail ==
  /\ pos = "polling" /\ ready = {} /\ tail # "none"
  /\ StartEmit(tail)
  /\ tail' = "none"
  /\ \/ source' = source
     \/ ~error /\ source' = "done"
  /\ UNCHANGED <<chunks, ready, error, signaled, channels, observer, history>>

\* Mutant: the error surfaces at once, ahead of the tail.
DrainError_tail ==
  /\ pos = "polling" /\ ready = {} /\ error
  /\ error' = FALSE
  /\ \/ signaled /\ pos' = "over" /\ cause' = "finished" /\ UNCHANGED chan
     \/ ~signaled /\ SignalEnd("BackendError") /\ pos' = "failed" /\ cause' = "aborted"
  /\ UNCHANGED <<source, chunks, ready, tail, block, signaled, acc, activity, quiet,
                 observer, sent, terminal>>

\* drain_error with nothing left to deliver: abort the transfer, unless the
\* stream had completed before.
DrainError ==
  /\ pos = "polling" /\ ready = {} /\ error /\ tail = "none"
  /\ error' = FALSE
  /\ \/ signaled /\ pos' = "over" /\ cause' = "finished" /\ UNCHANGED chan
     \/ ~signaled /\ SignalEnd("BackendError") /\ pos' = "failed" /\ cause' = "aborted"
  /\ UNCHANGED <<source, chunks, ready, tail, block, signaled, acc, activity, quiet,
                 observer, sent, terminal>>

\* The next chunk: it may complete events, extend or leave a tail, or be empty.
\* An unterminated terminal marker stays one until a blank line ends it.
Chunk ==
  /\ pos = "polling" /\ ready = {} /\ ~error /\ source = "open" /\ chunks < MaxChunks
  /\ chunks' = chunks + 1
  /\ activity' = TRUE
  /\ \/ \E kind \in {"plain", "terminal"} :
          /\ ready' = {IF tail = "terminal" THEN tail ELSE kind}
          /\ tail' \in {"none", "plain", "terminal"}
     \/ /\ tail' \in (IF tail = "terminal" THEN {tail} ELSE {"plain", "terminal"})
        /\ UNCHANGED ready
     \/ UNCHANGED <<ready, tail>>
  /\ UNCHANGED <<source, pos, block, error, signaled, acc, chan, quiet, observer, history>>

\* A read error is kept until what came before it is delivered.
ReadError ==
  /\ pos = "polling" /\ ready = {} /\ ~error /\ source = "open"
  /\ source' = "done" /\ error' = TRUE
  /\ UNCHANGED <<chunks, ready, tail, pos, block, signaled, acc, channels, observer,
                 history>>

\* The backend's body is at its end and so is ours.
Close ==
  /\ pos = "polling" /\ ready = {} /\ ~error /\ tail = "none"
  /\ source' = "done"
  /\ SignalEnd("BackendClosed")
  /\ activity' = TRUE
  /\ pos' = "over"
  /\ cause' = IF signaled THEN "finished" ELSE "closed"
  /\ UNCHANGED <<chunks, ready, tail, block, error, signaled, acc, quiet, observer, sent,
                 terminal>>

\* The client leaves while the body waits for its next poll or for the backend.
ClientLeaves ==
  /\ pos = "polling"
  /\ pos' = "failed"
  /\ cause' = "client"
  /\ UNCHANGED <<source, chunks, ready, tail, block, error, signaled, acc, channels,
                 observer, sent, terminal>>

\* The body drops: first the oneshot's sender, then the watch's.
DropBody ==
  \/ /\ pos \in {"over", "failed"}
     /\ pos' = "dropping"
     /\ SignalEnd("closed")
     /\ UNCHANGED <<source, chunks, ready, tail, block, error, signaled, acc, activity,
                    quiet, observer, history>>
  \/ /\ pos = "dropping"
     /\ pos' = "dropped"
     /\ quiet' = TRUE
     /\ UNCHANGED <<source, chunks, ready, tail, block, error, signaled, acc, chan,
                    activity, observer, history>>

Body ==
  \/ Deliver \/ TakeEvents \/ EmitTail \/ DrainError \/ Chunk \/ ReadError \/ Close
  \/ ClientLeaves \/ DropBody

---------------------------------------------------------------------------
(* The observer.                                                           *)

\* A branch of await_end's select! breaks its loop.
Break(why) == obs' = "resolving" /\ reason' = why

\* The branches of the select!, in any order when several are ready.
AwaitEnd ==
  /\ obs = "waiting"
  /\ \/ chan \in Reasons /\ Break(chan) /\ chan' = "taken" /\ UNCHANGED activity
     \/ chan = "closed" /\ Break("ClientGone") /\ UNCHANGED <<chan, activity>>
     \/ activity /\ activity' = FALSE /\ UNCHANGED <<obs, reason, chan>>
     \/ ~activity /\ quiet /\ Break("ClientGone") /\ UNCHANGED <<chan, activity>>
  /\ UNCHANGED <<bodyVars, quiet, copied, history>>

\* 90 s without a chunk.
Timeout ==
  /\ obs = "waiting"
  /\ Break("Stalled")
  /\ UNCHANGED <<bodyVars, channels, copied, history>>

\* Mutant: the branch that won the select! is believed.
Resolve_bug ==
  /\ obs = "resolving"
  /\ obs' = "copying"
  /\ UNCHANGED <<bodyVars, channels, reason, copied, history>>

\* resolve_end_reason: a reason that was sent wins, and a stall of a stream
\* whose body is gone is a client that left.
Resolve ==
  /\ obs = "resolving"
  /\ obs' = "copying"
  /\ \/ chan \in Reasons /\ reason' = chan /\ chan' = "taken"
     \/ chan = "closed" /\ reason = "Stalled" /\ reason' = "ClientGone" /\ UNCHANGED chan
     \/ ~(chan \in Reasons \/ (chan = "closed" /\ reason = "Stalled"))
        /\ UNCHANGED <<reason, chan>>
  /\ UNCHANGED <<bodyVars, activity, quiet, copied, history>>

\* run: tally the end, copy the buffer out; an empty one ends the task.
Copy ==
  /\ obs = "copying"
  /\ copied' = acc
  /\ obs' = IF acc = 0 THEN "done" ELSE "analysing"
  /\ UNCHANGED <<bodyVars, channels, reason, history>>

\* The scans, the dump and the statistics, all on the copy.
Analyse ==
  /\ obs = "analysing"
  /\ obs' = "done"
  /\ UNCHANGED <<bodyVars, channels, reason, copied, history>>

Observe == AwaitEnd \/ Resolve \/ Copy \/ Analyse

Done == obs = "done" /\ pos = "dropped" /\ UNCHANGED vars

Next == Body \/ Observe \/ Timeout \/ Done

\* The observer is a task of its own; nothing is assumed of the backend, the
\* client or the inactivity timer.
Fairness == WF_vars(Observe) /\ WF_vars(DropBody)

Spec == Init /\ [][Next]_vars
FairSpec == Spec /\ Fairness

---------------------------------------------------------------------------
TypeOK ==
  /\ source \in {"open", "done"} /\ chunks \in 0 .. MaxChunks
  /\ ready \subseteq {"plain", "terminal"} /\ tail \in {"none", "plain", "terminal"}
  /\ pos \in {"polling", "emitting", "over", "failed", "dropping", "dropped"}
  /\ block \in {"plain", "terminal"}
  /\ {error, signaled, activity, quiet} \subseteq BOOLEAN
  /\ acc \in Nat /\ copied \in 0 .. acc /\ sent \in Nat /\ terminal \in Nat
  /\ chan \in Reasons \cup {"open", "taken", "closed"}
  /\ obs \in {"waiting", "resolving", "copying", "analysing", "done"}
  /\ reason \in Reasons
  /\ cause \in {"none", "closed", "aborted", "finished", "client"}

Classified == obs \in {"copying", "analysing", "done"}

\* StreamEnd: "a receiver seeing the sender drop without a value can only mean
\* one thing: the body was dropped (client disconnected)".  Whichever branch of
\* the select! wins, the end class the metrics report is what happened: only a
\* client that left before the terminal event is a client that is gone, only a
\* stream that ended without one is truncated, and a completed one had one.
EndIsTruth ==
  Classified =>
    /\ reason = "Completed" => terminal > 0
    /\ reason = "BackendClosed" => cause = "closed" /\ terminal = 0
    /\ reason = "BackendError" => cause = "aborted" /\ terminal = 0
    /\ reason = "ClientGone" => cause = "client" /\ terminal = 0

\* emit_block accumulates before it signals: the bytes analysed for a completed
\* stream include its terminal event and everything before it.
AnalysisSeesCompletion ==
  obs \in {"analysing", "done"} /\ reason = "Completed" => copied >= terminal

\* The observer's account of a stream: its end class and what it analyses.
ObserverTellsTheTruth == EndIsTruth /\ AnalysisSeesCompletion

\* drain_error and advance_stream deliver the tail first: when the body ends on
\* its own, cleanly or by an error, nothing the backend sent is left behind; and "a
\* late transport error downgrades to a graceful end", so that a client that
\* received the terminal event never sees its transfer aborted.
EverythingDelivered ==
  /\ cause \in {"closed", "aborted", "finished"} => ready = {} /\ tail = "none"
  /\ cause = "aborted" => terminal = 0

\* await_end: "Waiting further would idle until the inactivity timeout".  Once
\* the body is gone the observer finishes without the timer's help.
ObserverFinishes == pos = "dropped" ~> obs = "done"
===========================================================================
