---------------------------- MODULE WriterQueue ----------------------------
(***************************************************************************)
(* The bounded queue and the writer thread behind the InfluxDB exporter    *)
(* (exporters/influxdb/worker.rs).  Request tasks enqueue samples and      *)
(* never block; one thread writes them with retries; flush registers a     *)
(* ticket, pings the thread and waits for the ticket's ack; shutdown       *)
(* closes the sample channel and joins the thread within a budget; Drop    *)
(* closes both channels and joins nothing.                                 *)
(*                                                                         *)
(* A step is one operation on a channel, one critical section of a mutex   *)
(* or one write attempt.  Every timer may fire at any time.                *)
(***************************************************************************)
EXTENDS Integers, Sequences, FiniteSets

CONSTANTS
  Samples,    \* the samples that are exported, each once
  Flushes,    \* the calls of flush
  Shutdowns,  \* the calls of shutdown
  Capacity,   \* CAPACITY
  Retries     \* the number of RETRY_DELAYS_MS

ASSUME QueueAssumption == Capacity \in Nat \ {0} /\ Retries \in Nat

VARIABLES
  queue,      \* the sample channel
  open,       \* it still has its sender (samples_tx)
  pings,      \* messages in the drains channel
  drains,     \* the drains channel still has its sender
  waiters,    \* the registered tickets, each named by its flush
  acks,       \* the tickets whose ack was sent
  worker,     \* where the thread is
  back,       \* where it returns to after a write
  writing,    \* the sample it is writing, if any
  attempt,    \* the attempts at it that have failed
  handle,     \* the JoinHandle has not been taken
  dropped,    \* dropped_total
  fpc, spc,   \* where each flush and each shutdown is
  owner,      \* the WriterQueue: held, dropping, dropped
  fate,       \* history: what became of each sample
  accepted,   \* history: the samples reported Queued, in order
  settled     \* history: the samples delivered or given up, in order

channels == <<queue, open, pings, drains>>
tickets == <<waiters, acks, fpc>>
thread == <<worker, back, writing, attempt>>
closing == <<handle, spc, owner>>
samples == <<dropped, fate, accepted, settled>>
vars == <<queue, open, pings, drains, waiters, acks, worker, back, writing, attempt,
          handle, dropped, fpc, spc, owner, fate, accepted, settled>>

\* spawn.
Init ==
  /\ queue = <<>> /\ open = TRUE /\ pings = 0 /\ drains = TRUE
  /\ waiters = {} /\ acks = {}
  /\ worker = "top" /\ back = "top" /\ writing = <<>> /\ attempt = 0
  /\ handle = TRUE /\ dropped = 0
  /\ fpc = [f \in Flushes |-> "idle"]
  /\ spc = [c \in Shutdowns |-> "idle"]
  /\ owner = "held"
  /\ fate = [s \in Samples |-> "new"]
  /\ accepted = <<>> /\ settled = <<>>

---------------------------------------------------------------------------
(* The callers.                                                            *)

\* enqueue holds the sender's mutex throughout: full is refused and counted.
Enqueue(s) ==
  /\ owner = "held" /\ fate[s] = "new"
  /\ \/ /\ open /\ worker # "finished" /\ Len(queue) < Capacity
        /\ queue' = Append(queue, s)
        /\ accepted' = Append(accepted, s)
        /\ fate' = [fate EXCEPT ![s] = "queued"]
        /\ UNCHANGED dropped
     \/ /\ open /\ worker # "finished" /\ Len(queue) >= Capacity
        /\ dropped' = dropped + 1
        /\ fate' = [fate EXCEPT ![s] = "refused"]
        /\ UNCHANGED <<queue, accepted>>
     \/ /\ ~open \/ worker = "finished"
        /\ fate' = [fate EXCEPT ![s] = "shutdown"]
        /\ UNCHANGED <<queue, dropped, accepted>>
  /\ UNCHANGED <<open, pings, drains, tickets, thread, closing, settled>>

\* flush registers its ticket ...
Register(f) ==
  /\ owner = "held" /\ fpc[f] = "idle"
  /\ fpc' = [fpc EXCEPT ![f] = "registered"]
  /\ waiters' = waiters \cup {f}
  /\ UNCHANGED <<channels, acks, thread, closing, samples>>

\* ... pings the worker, unless it is gone ...
Ping(f) ==
  /\ fpc[f] = "registered"
  /\ \/ /\ worker # "finished" /\ drains
        /\ pings' = pings + 1
        /\ fpc' = [fpc EXCEPT ![f] = "waiting"]
     \/ /\ worker = "finished" \/ ~drains
        /\ fpc' = [fpc EXCEPT ![f] = "gone"]
        /\ UNCHANGED pings
  /\ UNCHANGED <<queue, open, drains, waiters, acks, thread, closing, samples>>

\* ... and waits for its ack ...
Acked(f) ==
  /\ fpc[f] = "waiting" /\ f \in acks
  /\ fpc' = [fpc EXCEPT ![f] = "acked"]
  /\ UNCHANGED <<channels, waiters, acks, thread, closing, samples>>

\* ... for at most FLUSH_WAIT, after which it takes its ticket back.
GiveUp(f) ==
  /\ fpc[f] = "waiting"
  /\ fpc' = [fpc EXCEPT ![f] = "late"]
  /\ waiters' = waiters \ {f}
  /\ UNCHANGED <<channels, acks, thread, closing, samples>>

\* shutdown_after: take the sample sender ...
Close(c) ==
  /\ owner = "held" /\ spc[c] = "idle"
  /\ spc' = [spc EXCEPT ![c] = "closed"]
  /\ open' = FALSE
  /\ UNCHANGED <<queue, pings, drains, tickets, thread, handle, owner, samples>>

\* ... take the handle; whoever comes second returns ...
TakeHandle(c) ==
  /\ spc[c] = "closed"
  /\ spc' = [spc EXCEPT ![c] = IF handle THEN "joining" ELSE "second"]
  /\ handle' = FALSE
  /\ UNCHANGED <<channels, tickets, thread, owner, samples>>

\* ... join the thread once it has finished ...
Join(c) ==
  /\ spc[c] = "joining" /\ worker = "finished"
  /\ spc' = [spc EXCEPT ![c] = "joined"]
  /\ UNCHANGED <<channels, tickets, thread, handle, owner, samples>>

\* ... or go on without it when the budget is spent.
Budget(c) ==
  /\ spc[c] = "joining" /\ worker # "finished"
  /\ spc' = [spc EXCEPT ![c] = "budget"]
  /\ UNCHANGED <<channels, tickets, thread, handle, owner, samples>>

Returned == /\ \A f \in Flushes : fpc[f] \notin {"registered", "waiting"}
            /\ \A c \in Shutdowns : spc[c] \notin {"closed", "joining"}

\* The last owner drops the queue: Drop takes the sample sender, then the
\* fields drop, the drains sender among them.
Drop ==
  /\ \/ owner = "held" /\ Returned /\ owner' = "dropping" /\ open' = FALSE /\ UNCHANGED drains
     \/ owner = "dropping" /\ owner' = "dropped" /\ drains' = FALSE /\ UNCHANGED open
  /\ UNCHANGED <<queue, pings, tickets, thread, handle, spc, samples>>

---------------------------------------------------------------------------
(* The writer thread.                                                      *)

Goto(where) == worker' = where /\ UNCHANGED <<back, writing, attempt>>

\* Take a sample to write_with_retry, and come back here afterwards.
Receive ==
  /\ queue # <<>>
  /\ queue' = Tail(queue)
  /\ writing' = <<Head(queue)>>
  /\ back' = worker /\ worker' = "write" /\ attempt' = 0

\* Mutant: the thread leaves as soon as the sample channel is closed.
Top_bug ==
  /\ worker = "top"
  /\ \/ pings > 0 /\ pings' = pings - 1 /\ Goto("drain")
     \/ pings = 0 /\ ~open /\ Goto("exitack") /\ UNCHANGED pings
     \/ pings = 0 /\ open /\ Goto("poll") /\ UNCHANGED pings
  /\ UNCHANGED <<queue, open, drains, tickets, closing, samples>>

\* The top of the loop: a ping, a closed drains channel, or neither.
Top ==
  /\ worker = "top"
  /\ \/ pings > 0 /\ pings' = pings - 1 /\ Goto("drain")
     \/ pings = 0 /\ ~drains /\ Goto("exit") /\ UNCHANGED pings
     \/ pings = 0 /\ drains /\ Goto("poll") /\ UNCHANGED pings
  /\ UNCHANGED <<queue, open, drains, tickets, closing, samples>>

\* Mutant: the sample channel's end is taken for an idle queue.
Poll_bug ==
  /\ worker = "poll"
  /\ \/ Receive
     \/ queue = <<>> /\ Goto("ack") /\ UNCHANGED queue
  /\ UNCHANGED <<open, pings, drains, tickets, closing, samples>>

\* poll_samples in the loop.
Poll ==
  /\ worker = "poll"
  /\ \/ Receive
     \/ queue = <<>> /\ open /\ Goto("ack") /\ UNCHANGED queue
     \/ queue = <<>> /\ ~open /\ Goto("exit") /\ UNCHANGED queue
  /\ UNCHANGED <<open, pings, drains, tickets, closing, samples>>

\* drain_queue after a ping and, at the exit, before the last ack.
DrainQueue ==
  /\ worker \in {"drain", "exit"}
  /\ \/ Receive
     \/ queue = <<>> /\ open /\ UNCHANGED queue
        /\ Goto(IF worker = "exit" THEN "exitack" ELSE "drainack")
     \/ queue = <<>> /\ ~open /\ UNCHANGED queue
        /\ Goto(IF worker = "exit" THEN "exitack" ELSE "top")
  /\ UNCHANGED <<open, pings, drains, tickets, closing, samples>>

Living == {f \in waiters : fpc[f] \in {"registered", "waiting"}}

\* ack_waiters: answer the living tickets, sweep the dead ones.
AckWaiters ==
  /\ worker \in {"ack", "drainack", "exitack"}
  /\ acks' = acks \cup Living
  /\ waiters' = Living
  /\ Goto(IF worker = "exitack" THEN "leaving" ELSE "top")
  /\ UNCHANGED <<channels, fpc, closing, samples>>

\* The future ends: its receivers drop and the thread is finished.
Leave ==
  /\ worker = "leaving"
  /\ Goto("finished")
  /\ UNCHANGED <<channels, tickets, closing, samples>>

\* The sample being written is settled.
Settle(how) ==
  /\ worker' = back /\ writing' = <<>> /\ attempt' = 0
  /\ fate' = [fate EXCEPT ![writing[1]] = how]
  /\ settled' = settled \o writing
  /\ UNCHANGED <<channels, tickets, closing, back, accepted>>

\* An attempt succeeds.
Deliver == worker = "write" /\ Settle("delivered") /\ UNCHANGED dropped

\* The point cannot be built; nothing is written.
Skip == worker = "write" /\ attempt = 0 /\ Settle("lost") /\ dropped' = dropped + 1

\* An attempt fails or times out and another is left.
Retry ==
  /\ worker = "write" /\ attempt < Retries
  /\ attempt' = attempt + 1
  /\ UNCHANGED <<channels, tickets, closing, samples, worker, back, writing>>

\* Mutant: an exhausted sample is put back at the end of the queue.
Exhaust_requeue ==
  /\ worker = "write" /\ attempt = Retries
  /\ queue' = queue \o writing
  /\ worker' = back /\ writing' = <<>> /\ attempt' = 0
  /\ UNCHANGED <<open, pings, drains, tickets, closing, back, samples>>

\* Mutant: an exhausted sample is forgotten.
Exhaust_bug == worker = "write" /\ attempt = Retries /\ Settle("lost") /\ UNCHANGED dropped

\* The last attempt fails: counted, never retried again.
Exhaust ==
  /\ worker = "write" /\ attempt = Retries
  /\ Settle("lost")
  /\ dropped' = dropped + 1

Work ==
  \/ Top \/ Poll \/ DrainQueue \/ AckWaiters \/ Leave
  \/ Deliver \/ Skip \/ Retry \/ Exhaust

Export == \E s \in Samples : Enqueue(s)
Flush == \E f \in Flushes : Register(f) \/ Ping(f) \/ Acked(f) \/ GiveUp(f)
Shutdown == \E c \in Shutdowns : Close(c) \/ TakeHandle(c) \/ Join(c) \/ Budget(c)

\* Everything is over.
Done == worker = "finished" /\ owner = "dropped" /\ UNCHANGED vars

Next == Export \/ Flush \/ Shutdown \/ Drop \/ Work \/ Done

\* The thread is scheduled, and an attempt ends within REQUEST_TIMEOUT.
Fairness == WF_vars(Work)

Spec == Init /\ [][Next]_vars
FairSpec == Spec /\ Fairness

---------------------------------------------------------------------------
Places == {"top", "poll", "ack", "drain", "drainack", "write", "exit", "exitack",
           "leaving", "finished"}

TypeOK ==
  /\ queue \in Seq(Samples) /\ Len(queue) <= Capacity
  /\ open \in BOOLEAN /\ drains \in BOOLEAN /\ handle \in BOOLEAN
  /\ pings \in Nat /\ dropped \in Nat
  /\ waiters \subseteq Flushes /\ acks \subseteq Flushes
  /\ worker \in Places /\ back \in {"top", "poll", "drain", "exit"}
  /\ writing \in Seq(Samples) /\ Len(writing) = (IF worker = "write" THEN 1 ELSE 0)
  /\ attempt \in 0 .. Retries
  /\ fpc \in [Flushes -> {"idle", "registered", "waiting", "acked", "gone", "late"}]
  /\ spc \in [Shutdowns -> {"idle", "closed", "joining", "joined", "second", "budget"}]
  /\ owner \in {"held", "dropping", "dropped"}
  /\ fate \in [Samples -> {"new", "queued", "refused", "shutdown", "delivered", "lost"}]
  /\ accepted \in Seq(Samples) /\ settled \in Seq(Samples)

\* worker.rs: the worker "delivers every queued sample on its OWN thread - FIFO,
\* never discarded at close".  What enqueue reported as Queued has been settled,
\* is being written or is still queued, in the order it was accepted.
AcceptedInOrder == accepted = settled \o writing \o queue

\* "a counted fact, not a silent loss": dropped_total is exactly the samples
\* refused at capacity and the samples given up by the writer.
DropsCounted == dropped = Cardinality({s \in Samples : fate[s] \in {"refused", "lost"}})

\* A shutdown that joined the thread, and a flush that found it gone, report the
\* truth: everything ever accepted has been delivered or given up.
GoneMeansSettled ==
  (\E c \in Shutdowns : spc[c] = "joined") \/ (\E f \in Flushes : fpc[f] = "gone")
    => settled = accepted

\* "never while a sample is still queued", but eventually: once its sample
\* channel is closed the thread finishes, whatever the endpoint answers.
ThreadFinishes == ~open ~> worker = "finished"

\* flush: "the ping's drain answers the ticket (or the worker's exit drain does)".
\* A flush that waits when the queue closes is answered, unless the thread had
\* already passed its last ack.
ClosingAnswersFlush ==
  \A f \in Flushes :
    fpc[f] = "waiting" /\ ~open /\ worker \notin {"leaving", "finished"}
      ~> f \in acks \/ fpc[f] = "late"

\* A closed queue comes to rest: its thread ends and nobody waits for it.
ClosingSettles == ThreadFinishes /\ ClosingAnswersFlush
===========================================================================
