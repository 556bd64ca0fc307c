------------------------- MODULE WriterQueueProofs -------------------------
(***************************************************************************)
(* Proofs about WriterQueue, for any capacity, retry budget and numbers of *)
(* samples, flushes and shutdowns: its types, that accepted samples are    *)
(* settled in order and never lost, that every loss is counted once, and   *)
(* that nothing is outstanding once the writer thread has been joined.     *)
(***************************************************************************)
EXTENDS WriterQueue, SequenceTheorems, FiniteSetTheorems, TLAPS

\* The thread is past its loop, or on its way back to the code there.
Exiting ==
  \/ worker \in {"exit", "exitack", "leaving", "finished"}
  \/ worker = "write" /\ back = "exit"

\* What relates the places of the thread and its callers to the two channels:
\* the thread leaves its loop only behind a closed sample channel, passes its
\* last drain only with the queue empty, and is gone before anybody is told so.
Closure ==
  /\ drains \/ owner = "dropped"
  /\ owner # "held" => ~open
  /\ \A f \in Flushes : fpc[f] = "registered" => owner = "held"
  /\ Exiting => ~open
  /\ worker \in {"exitack", "leaving", "finished"} => queue = <<>>
  /\ \A f \in Flushes : fpc[f] = "gone" => worker = "finished"
  /\ \A c \in Shutdowns : spc[c] = "joined" => worker = "finished"

\* The inductive invariant.
IInv == TypeOK /\ AcceptedInOrder /\ Closure

---------------------------------------------------------------------------
(* Sequences.                                                              *)

\* A sample received from the head of the queue keeps its place in the line.
LEMMA MoveHead ==
  ASSUME NEW S, NEW s \in Seq(S), NEW q \in Seq(S), q # <<>>
  PROVE  (s \o <<>>) \o q = (s \o <<Head(q)>>) \o Tail(q)
<1>1. Head(q) \in S /\ Tail(q) \in Seq(S) /\ Tail(q) = SubSeq(q, 2, Len(q))
  BY HeadTailProperties, TailIsSubSeq
<1>2. Len(q) \in Nat \ {0} /\ Head(q) = q[1]
  BY EmptySeq
<1>3. q = <<q[1]>> \o SubSeq(q, 1 + 1, Len(q))
  <2>1. 1 \in 1 .. Len(q) /\ Len(q) \in 1 .. Len(q)
    BY <1>2
  <2>2. SubSeq(q, 1, Len(q)) = <<q[1]>> \o SubSeq(q, 1 + 1, Len(q))
    BY <2>1, SubSeqRecursiveFirst
  <2>3. SubSeq(q, 1, Len(q)) = q
    BY SubSeqFull
  <2> QED BY <2>2, <2>3
<1>4. q = <<Head(q)>> \o Tail(q)
  <2>1. 1 + 1 = 2
    OBVIOUS
  <2> QED BY <1>1, <1>2, <1>3, <2>1, Zenon
<1>5. <<Head(q)>> \in Seq(S)
  BY <1>1
<1>6. (s \o <<Head(q)>>) \o Tail(q) = s \o (<<Head(q)>> \o Tail(q))
  BY <1>1, <1>5, ConcatAssociative
<1>7. s \o <<>> = s
  BY ConcatEmptySeq
<1> QED BY <1>4, <1>6, <1>7, Zenon

\* Appending to the last part of a line appends to the line.
LEMMA AppendLast ==
  \A s, q \in Seq(Samples), e \in Samples : Append(s \o q, e) = s \o Append(q, e)
<1> SUFFICES ASSUME NEW s \in Seq(Samples), NEW q \in Seq(Samples), NEW e \in Samples
             PROVE  Append(s \o q, e) = s \o Append(q, e)
  OBVIOUS
<1>1. <<e>> \in Seq(Samples)
  OBVIOUS
<1>2. Append(q, e) = q \o <<e>> /\ Append(s \o q, e) = (s \o q) \o <<e>>
  BY ConcatProperties, AppendIsConcat
<1> QED BY <1>1, <1>2, ConcatAssociative

---------------------------------------------------------------------------
(* The inductive invariant.                                                *)

\* spawn establishes it.
LEMMA InitIInv == Init => IInv
<1> SUFFICES ASSUME Init PROVE IInv
  OBVIOUS
<1>1. <<>> \in Seq(Samples) /\ Len(<<>>) = 0
  BY EmptySeq
<1>2. TypeOK
  BY <1>1, QueueAssumption DEF Init, TypeOK, Places
<1>3. AcceptedInOrder
  BY <1>1, ConcatEmptySeq DEF Init, AcceptedInOrder
<1>4. Closure
  BY DEF Init, Closure, Exiting
<1> QED BY <1>2, <1>3, <1>4 DEF IInv

\* A thread that is not in a write holds no sample, and one that is holds one.
LEMMA Holding ==
  ASSUME TypeOK
  PROVE  /\ worker # "write" => writing = <<>>
         /\ worker = "write" => writing[1] \in Samples
<1>1. worker # "write" => writing = <<>>
  BY EmptySeq DEF TypeOK
<1>2. ASSUME worker = "write" PROVE writing[1] \in Samples
  <2>1. writing \in Seq(Samples) /\ 1 \in 1 .. Len(writing)
    BY <1>2 DEF TypeOK
  <2> QED BY <2>1, ElementOfSeq
<1> QED BY <1>1, <1>2

\* The callers keep the types.
LEMMA CallersType ==
  ASSUME TypeOK, Export \/ Flush \/ Shutdown \/ Drop
  PROVE  TypeOK'
<1>1. ASSUME NEW s \in Samples, Enqueue(s) PROVE TypeOK'
  <2>1. queue' \in Seq(Samples) /\ accepted' \in Seq(Samples)
    <3>1. queue \in Seq(Samples) /\ accepted \in Seq(Samples)
      BY DEF TypeOK
    <3>2. Append(queue, s) \in Seq(Samples) /\ Append(accepted, s) \in Seq(Samples)
      BY <3>1, AppendProperties
    <3>3. queue' \in {queue, Append(queue, s)} /\ accepted' \in {accepted, Append(accepted, s)}
      BY <1>1 DEF Enqueue
    <3> QED BY <3>1, <3>2, <3>3
  <2>2. Len(queue') <= Capacity
    BY <1>1, AppendProperties, LenProperties, QueueAssumption DEF TypeOK, Enqueue
  <2>3. fate' \in [Samples -> {"new", "queued", "refused", "shutdown", "delivered", "lost"}]
    BY <1>1 DEF TypeOK, Enqueue
  <2>4. dropped' \in Nat
    BY <1>1 DEF TypeOK, Enqueue
  <2> QED BY <1>1, <2>1, <2>2, <2>3, <2>4
       DEF TypeOK, Enqueue, channels, tickets, thread, closing
<1>2. ASSUME NEW f \in Flushes, Register(f) PROVE TypeOK'
  BY <1>2 DEF TypeOK, Register, channels, thread, closing, samples
<1>3. ASSUME NEW f \in Flushes, Ping(f) PROVE TypeOK'
  <2>1. pings' \in Nat
    BY <1>3 DEF TypeOK, Ping
  <2>2. fpc' \in [Flushes -> {"idle", "registered", "waiting", "acked", "gone", "late"}]
    BY <1>3 DEF TypeOK, Ping
  <2> QED BY <1>3, <2>1, <2>2 DEF TypeOK, Ping, thread, closing, samples
<1>4. ASSUME NEW f \in Flushes, Acked(f) PROVE TypeOK'
  BY <1>4 DEF TypeOK, Acked, channels, thread, closing, samples
<1>5. ASSUME NEW f \in Flushes, GiveUp(f) PROVE TypeOK'
  BY <1>5 DEF TypeOK, GiveUp, channels, thread, closing, samples
<1>6. ASSUME NEW c \in Shutdowns, Close(c) PROVE TypeOK'
  BY <1>6 DEF TypeOK, Close, tickets, thread, samples
<1>7. ASSUME NEW c \in Shutdowns, TakeHandle(c) PROVE TypeOK'
  BY <1>7 DEF TypeOK, TakeHandle, channels, tickets, thread, samples
<1>8. ASSUME NEW c \in Shutdowns, Join(c) \/ Budget(c) PROVE TypeOK'
  BY <1>8 DEF TypeOK, Join, Budget, channels, tickets, thread, samples
<1>9. CASE Drop
  BY <1>9 DEF TypeOK, Drop, tickets, thread, samples
<1> QED BY <1>1, <1>2, <1>3, <1>4, <1>5, <1>6, <1>7, <1>8, <1>9 DEF Export, Flush, Shutdown

\* Taking a sample off the queue keeps the types of what it touches.
LEMMA ReceiveType ==
  ASSUME TypeOK, Receive, worker \in {"poll", "drain", "exit"}
  PROVE  /\ queue' \in Seq(Samples) /\ Len(queue') <= Capacity
         /\ writing' \in Seq(Samples) /\ Len(writing') = 1
         /\ worker' = "write" /\ back' \in {"top", "poll", "drain", "exit"}
         /\ attempt' \in 0 .. Retries
<1>1. /\ Head(queue) \in Samples /\ Tail(queue) \in Seq(Samples)
      /\ Len(Tail(queue)) = Len(queue) - 1
  BY HeadTailProperties DEF TypeOK, Receive
<1>2. <<Head(queue)>> \in Seq(Samples) /\ Len(<<Head(queue)>>) = 1
  BY <1>1
<1>3. Len(queue) \in Nat
  BY LenProperties DEF TypeOK
<1>4. Len(Tail(queue)) <= Capacity
  BY <1>1, <1>3, QueueAssumption DEF TypeOK
<1> QED BY <1>1, <1>2, <1>4, QueueAssumption DEF TypeOK, Receive

\* Settling a sample keeps the types.
LEMMA SettleType ==
  ASSUME TypeOK, NEW how \in {"delivered", "lost"}, worker = "write", Settle(how),
         dropped' \in {dropped, dropped + 1}
  PROVE  TypeOK'
<1>1. writing[1] \in Samples
  BY Holding
<1>2. settled' \in Seq(Samples)
  BY ConcatProperties DEF TypeOK, Settle
<1>3. writing' \in Seq(Samples) /\ Len(writing') = 0 /\ worker' # "write"
  BY EmptySeq DEF TypeOK, Settle
<1>4. attempt' \in 0 .. Retries /\ dropped' \in Nat
  BY QueueAssumption DEF TypeOK, Settle
<1>5. fate' \in [Samples -> {"new", "queued", "refused", "shutdown", "delivered", "lost"}]
  BY <1>1 DEF TypeOK, Settle
<1>6. worker' \in Places
  BY DEF TypeOK, Settle, Places
<1> QED BY <1>2, <1>3, <1>4, <1>5, <1>6 DEF TypeOK, Settle, channels, tickets, closing

\* The thread keeps the types.
LEMMA WorkType ==
  ASSUME TypeOK, Work
  PROVE  TypeOK'
<1>1. CASE Top
  <2>1. pings' \in Nat
    BY <1>1 DEF TypeOK, Top
  <2>2. /\ worker' \in Places \ {"write"}
        /\ Len(writing') = 0
    BY <1>1 DEF TypeOK, Top, Goto, Places
  <2>3. back' = back /\ attempt' = attempt /\ writing' = writing
    BY <1>1 DEF Top, Goto
  <2> QED BY <1>1, <2>1, <2>2, <2>3 DEF TypeOK, Top, tickets, closing, samples
<1>2. CASE Poll
  <2>1. CASE Receive
    BY <1>2, <2>1, ReceiveType DEF TypeOK, Poll, Places, tickets, closing, samples
  <2>2. CASE ~Receive
    BY <1>2, <2>2 DEF TypeOK, Poll, Goto, Places, tickets, closing, samples
  <2> QED BY <2>1, <2>2
<1>3. CASE DrainQueue
  <2>1. CASE Receive
    BY <1>3, <2>1, ReceiveType DEF TypeOK, DrainQueue, Places, tickets, closing, samples
  <2>2. CASE ~Receive
    BY <1>3, <2>2 DEF TypeOK, DrainQueue, Goto, Places, tickets, closing, samples
  <2> QED BY <2>1, <2>2
<1>4. CASE AckWaiters
  BY <1>4 DEF TypeOK, AckWaiters, Living, Goto, Places, channels, closing, samples
<1>5. CASE Leave
  BY <1>5 DEF TypeOK, Leave, Goto, Places, channels, tickets, closing, samples
<1>6. CASE Deliver
  BY <1>6, SettleType DEF Deliver
<1>7. CASE Skip
  BY <1>7, SettleType DEF Skip
<1>8. CASE Retry
  <2>1. attempt' \in 0 .. Retries
    BY <1>8, QueueAssumption DEF TypeOK, Retry
  <2> QED BY <1>8, <2>1 DEF TypeOK, Retry, channels, tickets, closing, samples
<1>9. CASE Exhaust
  BY <1>9, SettleType DEF Exhaust
<1> QED BY <1>1, <1>2, <1>3, <1>4, <1>5, <1>6, <1>7, <1>8, <1>9 DEF Work

\* A sample taken off the queue keeps its place in the order.
LEMMA ReceiveOrder ==
  ASSUME TypeOK, AcceptedInOrder, Receive, worker # "write",
         accepted' = accepted, settled' = settled
  PROVE  AcceptedInOrder'
<1>1. writing = <<>>
  BY Holding
<1>2. (settled \o <<>>) \o queue = (settled \o <<Head(queue)>>) \o Tail(queue)
  BY MoveHead DEF TypeOK, Receive
<1> QED BY <1>1, <1>2, Zenon DEF AcceptedInOrder, Receive

\* Settling a sample moves it to the end of what is settled.
LEMMA SettleOrder ==
  ASSUME TypeOK, AcceptedInOrder, NEW how, Settle(how)
  PROVE  AcceptedInOrder'
<1>1. settled \o writing \in Seq(Samples)
  BY ConcatProperties DEF TypeOK
<1>2. (settled \o writing) \o <<>> = settled \o writing
  BY <1>1, ConcatEmptySeq
<1>3. /\ settled' = settled \o writing /\ writing' = <<>>
      /\ queue' = queue /\ accepted' = accepted
  BY DEF Settle, channels
<1> QED BY <1>2, <1>3, Zenon DEF AcceptedInOrder

\* Every step keeps the order of what was accepted.
LEMMA OrderKept ==
  ASSUME TypeOK, AcceptedInOrder, [Next]_vars
  PROVE  AcceptedInOrder'
<1>. DEFINE Same == /\ accepted' = accepted /\ settled' = settled
                    /\ writing' = writing /\ queue' = queue
<1>0. Same => AcceptedInOrder'
  BY Zenon DEF AcceptedInOrder
<1>1. ASSUME NEW s \in Samples, Enqueue(s) PROVE AcceptedInOrder'
  <2>1. settled' = settled /\ writing' = writing
    BY <1>1 DEF Enqueue, thread
  <2>2. CASE accepted' = accepted /\ queue' = queue
    BY <2>1, <2>2, <1>0
  <2>3. CASE accepted' = Append(accepted, s) /\ queue' = Append(queue, s)
    <3>1. settled \o writing \in Seq(Samples) /\ queue \in Seq(Samples)
      BY ConcatProperties DEF TypeOK
    <3>2. Append((settled \o writing) \o queue, s) = (settled \o writing) \o Append(queue, s)
      BY <1>1, <3>1, AppendLast, Zenon
    <3> QED BY <2>1, <2>3, <3>2, Zenon DEF AcceptedInOrder
  <2> QED BY <1>1, <2>2, <2>3 DEF Enqueue
<1>2. ASSUME NEW f \in Flushes, Register(f) \/ Ping(f) \/ Acked(f) \/ GiveUp(f)
      PROVE AcceptedInOrder'
  <2>1. Same
    BY <1>2 DEF Register, Ping, Acked, GiveUp, channels, thread, samples
  <2> QED BY <2>1, <1>0
<1>3. ASSUME NEW c \in Shutdowns, Close(c) \/ TakeHandle(c) \/ Join(c) \/ Budget(c)
      PROVE AcceptedInOrder'
  <2>1. Same
    BY <1>3 DEF Close, TakeHandle, Join, Budget, channels, thread, samples
  <2> QED BY <2>1, <1>0
<1>4. CASE Drop
  <2>1. Same
    BY <1>4 DEF Drop, thread, samples
  <2> QED BY <2>1, <1>0
<1>5. CASE Poll
  <2>1. accepted' = accepted /\ settled' = settled
    BY <1>5 DEF Poll, samples
  <2>2. CASE Receive
    BY <1>5, <2>1, <2>2, ReceiveOrder DEF Poll
  <2>3. CASE ~Receive
    <3>1. Same
      BY <1>5, <2>1, <2>3 DEF Poll, Goto
    <3> QED BY <3>1, <1>0
  <2> QED BY <2>2, <2>3
<1>6. CASE DrainQueue
  <2>1. accepted' = accepted /\ settled' = settled
    BY <1>6 DEF DrainQueue, samples
  <2>2. CASE Receive
    BY <1>6, <2>1, <2>2, ReceiveOrder DEF DrainQueue
  <2>3. CASE ~Receive
    <3>1. Same
      BY <1>6, <2>1, <2>3 DEF DrainQueue, Goto
    <3> QED BY <3>1, <1>0
  <2> QED BY <2>2, <2>3
<1>7. CASE Top \/ AckWaiters \/ Leave \/ Retry
  <2>1. Same
    BY <1>7 DEF Top, AckWaiters, Leave, Retry, Goto, channels, samples
  <2> QED BY <2>1, <1>0
<1>8. CASE Deliver \/ Skip \/ Exhaust
  BY <1>8, SettleOrder DEF Deliver, Skip, Exhaust
<1>9. CASE Done \/ UNCHANGED vars
  <2>1. Same
    BY <1>9 DEF Done, vars
  <2> QED BY <2>1, <1>0
<1> QED BY <1>1, <1>2, <1>3, <1>4, <1>5, <1>6, <1>7, <1>8, <1>9
     DEF Next, Export, Flush, Shutdown, Work

\* Every step keeps the relation between the thread, its callers and the channels.
LEMMA ClosureKept ==
  ASSUME TypeOK, Closure, [Next]_vars
  PROVE  Closure'
<1>1. ASSUME NEW s \in Samples, Enqueue(s) PROVE Closure'
  BY <1>1 DEF Closure, Exiting, Enqueue, tickets, thread, closing
<1>2. ASSUME NEW f \in Flushes, Register(f) PROVE Closure'
  BY <1>2 DEF TypeOK, Closure, Exiting, Register, channels, thread, closing
<1>3. ASSUME NEW f \in Flushes, Ping(f) PROVE Closure'
  BY <1>3 DEF TypeOK, Closure, Exiting, Ping, thread, closing
<1>4. ASSUME NEW f \in Flushes, Acked(f) \/ GiveUp(f) PROVE Closure'
  BY <1>4 DEF TypeOK, Closure, Exiting, Acked, GiveUp, channels, thread, closing
<1>5. ASSUME NEW c \in Shutdowns, Close(c) PROVE Closure'
  BY <1>5 DEF TypeOK, Closure, Exiting, Close, tickets, thread
<1>6. ASSUME NEW c \in Shutdowns, TakeHandle(c) \/ Join(c) \/ Budget(c) PROVE Closure'
  BY <1>6 DEF TypeOK, Closure, Exiting, TakeHandle, Join, Budget, channels, tickets, thread
<1>7. CASE Drop
  BY <1>7 DEF TypeOK, Closure, Exiting, Drop, Returned, tickets, thread
<1>8. CASE Top
  BY <1>8 DEF TypeOK, Closure, Exiting, Top, Goto, tickets, closing
<1>9. CASE Poll
  BY <1>9 DEF TypeOK, Closure, Exiting, Poll, Receive, Goto, tickets, closing
<1>10. CASE DrainQueue
  BY <1>10 DEF TypeOK, Closure, Exiting, DrainQueue, Receive, Goto, tickets, closing
<1>11. CASE AckWaiters
  BY <1>11 DEF TypeOK, Closure, Exiting, AckWaiters, Goto, channels, closing
<1>12. CASE Leave
  BY <1>12 DEF TypeOK, Closure, Exiting, Leave, Goto, channels, tickets, closing
<1>13. CASE Deliver \/ Skip \/ Exhaust
  BY <1>13 DEF TypeOK, Closure, Exiting, Deliver, Skip, Exhaust, Settle, channels, tickets, closing
<1>14. CASE Retry
  BY <1>14 DEF Closure, Exiting, Retry, channels, tickets, closing
<1>15. CASE Done \/ UNCHANGED vars
  BY <1>15 DEF Closure, Exiting, Done, vars
<1> QED BY <1>1, <1>2, <1>3, <1>4, <1>5, <1>6, <1>7, <1>8, <1>9, <1>10, <1>11, <1>12, <1>13,
        <1>14, <1>15 DEF Next, Export, Flush, Shutdown, Work

\* The invariant holds in every reachable state.
LEMMA IInvHolds == Spec => []IInv
<1>1. Init => IInv
  BY InitIInv
<1>2. IInv /\ [Next]_vars => IInv'
  <2> SUFFICES ASSUME IInv, [Next]_vars PROVE IInv'
    OBVIOUS
  <2>1. TypeOK'
    <3>1. CASE Work
      BY <3>1, WorkType DEF IInv
    <3>2. CASE Export \/ Flush \/ Shutdown \/ Drop
      BY <3>2, CallersType DEF IInv
    <3>3. CASE Done \/ UNCHANGED vars
      BY <3>3 DEF IInv, TypeOK, Done, vars
    <3> QED BY <3>1, <3>2, <3>3 DEF Next
  <2>2. AcceptedInOrder'
    BY OrderKept DEF IInv
  <2>3. Closure'
    BY ClosureKept DEF IInv
  <2> QED BY <2>1, <2>2, <2>3 DEF IInv
<1> QED BY <1>1, <1>2, PTL DEF Spec

---------------------------------------------------------------------------
(* What it implies.                                                        *)

\* The queue never exceeds its capacity, a sample is tried at most Retries + 1
\* times, and the thread holds a sample exactly while it writes.
THEOREM QueueTyped == Spec => []TypeOK
<1>1. IInv => TypeOK
  BY DEF IInv
<1> QED BY <1>1, IInvHolds, PTL

\* What enqueue accepted is settled in order and never lost.
THEOREM NothingLost == Spec => []AcceptedInOrder
<1>1. IInv => AcceptedInOrder
  BY DEF IInv
<1> QED BY <1>1, IInvHolds, PTL

\* After a join, and after a flush that found the thread gone, nothing that was
\* accepted is outstanding.
THEOREM JoinIsComplete == Spec => []GoneMeansSettled
<1>1. IInv => GoneMeansSettled
  <2> SUFFICES ASSUME IInv, worker = "finished" PROVE settled = accepted
    BY DEF IInv, Closure, GoneMeansSettled
  <2>1. queue = <<>> /\ writing = <<>> /\ settled \in Seq(Samples)
    BY Holding DEF IInv, Closure, TypeOK
  <2>2. (settled \o <<>>) \o <<>> = settled
    BY <2>1, ConcatEmptySeq
  <2> QED BY <2>1, <2>2, Zenon DEF IInv, AcceptedInOrder
<1> QED BY <1>1, IInvHolds, PTL

---------------------------------------------------------------------------
(* Losses.                                                                 *)

\* The samples whose loss is counted.
Dropped == {s \in Samples : fate[s] \in {"refused", "lost"}}

\* Every sample in the line is in it once, and is known as queued: no sample can
\* be given up twice, nor be both refused and written.
LineDistinct ==
  /\ \A i \in 1 .. Len(queue) : fate[queue[i]] = "queued"
  /\ \A i, j \in 1 .. Len(queue) : i # j => queue[i] # queue[j]
  /\ worker = "write" => /\ fate[writing[1]] = "queued"
                         /\ \A i \in 1 .. Len(queue) : queue[i] # writing[1]

\* The invariant for the count; it does not depend on how many samples there are.
Counting == LineDistinct /\ IsFiniteSet(Dropped) /\ dropped = Cardinality(Dropped)

\* A sample that joins the line is new, so it is not in it yet.
LEMMA EnqueueCounts ==
  ASSUME TypeOK, Counting, NEW s \in Samples, Enqueue(s)
  PROVE  Counting'
<1>1. fate[s] = "new" /\ worker' = worker /\ writing' = writing
  BY DEF Enqueue, thread
<1>2. \A i \in 1 .. Len(queue) : queue[i] # s /\ queue[i] \in Samples
  BY <1>1, ElementOfSeq DEF TypeOK, Counting, LineDistinct
<1>3. worker = "write" => writing[1] # s /\ writing[1] \in Samples
  BY <1>1, Holding DEF Counting, LineDistinct
<1>4. CASE queue' = Append(queue, s) /\ fate' = [fate EXCEPT ![s] = "queued"] /\ dropped' = dropped
  <2>1. /\ Len(queue') = Len(queue) + 1 /\ Len(queue) \in Nat
        /\ \A i \in 1 .. Len(queue) : queue'[i] = queue[i]
        /\ queue'[Len(queue) + 1] = s
    BY <1>4, AppendProperties, LenProperties DEF TypeOK
  <2>2. \A i \in 1 .. Len(queue') : i \in 1 .. Len(queue) \/ i = Len(queue) + 1
    BY <2>1
  <2>3. fate'[s] = "queued" /\ \A x \in Samples : x # s => fate'[x] = fate[x]
    BY <1>4 DEF TypeOK
  <2>4. LineDistinct'
    <3>1. \A i \in 1 .. Len(queue') : fate'[queue'[i]] = "queued"
      BY <1>2, <2>1, <2>2, <2>3 DEF Counting, LineDistinct
    <3>2. \A i, j \in 1 .. Len(queue') : i # j => queue'[i] # queue'[j]
      BY <1>2, <2>1, <2>2 DEF Counting, LineDistinct
    <3>3. worker' = "write" => /\ fate'[writing'[1]] = "queued"
                               /\ \A i \in 1 .. Len(queue') : queue'[i] # writing'[1]
      BY <1>1, <1>3, <2>1, <2>2, <2>3 DEF Counting, LineDistinct
    <3> QED BY <3>1, <3>2, <3>3 DEF LineDistinct
  <2>5. Dropped' = Dropped
    BY <1>1, <2>3 DEF Dropped
  <2> QED BY <1>4, <2>4, <2>5 DEF Counting
<1>5. ASSUME NEW how \in {"refused", "shutdown"}, queue' = queue, fate' = [fate EXCEPT ![s] = how]
      PROVE  LineDistinct'
  <2>1. \A x \in Samples : x # s => fate'[x] = fate[x]
    BY <1>5 DEF TypeOK
  <2> QED BY <1>1, <1>2, <1>3, <1>5, <2>1 DEF Counting, LineDistinct
<1>6. CASE queue' = queue /\ fate' = [fate EXCEPT ![s] = "refused"] /\ dropped' = dropped + 1
  <2>1. Dropped' = Dropped \cup {s} /\ s \notin Dropped
    BY <1>1, <1>6 DEF Dropped, TypeOK
  <2>2. IsFiniteSet(Dropped') /\ Cardinality(Dropped') = Cardinality(Dropped) + 1
    BY <2>1, FS_AddElement DEF Counting
  <2> QED BY <1>5, <1>6, <2>2 DEF Counting
<1>7. CASE queue' = queue /\ fate' = [fate EXCEPT ![s] = "shutdown"] /\ dropped' = dropped
  <2>1. Dropped' = Dropped
    BY <1>1, <1>7 DEF Dropped, TypeOK
  <2> QED BY <1>5, <1>7, <2>1 DEF Counting
<1> QED BY <1>4, <1>6, <1>7 DEF Enqueue

\* The head of the line moves to the writer.
LEMMA ReceiveCounts ==
  ASSUME TypeOK, Counting, worker # "write", Receive, UNCHANGED samples
  PROVE  Counting'
<1>1. /\ Head(queue) = queue[1] /\ Len(queue) \in Nat \ {0}
      /\ queue' = Tail(queue) /\ writing' = <<Head(queue)>>
      /\ fate' = fate /\ dropped' = dropped
  BY EmptySeq DEF Receive, TypeOK, samples
<1>2. Len(queue') = Len(queue) - 1 /\ \A i \in 1 .. Len(queue') : queue'[i] = queue[i + 1]
  BY <1>1, HeadTailProperties DEF Receive, TypeOK
<1>3. \A i \in 1 .. Len(queue') : i + 1 \in 1 .. Len(queue) /\ i + 1 # 1
  BY <1>1, <1>2
<1>4. writing'[1] = queue[1] /\ 1 \in 1 .. Len(queue)
  BY <1>1
<1>5. LineDistinct'
  <2>1. \A i \in 1 .. Len(queue') : fate'[queue'[i]] = "queued"
    BY <1>1, <1>2, <1>3 DEF Counting, LineDistinct
  <2>2. \A i, j \in 1 .. Len(queue') : i # j => queue'[i] # queue'[j]
    <3> TAKE i, j \in 1 .. Len(queue')
    <3>1. i # j => i + 1 # j + 1
      BY <1>1, <1>2
    <3> QED BY <1>2, <1>3, <3>1 DEF Counting, LineDistinct
  <2>3. fate'[writing'[1]] = "queued" /\ \A i \in 1 .. Len(queue') : queue'[i] # writing'[1]
    BY <1>1, <1>2, <1>3, <1>4 DEF Counting, LineDistinct
  <2> QED BY <2>1, <2>2, <2>3 DEF LineDistinct
<1>6. Dropped' = Dropped
  BY <1>1 DEF Dropped
<1> QED BY <1>1, <1>5, <1>6 DEF Counting

\* The sample that is settled was queued, and is not in the line behind it.
LEMMA SettleCounts ==
  ASSUME TypeOK, Counting, Deliver \/ Skip \/ Exhaust
  PROVE  Counting'
<1>1. worker = "write" /\ queue' = queue /\ worker' # "write"
  BY DEF Deliver, Skip, Exhaust, Settle, channels, TypeOK
<1>2. writing[1] \in Samples /\ fate[writing[1]] = "queued"
      /\ \A i \in 1 .. Len(queue) : queue[i] # writing[1] /\ queue[i] \in Samples
  BY <1>1, Holding, ElementOfSeq DEF Counting, LineDistinct, TypeOK
<1>3. ASSUME NEW how \in {"delivered", "lost"}, fate' = [fate EXCEPT ![writing[1]] = how]
      PROVE  LineDistinct'
  <2>1. \A x \in Samples : x # writing[1] => fate'[x] = fate[x]
    BY <1>2, <1>3 DEF TypeOK
  <2> QED BY <1>1, <1>2, <2>1 DEF Counting, LineDistinct
<1>4. CASE fate' = [fate EXCEPT ![writing[1]] = "delivered"] /\ dropped' = dropped
  <2>1. Dropped' = Dropped
    BY <1>2, <1>4 DEF Dropped, TypeOK
  <2> QED BY <1>3, <1>4, <2>1 DEF Counting
<1>5. CASE fate' = [fate EXCEPT ![writing[1]] = "lost"] /\ dropped' = dropped + 1
  <2>1. Dropped' = Dropped \cup {writing[1]} /\ writing[1] \notin Dropped
    BY <1>2, <1>5 DEF Dropped, TypeOK
  <2>2. IsFiniteSet(Dropped') /\ Cardinality(Dropped') = Cardinality(Dropped) + 1
    BY <2>1, FS_AddElement DEF Counting
  <2> QED BY <1>3, <1>5, <2>2 DEF Counting
<1> QED BY <1>4, <1>5 DEF Deliver, Skip, Exhaust, Settle

\* The steps that leave the line and the fates alone.
LEMMA IdleCounts ==
  ASSUME Counting, UNCHANGED <<queue, writing, fate, dropped>>,
         worker' = "write" => worker = "write"
  PROVE  Counting'
<1>1. Dropped' = Dropped
  BY DEF Dropped
<1> QED BY <1>1 DEF Counting, LineDistinct

\* Every step keeps the count.
LEMMA CountKept ==
  ASSUME TypeOK, Counting, [Next]_vars
  PROVE  Counting'
<1>1. CASE Export
  BY <1>1, EnqueueCounts DEF Export
<1>2. CASE Flush \/ Shutdown \/ Drop
  <2>1. UNCHANGED <<queue, writing, fate, dropped, worker>>
    BY <1>2 DEF Flush, Register, Ping, Acked, GiveUp, Shutdown, Close, TakeHandle, Join, Budget,
       Drop, channels, thread, samples
  <2> QED BY <2>1, IdleCounts
<1>3. CASE Poll \/ DrainQueue
  <2>1. worker # "write" /\ UNCHANGED samples
    BY <1>3 DEF Poll, DrainQueue
  <2>2. CASE Receive
    BY <2>1, <2>2, ReceiveCounts
  <2>3. CASE ~Receive
    <3>1. UNCHANGED <<queue, writing, fate, dropped>> /\ worker' # "write"
      BY <1>3, <2>3 DEF Poll, DrainQueue, Goto, samples
    <3> QED BY <3>1, IdleCounts
  <2> QED BY <2>2, <2>3
<1>4. CASE Top \/ AckWaiters \/ Leave \/ Retry
  <2>1. UNCHANGED <<queue, writing, fate, dropped>> /\ (worker' = "write" => worker = "write")
    BY <1>4 DEF Top, AckWaiters, Leave, Retry, Goto, channels, samples
  <2> QED BY <2>1, IdleCounts
<1>5. CASE Deliver \/ Skip \/ Exhaust
  BY <1>5, SettleCounts
<1>6. CASE Done \/ UNCHANGED vars
  <2>1. UNCHANGED <<queue, writing, fate, dropped, worker>>
    BY <1>6 DEF Done, vars
  <2> QED BY <2>1, IdleCounts
<1> QED BY <1>1, <1>2, <1>3, <1>4, <1>5, <1>6 DEF Next, Work

\* dropped_total is exact: a sample is counted once if it was refused at capacity or
\* given up by the writer, and not at all otherwise.
THEOREM LossesCounted == Spec => []DropsCounted
<1>1. Init => Counting
  <2> SUFFICES ASSUME Init PROVE Counting
    OBVIOUS
  <2>1. Dropped = {} /\ LineDistinct
    BY EmptySeq DEF Init, Dropped, LineDistinct
  <2> QED BY <2>1, FS_EmptySet DEF Init, Counting
<1>2. TypeOK /\ Counting /\ [Next]_vars => Counting'
  BY CountKept
<1>3. Counting => DropsCounted
  BY DEF Counting, DropsCounted, Dropped
<1> QED BY <1>1, <1>2, <1>3, QueueTyped, PTL DEF Spec
===========================================================================
