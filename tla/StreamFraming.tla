--------------------------- MODULE StreamFraming ---------------------------
(***************************************************************************)
(* The byte framer of the pass-through path (FramingState in streaming.rs  *)
(* and the loop of advance_stream around it).  The backend's bytes arrive  *)
(* in chunks cut anywhere; line endings are normalized to LF; complete     *)
(* events, each ended by a blank line, are released as soon as they are    *)
(* complete; and a block that outgrows the high-water mark is released     *)
(* with a blank line the framer makes up.                                  *)
(***************************************************************************)
EXTENDS Integers, Sequences, FiniteSets, SequencesExt

CONSTANTS
  X, CR, LF,     \* the alphabet: any byte that ends no line, and the two that do
  HighWater,     \* PENDING_HIGH_WATER
  MaxChunk,      \* bound of the model: the longest chunk
  MaxBytes       \* bound of the model: the bytes one stream carries

Bytes == {X, CR, LF}
Chunks == UNION {[1 .. n -> Bytes] : n \in 1 .. MaxChunk}

VARIABLES
  pending,    \* bytes received and not yet released
  scan_from,  \* bytes before this offset were scanned, the last one excepted
  cr_held,    \* the last chunk ended in a CR whose successor is not known yet
  pc,         \* take (take_framed is next), pull (the backend is), ended
  events,     \* what the framer added to the event counter
  input,      \* history: every byte the backend sent
  output,     \* history: every byte released, made-up blank lines included
  made_up     \* history: the blank lines the framer made up

framing == <<pending, scan_from, cr_held>>
vars == <<pending, scan_from, cr_held, pc, events, input, output, made_up>>

Init ==
  /\ pending = <<>> /\ scan_from = 0 /\ cr_held = FALSE
  /\ pc = "take" /\ events = 0
  /\ input = <<>> /\ output = <<>> /\ made_up = 0

---------------------------------------------------------------------------
\* Where two line feeds meet at or after offset `from` (offsets count from 0).
DoubleNewlines(s, from) ==
  {i \in from .. Len(s) - 2 : s[i + 1] = LF /\ s[i + 2] = LF}

\* The line breaks of s as single LFs: CRLF, a lone CR and a lone LF alike.
Breaks(s) ==
  FoldLeftDomain(LAMBDA done, i :
                   IF s[i] = LF /\ i > 1 /\ s[i - 1] = CR THEN done
                   ELSE Append(done, IF s[i] = CR THEN LF ELSE s[i]),
                 <<>>, s)

\* Mutant: an LF that completes a held CR is not swallowed.
Swallow_bug(bytes) == bytes

\* The part of a chunk that does not belong to the CR held from the last one.
Swallow(bytes) == IF cr_held /\ Head(bytes) = LF THEN Tail(bytes) ELSE bytes

\* FramingState::push.
Push(bytes) ==
  LET rest == Swallow(bytes)
      open == rest # <<>> /\ Last(rest) = CR
  IN  /\ pending' = pending \o (IF cr_held THEN <<LF>> ELSE <<>>)
                            \o Breaks(IF open THEN Front(rest) ELSE rest)
      /\ cr_held' = open
      /\ UNCHANGED scan_from

\* The terminators take_framed finds: the next one is looked for behind the two
\* bytes of the last, so every other pair of a run of line feeds is one.
RunStart(s, i, from) ==
  CHOOSE j \in from .. i : /\ \A k \in j .. i : s[k + 1] = LF
                           /\ j = from \/ s[j] # LF

Terminators(s, from) ==
  {i \in DoubleNewlines(s, from) : (i - RunStart(s, i, from)) % 2 = 0}

\* Everything but the last byte has been scanned.
Frontier(s) == IF s = <<>> THEN 0 ELSE Len(s) - 1

\* take_framed, with the terminators it found.
TakeEvents(found) ==
  LET last == CHOOSE i \in found : \A j \in found : j <= i
      end == last + 2
  IN  /\ output' = output \o SubSeq(pending, 1, end)
      /\ pending' = SubSeq(pending, end + 1, Len(pending))
      /\ scan_from' = Frontier(pending')
      /\ events' = events + Cardinality(found)
      /\ UNCHANGED <<cr_held, pc, made_up>>

\* take_framed above the high-water mark: one event with a made-up blank line.
ForceFlush ==
  /\ output' = output \o pending \o (IF cr_held THEN <<LF>> ELSE <<>>) \o <<LF, LF>>
  /\ pending' = <<>> /\ scan_from' = 0 /\ cr_held' = FALSE
  /\ events' = events + 1 /\ made_up' = made_up + 1
  /\ UNCHANGED pc

TakeNothing ==
  /\ scan_from' = Frontier(pending)
  /\ pc' = "pull"
  /\ UNCHANGED <<pending, cr_held, events, output, made_up>>

\* One turn of advance_stream up to the next await or the next item.
Take ==
  LET start == IF scan_from < Frontier(pending) THEN scan_from ELSE Frontier(pending)
      found == Terminators(pending, start)
  IN  /\ pc = "take"
      /\ \/ found # {} /\ TakeEvents(found)
         \/ found = {} /\ Len(pending) > HighWater /\ ForceFlush
         \/ found = {} /\ Len(pending) <= HighWater /\ TakeNothing
      /\ UNCHANGED input

\* The next chunk of the backend's body.
Pull ==
  /\ pc = "pull"
  /\ \E chunk \in Chunks :
       /\ Len(input) + Len(chunk) <= MaxBytes
       /\ Push(chunk)
       /\ input' = input \o chunk
  /\ pc' = "take"
  /\ UNCHANGED <<events, output, made_up>>

\* The backend's body ends: finish releases the tail as it is.
Finish ==
  /\ pc = "pull"
  /\ output' = output \o pending \o (IF cr_held THEN <<LF>> ELSE <<>>)
  /\ pending' = <<>> /\ scan_from' = 0 /\ cr_held' = FALSE
  /\ pc' = "ended"
  /\ UNCHANGED <<events, input, made_up>>

Next == Take \/ Pull \/ Finish

Spec == Init /\ [][Next]_vars

---------------------------------------------------------------------------
TypeOK ==
  /\ pending \in Seq({X, LF})
  /\ scan_from \in 0 .. Len(pending)
  /\ cr_held \in BOOLEAN
  /\ pc \in {"take", "pull", "ended"}
  /\ events \in Nat /\ made_up \in Nat
  /\ input \in Seq(Bytes) /\ output \in Seq({X, LF})

Held == IF cr_held THEN <<LF>> ELSE <<>>

\* The reference: s with each CRLF, lone CR and lone LF as one LF.
Normalized(s) ==
  FoldLeft(LAMBDA acc, b :
             [cr |-> b = CR,
              out |-> IF b = LF /\ acc.cr THEN acc.out
                      ELSE Append(acc.out, IF b = X THEN X ELSE LF)],
           [cr |-> FALSE, out |-> <<>>], s).out

\* The bytes of s that are no line breaks.
Payload(s) == FoldLeft(LAMBDA acc, b : IF b = X THEN Append(acc, b) ELSE acc, <<>>, s)

\* "CRLF and lone CR ... each become exactly one LF" (push): wherever the
\* backend's bytes are cut into chunks, what was released, what is pending and
\* the held CR are together the whole stream with its line breaks normalized.
\* Nothing is lost, doubled or reordered.  A flush makes up line breaks of its
\* own, but even then no byte of an event's lines is lost or reordered.
LinesPreserved ==
  /\ made_up = 0 => output \o pending \o Held = Normalized(input)
  /\ Payload(output \o pending) = Payload(input)

\* The same comment across a forced flush, which should add its blank line and
\* nothing else.
FlushKeepsLines ==
  made_up = 1 =>
    \E i \in 0 .. Len(output) - 2 :
      /\ output[i + 1] = LF /\ output[i + 2] = LF
      /\ SubSeq(output, 1, i) \o SubSeq(output, i + 3, Len(output)) \o pending \o Held
           = Normalized(input)

\* The debug_assert of take_framed: "scan_from skips a terminator".  No
\* terminator lies in the part of the buffer that will not be scanned again.
ScanSkipsNothing ==
  pc = "take" => \A i \in DoubleNewlines(pending, 0) : i >= scan_from

\* While the framer waits for the backend it holds no complete event back, and
\* never more than the high-water mark: a client is not stalled behind it.
NothingHeldBack ==
  pc = "pull" => DoubleNewlines(pending, 0) = {} /\ Len(pending) <= HighWater

\* The greedy, non-overlapping count of blank lines in s.
BlankLines(s) ==
  FoldLeft(LAMBDA acc, b :
             IF b # LF THEN [n |-> acc.n, half |-> FALSE]
             ELSE IF acc.half THEN [n |-> acc.n + 1, half |-> FALSE]
             ELSE [n |-> acc.n, half |-> TRUE],
           [n |-> 0, half |-> FALSE], s).n

\* "The single source of event counts": the counter does not depend on where
\* the chunks were cut; it is the number of blank lines the client received.
EventsCountBlankLines == made_up = 0 /\ pc # "ended" => events = BlankLines(output)
===========================================================================
