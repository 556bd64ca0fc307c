---------------------------- MODULE AskJevProofs ----------------------------
(***************************************************************************)
(* Proof that ask_jev is honest, for any calls, servers, files and cuts:   *)
(* a server answers one request at a time, no chunk is judged twice or     *)
(* lost, and a verdict that does not admit a gap rests on every chunk of   *)
(* the file.                                                               *)
(*                                                                         *)
(* The chunks of a call are flattened from its files by recursion; what    *)
(* that yields is proved by induction on the number of files, in the form  *)
(* of a least counterexample (LeastNatural).                               *)
(***************************************************************************)
EXTENDS AskJev, SequenceTheorems, FiniteSetTheorems, TLAPS

\* A set of counterexamples among the naturals has a least one.
LEMMA LeastNatural ==
  ASSUME NEW T, T \subseteq Nat, T # {}
  PROVE  \E x \in T : \A y \in T : x <= y
<1> DEFINE B == {0 .. x : x \in T}
           R == StrictSubsetOrdering(Nat)
<1>1. B \subseteq FiniteSubsetsOf(Nat)
  <2> SUFFICES ASSUME NEW x \in T  PROVE 0 .. x \in FiniteSubsetsOf(Nat)  OBVIOUS
  <2>1. 0 .. x \subseteq Nat /\ x \in Int /\ 0 \in Int  OBVIOUS
  <2>2. IsFiniteSet(0 .. x)  BY <2>1, FS_Interval
  <2> QED  BY <2>1, <2>2 DEF FiniteSubsetsOf
<1>2. B # {}  OBVIOUS
<1>3. IsWellFoundedOn(R, FiniteSubsetsOf(Nat))  BY FS_StrictSubsetOrderingWellFounded
<1>4. PICK b \in B : \A d \in B : ~ (<<d, b>> \in R)
  <2> HIDE DEF B, R
  <2> QED  BY <1>1, <1>2, <1>3, WFMin
<1>5. PICK x \in T : b = 0 .. x  OBVIOUS
<1>6. ASSUME NEW y \in T, y < x  PROVE FALSE
  <2>1. 0 .. y \subseteq Nat /\ 0 .. x \subseteq Nat  OBVIOUS
  <2>2. 0 .. y \subseteq 0 .. x /\ x \in 0 .. x /\ x \notin 0 .. y  BY <1>6
  <2>3. <<0 .. y, 0 .. x>> \in R  BY <2>1, <2>2 DEF StrictSubsetOrdering
  <2> QED  BY <1>4, <1>5, <2>3
<1> QED  BY <1>6

\* What a configuration satisfies: there is a server, and a file has a number of chunks.
Constants ==
  /\ Order \in Seq(Servers) /\ Order # <<>>
  /\ ToolWorkers \in Nat
  /\ ChunksOf \in [Calls -> Seq(Nat)]

\* The chunks of the first n files of c.
ChunksUpTo(c, n) ==
  {t \in [file : 1 .. n, chunk : Nat, tries : {0}] : t.chunk \in 1 .. ChunksOf[c][t.file]}

Id(t) == <<t.file, t.chunk>>
Distinct(seq) == \A i, j \in DOMAIN seq : i # j => Id(seq[i]) # Id(seq[j])

\* Concatenating the chunks of the next file.
LEMMA NextFile ==
  ASSUME NEW c \in Calls, Constants, NEW n \in Nat, n + 1 <= Len(ChunksOf[c]),
         NEW seq \in Seq(ChunksUpTo(c, n)), Distinct(seq)
  PROVE  LET more == seq \o [k \in 1 .. ChunksOf[c][n + 1] |-> Chunk(n + 1, k)]
         IN  more \in Seq(ChunksUpTo(c, n + 1)) /\ Distinct(more)
<1> DEFINE m == ChunksOf[c][n + 1]
           own == [k \in 1 .. m |-> Chunk(n + 1, k)]
<1>1. m \in Nat  BY DEF Constants
<1>2. own \in Seq(ChunksUpTo(c, n + 1)) /\ Len(own) = m
  <2>1. \A k \in 1 .. m : Chunk(n + 1, k) \in ChunksUpTo(c, n + 1)  BY <1>1 DEF Chunk, ChunksUpTo
  <2> QED  BY <1>1, <2>1
<1>3. seq \in Seq(ChunksUpTo(c, n + 1))
  <2>1. ChunksUpTo(c, n) \subseteq ChunksUpTo(c, n + 1)  BY DEF ChunksUpTo
  <2> QED  BY <2>1, SeqMonotonic
<1> DEFINE more == seq \o own
<1>4. /\ more \in Seq(ChunksUpTo(c, n + 1)) /\ Len(more) = Len(seq) + m
      /\ \A i \in 1 .. Len(more) : more[i] = IF i <= Len(seq) THEN seq[i] ELSE own[i - Len(seq)]
  <2> HIDE DEF own
  <2> QED  BY <1>2, <1>3, ConcatProperties
<1>5. Distinct(more)
  <2> SUFFICES ASSUME NEW i \in 1 .. Len(more), NEW j \in 1 .. Len(more), i # j
               PROVE  Id(more[i]) # Id(more[j])
    <3> HIDE DEF more
    <3>1. DOMAIN more = 1 .. Len(more)  BY <1>4
    <3> QED  BY <3>1 DEF Distinct
  <2>1. \A k \in 1 .. Len(seq) : seq[k].file \in 1 .. n
    BY DEF ChunksUpTo
  <2>2. \A k \in 1 .. m : own[k].file = n + 1 /\ own[k].chunk = k  BY DEF Chunk
  <2>3. DOMAIN seq = 1 .. Len(seq) /\ Len(seq) \in Nat  OBVIOUS
  <2> HIDE DEF own
  <2>4. CASE i <= Len(seq) /\ j <= Len(seq)
    <3>1. more[i] = seq[i] /\ more[j] = seq[j] /\ i \in 1 .. Len(seq) /\ j \in 1 .. Len(seq)
      BY <1>4, <2>3, <2>4
    <3>2. Distinct(seq)  OBVIOUS
    <3> QED  BY ONLY <3>1, <3>2, <2>3, i # j DEF Distinct
  <2>5. CASE i <= Len(seq) /\ j > Len(seq)
    <3>1. j - Len(seq) \in 1 .. m  BY <1>1, <1>4, <2>3, <2>5, SMTT(30)
    <3> QED  BY <1>4, <2>1, <2>2, <2>3, <2>5, <3>1 DEF Id
  <2>6. CASE j <= Len(seq) /\ i > Len(seq)
    <3>1. i - Len(seq) \in 1 .. m  BY <1>1, <1>4, <2>3, <2>6, SMTT(30)
    <3> QED  BY <1>4, <2>1, <2>2, <2>3, <2>6, <3>1 DEF Id
  <2>7. CASE i > Len(seq) /\ j > Len(seq)
    <3>1. i - Len(seq) \in 1 .. m /\ j - Len(seq) \in 1 .. m  BY <1>1, <1>4, <2>3, <2>7
    <3> QED  BY <1>4, <2>2, <2>3, <2>7, <3>1, SMTT(30) DEF Id
  <2> QED  BY <2>3, <2>4, <2>5, <2>6, <2>7
<1> QED  BY <1>4, <1>5

\* FlattenSeq is defined by recursion on the number of files; the recursion has a solution.
FileChunks(c) == [f \in 1 .. Len(ChunksOf[c]) |-> [k \in 1 .. ChunksOf[c][f] |-> Chunk(f, k)]]
Flattens(c, g, n) ==
  g = [i \in 1 .. n |-> IF i = 1 THEN FileChunks(c)[i] ELSE g[i - 1] \o FileChunks(c)[i]]

\* By induction on the number of files.
LEMMA FlattenExists ==
  ASSUME NEW c \in Calls, Constants, NEW n \in Nat
  PROVE  \E g : Flattens(c, g, n)
<1> DEFINE T == {k \in Nat : ~ \E g : Flattens(c, g, k)}
<1>1. CASE T = {}  BY <1>1
<1>2. CASE T # {}
  <2> HIDE DEF T
  <2>1. PICK k \in T : \A y \in T : k <= y  BY <1>2, LeastNatural DEF T
  <2>2. k \in Nat /\ ~ \E g : Flattens(c, g, k)  BY DEF T
  <2>3. k # 0
    <3>1. Flattens(c, <<>>, 0)  BY DEF Flattens
    <3> QED  BY <2>2, <3>1
  <2>4. k - 1 \in Nat /\ k - 1 \notin T  BY <2>1, <2>2, <2>3
  <2>5. PICK g : Flattens(c, g, k - 1)  BY <2>4 DEF T
  <2> DEFINE h == [i \in 1 .. k |-> IF i = 1 THEN FileChunks(c)[i] ELSE g[i - 1] \o FileChunks(c)[i]]
  <2>6. \A i \in 1 .. k - 1 : h[i] = g[i]
    <3> DEFINE G == [i \in 1 .. k - 1 |-> IF i = 1 THEN FileChunks(c)[i] ELSE g[i - 1] \o FileChunks(c)[i]]
    <3>1. g = G  BY <2>5 DEF Flattens
    <3>2. \A i \in 1 .. k - 1 : G[i] = h[i]  BY <2>2
    <3> HIDE DEF G
    <3> QED  BY <3>1, <3>2
  <2>7. Flattens(c, h, k)
    <3> HIDE DEF h
    <3>1. \A i \in 1 .. k : i # 1 => g[i - 1] = h[i - 1]
      <4> SUFFICES ASSUME NEW i \in 1 .. k, i # 1  PROVE g[i - 1] = h[i - 1]  OBVIOUS
      <4>1. i - 1 \in 1 .. k - 1  BY <2>2
      <4> QED  BY <2>6, <4>1
    <3> QED  BY <2>2, <3>1 DEF Flattens, h
  <2> QED  BY <2>2, <2>7
<1> QED  BY <1>1, <1>2

\* The chunks of a call are the chunks of its files, each once.
LEMMA TasksEnumerate ==
  ASSUME NEW c \in Calls, Constants
  PROVE  Tasks(c) \in Seq(ChunksUpTo(c, Len(ChunksOf[c]))) /\ Distinct(Tasks(c))
<1> DEFINE n == Len(ChunksOf[c])
           flat == CHOOSE g : Flattens(c, g, n)
<1>1. n \in Nat  BY DEF Constants
<1>2. Flattens(c, flat, n)  BY <1>1, FlattenExists
<1>3. Len(FileChunks(c)) = n  BY <1>1 DEF FileChunks
<1>4. n # 0 => Tasks(c) = flat[n]
  BY <1>3 DEF Tasks, FlattenSeq, FileChunks, Flattens
<1>5. n = 0 => Tasks(c) = <<>>
  BY <1>3 DEF Tasks, FlattenSeq, FileChunks
<1> DEFINE Good(k) == flat[k] \in Seq(ChunksUpTo(c, k)) /\ Distinct(flat[k])
           Bad == {k \in 1 .. n : ~Good(k)}
<1> HIDE DEF flat
<1>6. \A k \in 1 .. n : flat[k] = IF k = 1 THEN FileChunks(c)[k] ELSE flat[k - 1] \o FileChunks(c)[k]
  <2> DEFINE G == [i \in 1 .. n |-> IF i = 1 THEN FileChunks(c)[i] ELSE flat[i - 1] \o FileChunks(c)[i]]
  <2>1. flat = G  BY <1>2 DEF Flattens
  <2>2. \A k \in 1 .. n : G[k] = IF k = 1 THEN FileChunks(c)[k] ELSE flat[k - 1] \o FileChunks(c)[k]  OBVIOUS
  <2> HIDE DEF G
  <2> QED  BY <2>1, <2>2
<1>7. Bad = {}
  <2> SUFFICES ASSUME Bad # {}  PROVE FALSE  OBVIOUS
  <2>1. PICK k \in Bad : \A j \in Bad : k <= j
    <3>1. Bad \subseteq Nat  BY <1>1
    <3> HIDE DEF Bad
    <3> QED  BY <3>1, LeastNatural
  <2>2. k \in 1 .. n /\ ~Good(k)  OBVIOUS
  <2> DEFINE own == [j \in 1 .. ChunksOf[c][k] |-> Chunk(k, j)]
  <2>3. FileChunks(c)[k] = own  BY <2>2 DEF FileChunks
  <2>4. ASSUME NEW seq \in Seq(ChunksUpTo(c, k - 1)), Distinct(seq)
        PROVE  seq \o own \in Seq(ChunksUpTo(c, k)) /\ Distinct(seq \o own)
    <3>1. k - 1 \in Nat /\ k - 1 + 1 = k /\ k - 1 + 1 <= Len(ChunksOf[c])  BY <1>1, <2>2
    <3> QED  BY <2>4, <3>1, NextFile
  <2>5. CASE k = 1
    <3>1. <<>> \in Seq(ChunksUpTo(c, k - 1)) /\ Distinct(<<>>)  BY DEF Distinct
    <3>2. own \in Seq({own[j] : j \in DOMAIN own})
      <4>1. ChunksOf[c][k] \in Nat  BY <2>2 DEF Constants
      <4> QED  BY <4>1, SMTT(30)
    <3>3. <<>> \o own = own
      <4> HIDE DEF own
      <4> QED  BY <3>2, ConcatEmptySeq
    <3>4. flat[k] = own  BY <1>6, <2>2, <2>3, <2>5
    <3> HIDE DEF own
    <3> QED  BY <2>2, <2>4, <3>1, <3>3, <3>4
  <2>6. CASE k # 1
    <3>1. k - 1 \in 1 .. n /\ k - 1 \notin Bad  BY <1>1, <2>1, <2>2, <2>6
    <3>2. Good(k - 1)  BY <3>1
    <3>3. flat[k] = flat[k - 1] \o own  BY <1>6, <2>2, <2>3, <2>6
    <3> HIDE DEF own
    <3> QED  BY <2>2, <2>4, <3>2, <3>3
  <2> QED  BY <2>5, <2>6
<1>8. CASE n = 0  BY <1>5, <1>8 DEF Distinct
<1>9. CASE n # 0
  <2>1. n \in 1 .. n  BY <1>1, <1>9
  <2>2. Good(n)  BY <1>7, <2>1
  <2> QED  BY <1>4, <1>9, <2>2 DEF flat
<1> QED  BY <1>8, <1>9

---------------------------------------------------------------------------
(* The queue of a server.                                                  *)

States == {"waiting", "sending", "left", "settled"}
Entries == [call : Calls, state : States]

Has(q, c) == \E i \in DOMAIN q : q[i].call = c /\ q[i].state \in {"waiting", "sending"}

\* Settled promises are forgotten at once, because turns come in order; only the first can
\* be sending; a call is in the queue at most once.
Orderly(q) ==
  /\ \A i \in DOMAIN q : q[i].state # "settled" /\ (i # 1 => q[i].state # "sending")
  /\ \A i, j \in DOMAIN q :
       /\ q[i].call = q[j].call
       /\ q[i].state \in {"waiting", "sending"} /\ q[j].state \in {"waiting", "sending"}
       => i = j

\* A turn comes only to the first of an orderly queue.
LEMMA TurnIsFirst ==
  ASSUME NEW q \in Seq(Entries), Orderly(q), NEW i \in DOMAIN q, TurnCame(q, i)
  PROVE  i = 1
<1>1. SUFFICES ASSUME i # 1  PROVE FALSE  OBVIOUS
<1>2. i - 1 \in DOMAIN q  BY <1>1
<1> QED  BY <1>1, <1>2 DEF TurnCame, Orderly

\* A queue without settled promises is not trimmed.
LEMMA TrimKeeps ==
  ASSUME NEW q \in Seq(Entries), \A i \in DOMAIN q : q[i].state # "settled"
  PROVE  Trim(q) = q
<1> DEFINE U == {i \in DOMAIN q : q[i].state # "settled"}
<1>1. U = 1 .. Len(q)  OBVIOUS
<1>2. CASE Len(q) = 0  BY <1>1, <1>2 DEF Trim
<1>3. CASE Len(q) # 0
  <2>1. Min(U) = 1
    <3>1. 1 \in U /\ \A y \in U : 1 <= y  BY <1>1, <1>3
    <3>2. \A x \in U : (\A y \in U : x <= y) => x = 1  BY <1>1, <3>1
    <3> HIDE DEF U
    <3> QED  BY <3>1, <3>2 DEF Min
  <2>2. SubSeq(q, 1, Len(q)) = q  BY SubSeqFull
  <2>3. U # {}  BY <1>1, <1>3
  <2> QED  BY <2>1, <2>2, <2>3 DEF Trim
<1> QED  BY <1>2, <1>3

\* A settled promise at the front is forgotten, the others stay.
LEMMA TrimDrops ==
  ASSUME NEW q \in Seq(Entries), q # <<>>, q[1].state = "settled",
         \A i \in DOMAIN q : i # 1 => q[i].state # "settled"
  PROVE  Trim(q) = Tail(q)
<1> DEFINE U == {i \in DOMAIN q : q[i].state # "settled"}
<1>0. Len(q) \in Nat \ {0}  BY EmptySeq
<1>1. U = 2 .. Len(q)  BY <1>0
<1>2. CASE Len(q) = 1
  <2>1. Tail(q) = <<>>
    <3>1. Tail(q) \in Seq(Entries) /\ Len(Tail(q)) = 0  BY <1>2, HeadTailProperties
    <3> QED  BY <3>1, EmptySeq
  <2> QED  BY <1>1, <1>2, <2>1 DEF Trim
<1>3. CASE Len(q) # 1
  <2>0. \A n \in Nat \ {0} : n # 1 => 2 \in 2 .. n  BY ONLY TRUE
  <2>1. Min(U) = 2
    <3> HIDE DEF U
    <3>0. 2 \in U  BY ONLY <1>0, <1>1, <1>3, <2>0, Zenon
    <3>1. 2 \in U /\ \A y \in U : 2 <= y  BY <1>1, <3>0
    <3>2. \A x \in U : (\A y \in U : x <= y) => x = 2  BY <1>1, <3>1
    <3> QED  BY <3>1, <3>2 DEF Min
  <2>2. Tail(q) = SubSeq(q, 2, Len(q))  BY TailIsSubSeq
  <2>3. U # {}
    <3> HIDE DEF U
    <3>1. 2 \in U  BY ONLY <1>0, <1>1, <1>3, <2>0, Zenon
    <3> QED  BY <3>1
  <2> QED  BY <2>1, <2>2, <2>3 DEF Trim
<1> QED  BY <1>2, <1>3

\* Settling the first promise removes it.
LEMMA SettleFirst ==
  ASSUME NEW q \in Seq(Entries), Orderly(q), q # <<>>
  PROVE  /\ Mark(q, 1, "settled") = Tail(q)
         /\ Tail(q) \in Seq(Entries) /\ Orderly(Tail(q))
         /\ \A d : Has(Tail(q), d) => Has(q, d)
         /\ \A d : q[1].call = d /\ q[1].state \in {"waiting", "sending"} => ~Has(Tail(q), d)
<1> DEFINE p == [q EXCEPT ![1].state = "settled"]
<1>1. 1 \in DOMAIN q /\ DOMAIN q = 1 .. Len(q) /\ Len(q) \in Nat  OBVIOUS
<1>2. q[1] \in Entries  BY <1>1
<1>3. [q[1] EXCEPT !.state = "settled"] \in Entries
      /\ [q[1] EXCEPT !.state = "settled"].state = "settled"  BY <1>2 DEF Entries, States
<1>4. p = [q EXCEPT ![1] = [q[1] EXCEPT !.state = "settled"]]  OBVIOUS
<1>5. p \in Seq(Entries) /\ Len(p) = Len(q) /\ p[1].state = "settled"
      /\ \A i \in 1 .. Len(q) : i # 1 => p[i] = q[i]
  BY <1>1, <1>3, <1>4, ExceptSeq
<1>6. Trim(p) = Tail(p)
  <2> HIDE DEF p
  <2>1. p # <<>> /\ DOMAIN p = 1 .. Len(q)  BY <1>1, <1>5
  <2> QED  BY <1>1, <1>5, <2>1, TrimDrops DEF Orderly
<1>7. /\ Tail(q) \in Seq(Entries) /\ Len(Tail(q)) = Len(q) - 1
      /\ \A i \in 1 .. Len(Tail(q)) : Tail(q)[i] = q[i + 1]
  BY HeadTailProperties
<1>8. /\ Tail(p) \in Seq(Entries) /\ Len(Tail(p)) = Len(p) - 1
      /\ \A i \in 1 .. Len(Tail(p)) : Tail(p)[i] = p[i + 1]
  <2> HIDE DEF p
  <2>1. p # <<>>  BY <1>1, <1>5
  <2> QED  BY <1>5, <2>1, HeadTailProperties
<1>9. Tail(p) = Tail(q)
  <2> HIDE DEF p
  <2>1. \A i \in 1 .. Len(Tail(p)) : Tail(p)[i] = Tail(q)[i]
    <3> SUFFICES ASSUME NEW i \in 1 .. Len(Tail(p))  PROVE Tail(p)[i] = Tail(q)[i]  OBVIOUS
    <3>1. i + 1 \in 1 .. Len(q) /\ i + 1 # 1 /\ i \in 1 .. Len(Tail(q))  BY <1>1, <1>5, <1>7, <1>8
    <3> QED  BY <1>5, <1>7, <1>8, <3>1
  <2> QED  BY <1>5, <1>7, <1>8, <2>1, SeqEqual
<1> DEFINE t == Tail(q)
<1> HIDE DEF t
<1>10. /\ t \in Seq(Entries) /\ DOMAIN t = 1 .. Len(q) - 1
       /\ \A i \in DOMAIN t : i + 1 \in DOMAIN q /\ t[i] = q[i + 1] /\ i + 1 # 1
  BY <1>1, <1>7 DEF t
<1>11. Orderly(t)
  <2>1. \A i \in DOMAIN t : t[i].state # "settled" /\ (i # 1 => t[i].state # "sending")
    BY <1>10 DEF Orderly
  <2>2. ASSUME NEW i \in DOMAIN t, NEW j \in DOMAIN t, t[i].call = t[j].call,
               t[i].state \in {"waiting", "sending"}, t[j].state \in {"waiting", "sending"}
        PROVE  i = j
    <3>1. i + 1 = j + 1  BY <1>10, <2>2 DEF Orderly
    <3> QED  BY <1>10, <3>1
  <2> QED  BY <2>1, <2>2 DEF Orderly
<1>12. \A d : Has(t, d) => Has(q, d)  BY <1>10 DEF Has
<1>13. ASSUME NEW d, q[1].call = d, q[1].state \in {"waiting", "sending"}, Has(t, d)
       PROVE  FALSE
  <2>1. PICK i \in DOMAIN t : t[i].call = d /\ t[i].state \in {"waiting", "sending"}  BY <1>13 DEF Has
  <2>2. i + 1 = 1  BY <1>1, <1>10, <1>13, <2>1 DEF Orderly
  <2> QED  BY <1>10, <2>2
<1> QED  BY <1>6, <1>9, <1>10, <1>11, <1>12, <1>13 DEF Mark, t

\* The first waiter sends.
LEMMA SendFirst ==
  ASSUME NEW q \in Seq(Entries), Orderly(q), q # <<>>, q[1].state = "waiting"
  PROVE  LET p == Mark(q, 1, "sending")
         IN  p \in Seq(Entries) /\ Orderly(p) /\ \A d : Has(p, d) => Has(q, d)
<1> DEFINE p == [q EXCEPT ![1].state = "sending"]
<1>1. 1 \in DOMAIN q /\ DOMAIN q = 1 .. Len(q) /\ Len(q) \in Nat  OBVIOUS
<1>2. q[1] \in Entries  BY <1>1
<1>3. p \in Seq(Entries) /\ DOMAIN p = DOMAIN q
      /\ p[1].call = q[1].call /\ p[1].state = "sending"
      /\ \A i \in DOMAIN q : i # 1 => p[i] = q[i]
  BY <1>1, <1>2 DEF Entries, States
<1> HIDE DEF p
<1>4. Trim(p) = p  BY <1>1, <1>3, TrimKeeps DEF Orderly
<1>5. \A i \in DOMAIN p : p[i].call = q[i].call
        /\ (p[i].state \in {"waiting", "sending"} => q[i].state \in {"waiting", "sending"})
  BY <1>3
<1>6. Orderly(p)  BY <1>3, <1>5 DEF Orderly
<1>7. \A d : Has(p, d) => Has(q, d)  BY <1>3, <1>5 DEF Has
<1>8. Mark(q, 1, "sending") = p  BY <1>4 DEF Mark, p
<1> QED  BY <1>3, <1>6, <1>7, <1>8

\* A call that is not in the queue joins it.
LEMMA JoinLast ==
  ASSUME NEW q \in Seq(Entries), Orderly(q), NEW c \in Calls, ~Has(q, c)
  PROVE  /\ Join(q, c) \in Seq(Entries) /\ Orderly(Join(q, c))
         /\ \A d : d # c /\ Has(Join(q, c), d) => Has(q, d)
<1> DEFINE e == [call |-> c, state |-> "waiting"]
           p == Append(q, e)
<1>1. e \in Entries  BY DEF Entries, States
<1>2. p \in Seq(Entries) /\ DOMAIN p = 1 .. Len(q) + 1 /\ DOMAIN q = 1 .. Len(q) /\ Len(q) \in Nat
      /\ p[Len(q) + 1] = e /\ \A i \in 1 .. Len(q) : p[i] = q[i]
  BY <1>1
<1>3. e.call = c /\ e.state = "waiting"  OBVIOUS
<1> HIDE DEF e, p
<1>4. Orderly(p)
  <2>1. \A i \in DOMAIN p : p[i].state # "settled" /\ (i # 1 => p[i].state # "sending")
    BY <1>2, <1>3 DEF Orderly
  <2>2. ASSUME NEW i \in DOMAIN p, NEW j \in DOMAIN p, p[i].call = p[j].call,
               p[i].state \in {"waiting", "sending"}, p[j].state \in {"waiting", "sending"}
        PROVE  i = j
    <3>1. CASE i \in 1 .. Len(q) /\ j \in 1 .. Len(q)  BY <1>2, <2>2, <3>1 DEF Orderly
    <3>2. CASE i = Len(q) + 1 /\ j \in 1 .. Len(q)  BY <1>2, <1>3, <2>2, <3>2 DEF Has
    <3>3. CASE j = Len(q) + 1 /\ i \in 1 .. Len(q)  BY <1>2, <1>3, <2>2, <3>3 DEF Has
    <3> QED  BY <1>2, <3>1, <3>2, <3>3
  <2> QED  BY <2>1, <2>2 DEF Orderly
<1>5. ASSUME NEW d, d # c, Has(p, d)  PROVE Has(q, d)
  <2>1. PICK i \in DOMAIN p : p[i].call = d /\ p[i].state \in {"waiting", "sending"}  BY <1>5 DEF Has
  <2>2. i \in 1 .. Len(q)  BY <1>2, <1>3, <1>5, <2>1
  <2> QED  BY <1>2, <2>1, <2>2 DEF Has
<1>6. Join(q, c) = p  BY DEF Join, p, e
<1> QED  BY <1>2, <1>4, <1>5, <1>6

\* A waiter leaves the queue.
LEMMA LeaveQueue ==
  ASSUME NEW q \in Seq(Entries), Orderly(q), NEW k \in DOMAIN q, q[k].state = "waiting"
  PROVE  LET p == [q EXCEPT ![k].state = "left"]
         IN  /\ p \in Seq(Entries) /\ Orderly(p)
             /\ \A d : Has(p, d) => Has(q, d)
             /\ ~Has(p, q[k].call)
<1> DEFINE p == [q EXCEPT ![k].state = "left"]
<1>1. q[k] \in Entries  OBVIOUS
<1>2. p \in Seq(Entries) /\ DOMAIN p = DOMAIN q
      /\ p[k].call = q[k].call /\ p[k].state = "left"
      /\ \A i \in DOMAIN q : i # k => p[i] = q[i]
  BY <1>1 DEF Entries, States
<1> HIDE DEF p
<1>3. \A i \in DOMAIN p : p[i].call = q[i].call /\ (i # k => p[i].state = q[i].state)  BY <1>2
<1>4. Orderly(p)  BY <1>2, <1>3 DEF Orderly
<1>5. \A d : Has(p, d) => Has(q, d)  BY <1>2, <1>3 DEF Has
<1>6. ~Has(p, q[k].call)  BY <1>2, <1>3 DEF Has, Orderly
<1> QED  BY <1>2, <1>4, <1>5, <1>6 DEF p

---------------------------------------------------------------------------
(* The inductive invariant.                                                *)

Phases == {"new", "route", "prepared", "send", "done", "failed", "aborted", "advised"}
AnyChunk == [file : Nat, chunk : Nat, tries : Nat]

Types ==
  /\ turns \in [Servers -> Seq(Entries)]
  /\ phase \in [Calls -> Phases] /\ aborted \in [Calls -> BOOLEAN]
  /\ at \in [Calls -> 1 .. Len(Order)]
  /\ pending \in [Calls -> Seq(AnyChunk)] /\ parts \in [Calls -> Seq(AnyChunk)]
  /\ task \in [Calls -> [Servers -> AnyChunk \cup {None}]]
  /\ asker \in [Calls -> [Servers -> {"off", "idle", "asking", "stopped"}]]
  /\ launched \in [Calls -> Nat] /\ unfinished \in [Calls -> Nat]

ChunkSet(c) ==
  {t \in AnyChunk : t.file \in 1 .. Len(ChunksOf[c]) /\ t.chunk \in 1 .. ChunksOf[c][t.file]}

\* The servers that have a chunk of c.
Asking(c) == {s \in Servers : asker[c][s] = "asking"}

\* A call is in a queue only for the request it waits for; the router has one.
Queued(c) ==
  /\ \A s \in Servers : Has(turns[s], c) =>
       phase[c] = "route" \/ (phase[c] = "send" /\ asker[c][s] = "asking")
  /\ phase[c] = "route" => \A s, t \in Servers : Has(turns[s], c) /\ Has(turns[t], c) => s = t

\* Only a call that sends has workers.
Workers(c) == phase[c] # "send" => \A s \in Servers : asker[c][s] \in {"off", "stopped"}

\* The chunks that wait, that are asked and that are answered are all different.
Apart(c) ==
  /\ \A i \in DOMAIN pending[c] : pending[c][i] \in ChunkSet(c)
  /\ \A i \in DOMAIN parts[c] : parts[c][i] \in ChunkSet(c)
  /\ \A s \in Asking(c) : task[c][s] \in ChunkSet(c)
  /\ Distinct(pending[c]) /\ Distinct(parts[c])
  /\ \A s, t \in Asking(c) : s # t => Id(task[c][s]) # Id(task[c][t])
  /\ \A i \in DOMAIN pending[c], j \in DOMAIN parts[c] : Id(pending[c][i]) # Id(parts[c][j])
  /\ \A i \in DOMAIN pending[c], s \in Asking(c) : Id(pending[c][i]) # Id(task[c][s])
  /\ \A i \in DOMAIN parts[c], s \in Asking(c) : Id(parts[c][i]) # Id(task[c][s])

\* No chunk of a call that is not interrupted is missing.
Whole(c) ==
  /\ ~aborted[c] /\ phase[c] \in {"new", "route", "prepared", "send"} =>
       Len(pending[c]) + Len(parts[c]) + unfinished[c] + Cardinality(Asking(c)) = Len(Tasks(c))
  /\ phase[c] \in {"done", "failed"} => unfinished[c] + Len(parts[c]) = Len(Tasks(c))

Local(c) == Queued(c) /\ Workers(c) /\ Apart(c) /\ Whole(c)

IInv == Types /\ (\A s \in Servers : Orderly(turns[s])) /\ \A c \in Calls : Local(c)

---------------------------------------------------------------------------
\* A call whose own state stays, and that joins no queue, keeps its invariant.
LEMMA Frame ==
  ASSUME NEW d \in Calls, Local(d),
         phase'[d] = phase[d], aborted'[d] = aborted[d], at'[d] = at[d], pending'[d] = pending[d],
         parts'[d] = parts[d], task'[d] = task[d], asker'[d] = asker[d], unfinished'[d] = unfinished[d],
         \A s \in Servers : Has(turns'[s], d) => Has(turns[s], d)
  PROVE  Local(d)'
<1>1. Asking(d)' = Asking(d)  BY DEF Asking
<1>2. Queued(d)'  BY DEF Local, Queued
<1>3. Workers(d)'  BY DEF Local, Workers
<1>4. Apart(d)'  BY <1>1 DEF Local, Apart, ChunkSet
<1>5. Whole(d)'  BY <1>1 DEF Local, Whole, Tasks, Chunk
<1> QED  BY <1>2, <1>3, <1>4, <1>5 DEF Local

\* Chunks that are dropped disturb no others.
LEMMA Drop ==
  ASSUME NEW c \in Calls, Apart(c), pending'[c] = pending[c], parts'[c] = parts[c],
         Asking(c)' \subseteq Asking(c), \A s \in Asking(c)' : task'[c][s] = task[c][s]
  PROVE  Apart(c)'
<1>1. \A s \in Asking(c)' : s \in Asking(c) /\ task'[c][s] = task[c][s]  OBVIOUS
<1>2. /\ \A i \in DOMAIN pending'[c] : pending'[c][i] \in ChunkSet(c)
      /\ \A i \in DOMAIN parts'[c] : parts'[c][i] \in ChunkSet(c)
      /\ Distinct(pending'[c]) /\ Distinct(parts'[c])
      /\ \A i \in DOMAIN pending'[c], j \in DOMAIN parts'[c] : Id(pending'[c][i]) # Id(parts'[c][j])
  BY DEF Apart
<1>3. /\ \A s \in Asking(c)' : task'[c][s] \in ChunkSet(c)
      /\ \A s, t \in Asking(c)' : s # t => Id(task'[c][s]) # Id(task'[c][t])
      /\ \A i \in DOMAIN pending'[c], s \in Asking(c)' : Id(pending'[c][i]) # Id(task'[c][s])
      /\ \A i \in DOMAIN parts'[c], s \in Asking(c)' : Id(parts'[c][i]) # Id(task'[c][s])
  BY <1>1 DEF Apart
<1>4. ChunkSet(c)' = ChunkSet(c)  BY DEF ChunkSet
<1>5. Distinct(pending[c])' /\ Distinct(parts[c])'  BY <1>2 DEF Distinct, Id
<1>6. \A t : Id(t)' = Id(t')  BY DEF Id
<1> QED  BY <1>2, <1>3, <1>4, <1>5, <1>6 DEF Apart, Id

\* The request of c on s is over.
LEMMA Released ==
  ASSUME IInv, NEW c \in Calls, NEW s \in Servers,
         \E i \in DOMAIN turns[s] : turns[s][i] = [call |-> c, state |-> "sending"]
  PROVE  LET q == [turns EXCEPT ![s] = Mark(@, Place(s, c), "settled")]
         IN  /\ q \in [Servers -> Seq(Entries)] /\ \A t \in Servers : Orderly(q[t])
             /\ \A t \in Servers, d \in Calls : Has(q[t], d) => Has(turns[t], d)
             /\ ~Has(q[s], c)
             /\ \/ phase[c] = "route" /\ \A t \in Servers : ~Has(q[t], c)
                \/ phase[c] = "send" /\ asker[c][s] = "asking"
<1> DEFINE w == turns[s]
           q == [turns EXCEPT ![s] = Mark(@, Place(s, c), "settled")]
<1>1. w \in Seq(Entries) /\ Orderly(w) /\ turns \in [Servers -> Seq(Entries)]  BY DEF IInv, Types
<1>2. PICK i \in DOMAIN w : w[i] = [call |-> c, state |-> "sending"]  OBVIOUS
<1>3. w[i].call = c /\ w[i].state = "sending"  BY <1>2
<1>4. i = 1  BY <1>3 , <1>1 DEF Orderly
<1>5. Place(s, c) \in DOMAIN w /\ w[Place(s, c)].call = c
      /\ w[Place(s, c)].state \in {"waiting", "sending"}
  <2>1. \E k \in DOMAIN w : w[k].call = c /\ w[k].state \in {"waiting", "sending"}  BY <1>3
  <2> QED  BY <2>1 DEF Place
<1>6. Place(s, c) = 1  BY <1>1, <1>3, <1>4, <1>5 DEF Orderly
<1>7. w # <<>>  BY <1>2
<1>8. /\ Mark(w, 1, "settled") = Tail(w) /\ Tail(w) \in Seq(Entries) /\ Orderly(Tail(w))
      /\ \A d : Has(Tail(w), d) => Has(w, d)
      /\ ~Has(Tail(w), c)
  <2> HIDE DEF w
  <2> QED  BY <1>1, <1>3, <1>4, <1>7, SettleFirst
<1>9. q = [turns EXCEPT ![s] = Tail(w)]  BY <1>6, <1>8
<1>10. q[s] = Tail(w) /\ \A t \in Servers : t # s => q[t] = turns[t]
  <2> HIDE DEF w
  <2> QED  BY <1>1, <1>9
<1>11. q \in [Servers -> Seq(Entries)]
  <2> HIDE DEF w
  <2> QED  BY <1>1, <1>8, <1>9
<1>12. \A t \in Servers : Orderly(q[t])  BY <1>8, <1>10 DEF IInv
<1>13. \A t \in Servers, d \in Calls : Has(q[t], d) => Has(turns[t], d)  BY <1>8, <1>10
<1>14. Has(turns[s], c)  BY <1>2, <1>3 DEF Has
<1>15. Queued(c)  BY DEF IInv, Local
<1>16. \/ phase[c] = "route" /\ \A t \in Servers : ~Has(q[t], c)
       \/ phase[c] = "send" /\ asker[c][s] = "asking"
  <2>1. CASE phase[c] = "route"
    <3>1. \A t \in Servers : Has(turns[t], c) => t = s  BY <1>14, <1>15, <2>1 DEF Queued
    <3> QED  BY <1>8, <1>10, <1>13, <2>1, <3>1
  <2> QED  BY <1>14, <1>15, <2>1 DEF Queued
<1> QED  BY <1>8, <1>10, <1>11, <1>12, <1>13, <1>16

---------------------------------------------------------------------------
\* The servers are the members of a sequence.
LEMMA ServersFinite ==
  ASSUME Constants
  PROVE  IsFiniteSet(Servers) /\ \A i \in 1 .. Len(Order) : Order[i] \in Servers
<1> DEFINE n == Len(Order)
           f == [i \in 1 .. n |-> Order[i]]
<1>1. n \in Nat /\ DOMAIN Order = 1 .. n /\ \A i \in 1 .. n : Order[i] \in Servers  BY DEF Constants
<1>2. IsFiniteSet(1 .. n)  BY <1>1, FS_Interval
<1>3. f \in Surjection(1 .. n, Servers)  BY <1>1 DEF Surjection, Servers, Range
<1> HIDE DEF f
<1> QED  BY <1>1, <1>2, <1>3, FS_Surjection

\* A call has finitely many workers.
LEMMA AskingFinite ==
  ASSUME Constants, NEW c \in Calls
  PROVE  IsFiniteSet(Asking(c)) /\ Cardinality(Asking(c)) \in Nat
<1>1. Asking(c) \in SUBSET Servers  BY DEF Asking
<1> QED  BY <1>1, ServersFinite, FS_Subset, FS_CardinalityType

\* Nothing has been asked yet: all chunks wait.
LEMMA InitInv ==
  ASSUME Constants, Init
  PROVE  IInv
<1>1. ASSUME NEW c \in Calls
      PROVE  Tasks(c) \in Seq(ChunkSet(c)) /\ Distinct(Tasks(c)) /\ Tasks(c) \in Seq(AnyChunk)
  <2>1. ChunksUpTo(c, Len(ChunksOf[c])) \subseteq ChunkSet(c)
    BY DEF ChunksUpTo, ChunkSet, AnyChunk
  <2>2. ChunkSet(c) \subseteq AnyChunk  BY DEF ChunkSet
  <2> QED  BY <2>1, <2>2, TasksEnumerate, SeqMonotonic
<1>2. Len(Order) \in Nat /\ 1 \in 1 .. Len(Order)  BY EmptySeq DEF Constants
<1>3. Types
  <2>1. turns \in [Servers -> Seq(Entries)]  BY DEF Init
  <2>2. phase \in [Calls -> Phases] /\ aborted \in [Calls -> BOOLEAN]  BY DEF Init, Phases
  <2>3. at \in [Calls -> 1 .. Len(Order)]  BY <1>2 DEF Init
  <2>4. pending \in [Calls -> Seq(AnyChunk)]  BY <1>1 DEF Init
  <2>5. parts \in [Calls -> Seq(AnyChunk)]  BY DEF Init
  <2>6. task \in [Calls -> [Servers -> AnyChunk \cup {None}]]  BY DEF Init
  <2>7. asker \in [Calls -> [Servers -> {"off", "idle", "asking", "stopped"}]]  BY DEF Init
  <2>8. launched \in [Calls -> Nat] /\ unfinished \in [Calls -> Nat]  BY DEF Init
  <2> QED  BY <2>1, <2>2, <2>3, <2>4, <2>5, <2>6, <2>7, <2>8 DEF Types
<1>4. \A s \in Servers : turns[s] = <<>>  BY DEF Init
<1>5. \A s \in Servers : Orderly(turns[s])  BY <1>4 DEF Orderly
<1>6. ASSUME NEW c \in Calls  PROVE Local(c)
  <2>1. pending[c] = Tasks(c) /\ parts[c] = <<>> /\ unfinished[c] = 0 /\ phase[c] = "new"  BY DEF Init
  <2>2. \A s \in Servers : asker[c][s] = "off"  BY DEF Init
  <2>3. Asking(c) = {}  BY <2>2 DEF Asking
  <2>4. Queued(c)  BY <1>4 DEF Queued, Has
  <2>5. Workers(c)  BY <2>2 DEF Workers
  <2>6. Apart(c)
    <3>1. \A i \in DOMAIN pending[c] : pending[c][i] \in ChunkSet(c)  BY <1>1, <2>1
    <3>2. DOMAIN parts[c] = {}  BY <2>1
    <3>3. Distinct(pending[c]) /\ Distinct(parts[c])  BY <1>1, <2>1, <3>2 DEF Distinct
    <3> QED  BY <2>3, <3>1, <3>2, <3>3 DEF Apart
  <2>7. Whole(c)
    <3>1. Len(pending[c]) = Len(Tasks(c)) /\ Len(Tasks(c)) \in Nat /\ Len(parts[c]) = 0  BY <1>1, <2>1
    <3> QED  BY <2>1, <2>3, <3>1, FS_EmptySet DEF Whole
  <2> QED  BY <2>4, <2>5, <2>6, <2>7 DEF Local
<1> QED  BY <1>3, <1>5, <1>6 DEF IInv

---------------------------------------------------------------------------
(* One lemma per action.                                                   *)

\* An aborted waiter hands its turn on: it was the first of the queue.
LEMMA HandOnInv ==
  ASSUME IInv, NEW s \in Servers, NEW i, HandOn(s, i)
  PROVE  IInv'
<1> DEFINE w == turns[s]
<1>1. w \in Seq(Entries) /\ Orderly(w) /\ turns \in [Servers -> Seq(Entries)] /\ i \in DOMAIN w
  BY DEF IInv, Types, HandOn
<1>2. i = 1 /\ w # <<>>  BY <1>1, TurnIsFirst DEF HandOn
<1>3. /\ Mark(w, 1, "settled") = Tail(w) /\ Tail(w) \in Seq(Entries) /\ Orderly(Tail(w))
      /\ \A d : Has(Tail(w), d) => Has(w, d)
  <2> HIDE DEF w
  <2> QED  BY <1>1, <1>2, SettleFirst
<1>4. turns' = [turns EXCEPT ![s] = Tail(w)]  BY <1>2, <1>3 DEF HandOn
<1>5. turns'[s] = Tail(w) /\ \A t \in Servers : t # s => turns'[t] = turns[t]  BY <1>1, <1>4
<1>6. Types'
  <2>1. turns' \in [Servers -> Seq(Entries)]  BY <1>1, <1>3, <1>4
  <2> QED  BY <2>1 DEF IInv, Types, HandOn
<1>7. \A t \in Servers : Orderly(turns'[t]) /\ \A d : Has(turns'[t], d) => Has(turns[t], d)
  BY <1>3, <1>5 DEF IInv
<1>8. \A d \in Calls : Local(d)'  BY <1>7, Frame DEF IInv, HandOn
<1> QED  BY <1>6, <1>7, <1>8 DEF IInv, Orderly

\* The first of the queue sends.
LEMMA SendInv ==
  ASSUME IInv, NEW s \in Servers, NEW i, Send(s, i)
  PROVE  IInv'
<1> DEFINE w == turns[s]
           p == Mark(w, 1, "sending")
<1>1. w \in Seq(Entries) /\ Orderly(w) /\ turns \in [Servers -> Seq(Entries)] /\ i \in DOMAIN w
  BY DEF IInv, Types, Send
<1>2. i = 1 /\ w # <<>> /\ w[1].state = "waiting"  BY <1>1, TurnIsFirst DEF Send
<1>3. p \in Seq(Entries) /\ Orderly(p) /\ \A d : Has(p, d) => Has(w, d)
  <2> HIDE DEF w
  <2> QED  BY <1>1, <1>2, SendFirst
<1>4. turns' = [turns EXCEPT ![s] = p]  BY <1>2 DEF Send
<1> HIDE DEF p
<1>5. turns'[s] = p /\ \A t \in Servers : t # s => turns'[t] = turns[t]  BY <1>1, <1>4
<1>6. Types'
  <2>1. turns' \in [Servers -> Seq(Entries)]  BY <1>1, <1>3, <1>4
  <2> QED  BY <2>1 DEF IInv, Types, Send
<1>7. \A t \in Servers : Orderly(turns'[t]) /\ \A d : Has(turns'[t], d) => Has(turns[t], d)
  BY <1>3, <1>5 DEF IInv
<1>8. \A d \in Calls : Local(d)'  BY <1>7, Frame DEF IInv, Send
<1> QED  BY <1>6, <1>7, <1>8 DEF IInv, Orderly

\* The queues when a call joins one of them.
LEMMA Joins ==
  ASSUME NEW q \in [Servers -> Seq(Entries)], \A t \in Servers : Orderly(q[t]),
         NEW c \in Calls, NEW s \in Servers, ~Has(q[s], c)
  PROVE  LET r == [q EXCEPT ![s] = Join(@, c)]
         IN  /\ r \in [Servers -> Seq(Entries)] /\ \A t \in Servers : Orderly(r[t])
             /\ \A t \in Servers, d \in Calls : d # c /\ Has(r[t], d) => Has(q[t], d)
             /\ \A t \in Servers : Has(r[t], c) => t = s \/ Has(q[t], c)
<1> DEFINE j == Join(q[s], c)
           r == [q EXCEPT ![s] = j]
<1>1. j \in Seq(Entries) /\ Orderly(j) /\ \A d : d # c /\ Has(j, d) => Has(q[s], d)  BY JoinLast
<1> HIDE DEF j
<1>3. r \in [Servers -> Seq(Entries)] /\ r[s] = j /\ \A t \in Servers : t # s => r[t] = q[t]
  BY <1>1
<1> HIDE DEF r
<1>4. /\ r \in [Servers -> Seq(Entries)] /\ \A t \in Servers : Orderly(r[t])
      /\ \A t \in Servers, d \in Calls : d # c /\ Has(r[t], d) => Has(q[t], d)
      /\ \A t \in Servers : Has(r[t], c) => t = s \/ Has(q[t], c)
  BY <1>1, <1>3
<1> QED  BY <1>4 DEF r, j

\* A new call is in no queue, so that the router may join one.
LEMMA StartInv ==
  ASSUME IInv, Constants, NEW c \in Calls, Start(c)
  PROVE  IInv'
<1> USE DEF IInv
<1>1. phase[c] = "new" /\ Queued(c) /\ Workers(c) /\ Apart(c) /\ Whole(c)  BY DEF Start, Local
<1>2. \A t \in Servers : ~Has(turns[t], c)  BY <1>1 DEF Queued
<1>3. Asking(c) = {}  BY <1>1 DEF Asking, Workers
<1>4. phase' \in [Calls -> Phases] /\ phase'[c] \in {"route", "prepared"} /\ \A d \in Calls : d # c => phase'[d] = phase[d]
  BY DEF Start, Types, Phases
<1>5. asker' = asker /\ pending' = pending /\ parts' = parts /\ unfinished' = unfinished /\ aborted' = aborted
      /\ at' = at /\ launched' = launched
  BY DEF Start
<1>6. Workers(c)' /\ Asking(c)' = {}
  BY <1>1, <1>3, <1>4, <1>5 DEF Workers, Asking
<1>7. Apart(c)'  BY <1>1, <1>5, <1>6, Drop
<1>8. Whole(c)'  BY <1>1, <1>3, <1>4, <1>5, <1>6 DEF Whole, Tasks, Chunk
<1>9. CASE c \in Routed
  <2> DEFINE s == Order[1]
  <2>1. s \in Servers  BY ServersFinite, EmptySeq DEF Constants
  <2>2. turns' = [turns EXCEPT ![s] = Join(@, c)] /\ task' = [task EXCEPT ![c][s] = RouteQuestion]
        /\ phase' = [phase EXCEPT ![c] = "route"]
    BY <1>9 DEF Start, Ask
  <2> HIDE DEF s
  <2>3. /\ turns' \in [Servers -> Seq(Entries)] /\ \A t \in Servers : Orderly(turns'[t])
        /\ \A t \in Servers, d \in Calls : d # c /\ Has(turns'[t], d) => Has(turns[t], d)
        /\ \A t \in Servers : Has(turns'[t], c) => t = s \/ Has(turns[t], c)
    <3>1. turns \in [Servers -> Seq(Entries)] /\ \A t \in Servers : Orderly(turns[t])  BY DEF Types
    <3> HIDE DEF IInv
    <3> DEFINE r == [turns EXCEPT ![s] = Join(@, c)]
    <3>2. ~Has(turns[s], c)  BY <1>2, <2>1
    <3>3. /\ r \in [Servers -> Seq(Entries)] /\ \A t \in Servers : Orderly(r[t])
          /\ \A t \in Servers, d \in Calls : d # c /\ Has(r[t], d) => Has(turns[t], d)
          /\ \A t \in Servers : Has(r[t], c) => t = s \/ Has(turns[t], c)
      BY <2>1, <3>1, <3>2, Joins
    <3>4. turns' = r  BY <2>2
    <3> HIDE DEF r
    <3> QED  BY <3>3, <3>4
  <2>4. RouteQuestion \in AnyChunk  BY DEF RouteQuestion, AnyChunk
  <2>5. task' \in [Calls -> [Servers -> AnyChunk \cup {None}]] /\ \A d \in Calls : d # c => task'[d] = task[d]
    BY <2>1, <2>2, <2>4 DEF Types
  <2>6. Types'  BY <1>4, <1>5, <2>3, <2>5 DEF Types
  <2>7. Queued(c)'
    <3>1. phase'[c] = "route"  BY <2>2 DEF Types
    <3> QED  BY <1>2, <2>3, <3>1 DEF Queued
  <2>8. Local(c)'  BY <1>6, <1>7, <1>8, <2>7 DEF Local
  <2>9. \A d \in Calls : d # c => Local(d)'  BY <1>4, <1>5, <2>3, <2>5, Frame
  <2> QED  BY <2>3, <2>6, <2>8, <2>9 DEF Orderly
<1>10. CASE c \notin Routed
  <2>1. turns' = turns /\ task' = task  BY <1>10 DEF Start
  <2>2. Types'  BY <1>4, <1>5, <2>1 DEF Types
  <2>3. Queued(c)'  BY <1>2, <2>1 DEF Queued
  <2>4. Local(c)'  BY <1>6, <1>7, <1>8, <2>3 DEF Local
  <2>5. \A d \in Calls : d # c => Local(d)'  BY <1>4, <1>5, <2>1, Frame
  <2> QED  BY <2>1, <2>2, <2>4, <2>5 DEF Orderly
<1> QED  BY <1>9, <1>10

\* The workers start with nothing to ask.
LEMMA LaunchInv ==
  ASSUME IInv, Constants, NEW c \in Calls, Launch(c)
  PROVE  IInv'
<1> USE DEF IInv
<1>1. phase[c] = "prepared" /\ Queued(c) /\ Workers(c) /\ Apart(c) /\ Whole(c)  BY DEF Launch, Local
<1>2. \A t \in Servers : ~Has(turns[t], c)  BY <1>1 DEF Queued
<1>3. Asking(c) = {}  BY <1>1 DEF Asking, Workers
<1>4. /\ phase' = [phase EXCEPT ![c] = "send"] /\ turns' = turns /\ pending' = pending /\ parts' = parts
      /\ unfinished' = unfinished /\ aborted' = aborted /\ at' = at /\ task' = task
  BY DEF Launch
<1> DEFINE n == Min({ToolWorkers, Len(Order)})
           start == [s \in Servers |-> IF \E i \in 1 .. n : Order[i] = s THEN "idle" ELSE "off"]
<1>5. n \in Nat
  <2>1. ToolWorkers \in Nat /\ Len(Order) \in Nat  BY DEF Constants
  <2>2. \E x \in {ToolWorkers, Len(Order)} : \A y \in {ToolWorkers, Len(Order)} : x <= y  BY <2>1
  <2>3. n \in {ToolWorkers, Len(Order)}  BY <2>2 DEF Min
  <2> QED  BY <2>1, <2>3
<1>6. launched' = [launched EXCEPT ![c] = n] /\ asker' = [asker EXCEPT ![c] = start]  BY DEF Launch
<1>7. start \in [Servers -> {"off", "idle", "asking", "stopped"}] /\ \A s \in Servers : start[s] # "asking"  OBVIOUS
<1> HIDE DEF n, start
<1>8. Types'
  <2>1. phase' \in [Calls -> Phases]  BY <1>4 DEF Types, Phases
  <2>2. launched' \in [Calls -> Nat]  BY <1>5, <1>6 DEF Types
  <2>3. asker' \in [Calls -> [Servers -> {"off", "idle", "asking", "stopped"}]]  BY <1>6, <1>7 DEF Types
  <2> QED  BY <1>4, <2>1, <2>2, <2>3 DEF Types
<1>9. asker'[c] = start /\ phase'[c] = "send"  BY <1>4, <1>6 DEF Types
<1>10. Asking(c)' = {}  BY <1>7, <1>9 DEF Asking
<1>11. Apart(c)'  BY <1>1, <1>4, <1>10, Drop
<1>12. Whole(c)'  BY <1>1, <1>3, <1>4, <1>9, <1>10 DEF Whole, Tasks, Chunk
<1>13. Queued(c)' /\ Workers(c)'  BY <1>2, <1>4, <1>9 DEF Queued, Workers
<1>14. \A d \in Calls : d # c => Local(d)'
  <2>1. \A d \in Calls : d # c => phase'[d] = phase[d] /\ asker'[d] = asker[d]  BY <1>4, <1>6 DEF Types
  <2> QED  BY <1>4, <2>1, Frame
<1> QED  BY <1>4, <1>8, <1>11, <1>12, <1>13, <1>14 DEF Local, Orderly

\* The worker of c on s takes the first chunk that waits.
LEMMA TakeInv ==
  ASSUME IInv, Constants, NEW c \in Calls, NEW s \in Servers, Take(c, s)
  PROVE  IInv'
<1> USE DEF IInv
<1>1. Queued(c) /\ Workers(c) /\ Apart(c) /\ Whole(c)  BY DEF Local
<1>2. asker[c][s] = "idle" /\ phase[c] = "send"  BY <1>1 DEF Take, Workers
<1>3. ~Has(turns[s], c) /\ s \notin Asking(c)  BY <1>1, <1>2 DEF Queued, Asking
<1>4. phase' = phase /\ aborted' = aborted /\ at' = at /\ launched' = launched /\ parts' = parts /\ unfinished' = unfinished
  BY DEF Take
<1>5. CASE pending[c] # <<>> /\ ~aborted[c]
  <2> DEFINE h == Head(pending[c])
             rest == Tail(pending[c])
             n == Len(pending[c])
  <2>1. /\ turns' = [turns EXCEPT ![s] = Join(@, c)] /\ task' = [task EXCEPT ![c][s] = h]
        /\ pending' = [pending EXCEPT ![c] = rest] /\ asker' = [asker EXCEPT ![c][s] = "asking"]
    BY <1>5 DEF Take, Ask
  <2>2. /\ pending[c] \in Seq(AnyChunk) /\ n \in Nat /\ n # 0 /\ DOMAIN pending[c] = 1 .. n
        /\ h = pending[c][1] /\ h \in AnyChunk /\ rest \in Seq(AnyChunk) /\ Len(rest) = n - 1
        /\ DOMAIN rest = 1 .. n - 1 /\ \A i \in 1 .. n - 1 : rest[i] = pending[c][i + 1]
    <3>1. pending[c] \in Seq(AnyChunk)  BY DEF Types
    <3>2. n \in Nat /\ n # 0  BY <1>5, <3>1, EmptySeq
    <3>3. h \in AnyChunk /\ rest \in Seq(AnyChunk) /\ Len(rest) = n - 1
          /\ \A i \in 1 .. Len(rest) : rest[i] = pending[c][i + 1]
      BY <1>5, <3>1, HeadTailProperties
    <3> QED  BY <3>1, <3>2, <3>3
  <2> HIDE DEF h, rest, n
  <2>3. /\ turns' \in [Servers -> Seq(Entries)] /\ \A t \in Servers : Orderly(turns'[t])
        /\ \A t \in Servers, d \in Calls : d # c /\ Has(turns'[t], d) => Has(turns[t], d)
        /\ \A t \in Servers : Has(turns'[t], c) => t = s \/ Has(turns[t], c)
    <3>1. turns \in [Servers -> Seq(Entries)] /\ \A t \in Servers : Orderly(turns[t])  BY DEF Types
    <3> HIDE DEF IInv
    <3> DEFINE r == [turns EXCEPT ![s] = Join(@, c)]
    <3>2. /\ r \in [Servers -> Seq(Entries)] /\ \A t \in Servers : Orderly(r[t])
          /\ \A t \in Servers, d \in Calls : d # c /\ Has(r[t], d) => Has(turns[t], d)
          /\ \A t \in Servers : Has(r[t], c) => t = s \/ Has(turns[t], c)
      BY <1>3, <3>1, Joins
    <3>3. turns' = r  BY <2>1
    <3> HIDE DEF r
    <3> QED  BY <3>2, <3>3
  <2>4. task' \in [Calls -> [Servers -> AnyChunk \cup {None}]] /\ task'[c][s] = h
        /\ (\A t \in Servers : t # s => task'[c][t] = task[c][t]) /\ \A d \in Calls : d # c => task'[d] = task[d]
    BY <2>1, <2>2 DEF Types
  <2>5. asker' \in [Calls -> [Servers -> {"off", "idle", "asking", "stopped"}]] /\ asker'[c][s] = "asking"
        /\ (\A t \in Servers : t # s => asker'[c][t] = asker[c][t]) /\ \A d \in Calls : d # c => asker'[d] = asker[d]
    BY <2>1 DEF Types
  <2>6. pending' \in [Calls -> Seq(AnyChunk)] /\ pending'[c] = rest /\ \A d \in Calls : d # c => pending'[d] = pending[d]
    BY <2>1, <2>2 DEF Types
  <2>7. Types'  BY <1>4, <2>3, <2>4, <2>5, <2>6 DEF Types
  <2>8. Asking(c)' = Asking(c) \cup {s}  BY <2>5 DEF Asking
  <2>9. Queued(c)'  BY <1>1, <1>2, <1>4, <2>3, <2>5 DEF Queued
  <2>10. Workers(c)'  BY <1>2, <1>4 DEF Workers
  <2>11. \A i \in 1 .. n - 1 : i + 1 \in DOMAIN pending[c] /\ i + 1 # 1 /\ 1 \in DOMAIN pending[c]  BY <2>2
  <2>15. \A i \in DOMAIN rest : \E k \in DOMAIN pending[c] : k # 1 /\ rest[i] = pending[c][k]  BY <2>2, <2>11
  <2> HIDE DEF IInv
  <2>12. Apart(c)'
    <3>1. \A i \in DOMAIN rest : rest[i] \in ChunkSet(c) /\ Id(rest[i]) # Id(h)
      <4>1. 1 \in DOMAIN pending[c]  BY <2>2
      <4>2. \A k \in DOMAIN pending[c] : pending[c][k] \in ChunkSet(c) /\ (k # 1 => Id(pending[c][k]) # Id(pending[c][1]))
        BY <1>1, <4>1 DEF Apart, Distinct
      <4>3. h = pending[c][1]  BY <2>2
      <4> QED  BY <2>15, <4>2, <4>3
    <3>2. h \in ChunkSet(c)  BY <1>1, <2>2 DEF Apart
    <3>3. Distinct(rest)
      <4> SUFFICES ASSUME NEW i \in 1 .. n - 1, NEW j \in 1 .. n - 1, i # j  PROVE Id(rest[i]) # Id(rest[j])
        BY <2>2 DEF Distinct
      <4>1. i + 1 # j + 1  BY <2>2
      <4> QED  BY <1>1, <2>2, <2>11, <4>1 DEF Apart, Distinct
    <3>4. \A i \in DOMAIN rest, j \in DOMAIN parts[c] : Id(rest[i]) # Id(parts[c][j])
      BY <1>1, <2>15 DEF Apart
    <3>5. \A j \in DOMAIN parts[c] : Id(parts[c][j]) # Id(h)
      <4>1. 1 \in DOMAIN pending[c]  BY <2>2
      <4> QED  BY <1>1, <2>2, <4>1 DEF Apart
    <3>6. \A t \in Asking(c) : t # s /\ task'[c][t] = task[c][t]  BY <1>3, <2>4 DEF Asking
    <3>7. \A i \in DOMAIN rest, t \in Asking(c)' : Id(rest[i]) # Id(task'[c][t])
      BY <1>1, <2>4, <2>8, <2>15, <3>1, <3>6 DEF Apart
    <3>8. \A i \in DOMAIN parts[c], t \in Asking(c)' : Id(parts[c][i]) # Id(task'[c][t])
      BY <1>1, <2>4, <2>8, <3>5, <3>6 DEF Apart
    <3>9. \A t \in Asking(c) : Id(h) # Id(task[c][t])
      <4>1. 1 \in DOMAIN pending[c]  BY <2>2
      <4> QED  BY <1>1, <2>2, <4>1 DEF Apart
    <3>10. \A t, u \in Asking(c)' : t # u => Id(task'[c][t]) # Id(task'[c][u])
      BY <1>1, <2>4, <2>8, <3>6, <3>9 DEF Apart
    <3>11. \A t \in Asking(c)' : task'[c][t] \in ChunkSet(c)  BY <1>1, <2>4, <2>8, <3>2, <3>6 DEF Apart
    <3>12. ChunkSet(c)' = ChunkSet(c)  BY DEF ChunkSet
    <3>13. Distinct(pending[c])' /\ Distinct(parts[c])'  BY <1>1, <1>4, <2>6, <3>3 DEF Apart, Distinct, Id
    <3>14. \A i \in DOMAIN parts[c] : parts[c][i] \in ChunkSet(c)  BY <1>1 DEF Apart
    <3> QED  BY <1>4, <2>6, <3>1, <3>4, <3>7, <3>8, <3>10, <3>11, <3>12, <3>13, <3>14 DEF Apart, Id
  <2>13. Whole(c)'
    <3>1. Cardinality(Asking(c)') = Cardinality(Asking(c)) + 1 /\ Cardinality(Asking(c)) \in Nat
      BY <1>3, <2>8, AskingFinite, FS_AddElement
    <3>2. Len(pending'[c]) = Len(pending[c]) - 1 /\ Len(pending[c]) \in Nat  BY <2>2, <2>6 DEF n
    <3>3. Len(parts[c]) \in Nat /\ unfinished[c] \in Nat  BY DEF Types, IInv
    <3>4. Len(pending[c]) + Len(parts[c]) + unfinished[c] + Cardinality(Asking(c)) = Len(Tasks(c))
      BY <1>1, <1>2, <1>5 DEF Whole
    <3> DEFINE k == Cardinality(Asking(c))  l == Cardinality(Asking(c)')  x == Len(pending[c])  y == Len(pending'[c])
               z == Len(parts[c])  u == unfinished[c]  total == Len(Tasks(c))
    <3> HIDE DEF k, l, x, y, z, u, total
    <3>6. k \in Nat /\ l = k + 1 /\ x \in Nat /\ y = x - 1 /\ z \in Nat /\ u \in Nat /\ x + z + u + k = total
      BY <3>1, <3>2, <3>3, <3>4 DEF k, l, x, y, z, u, total
    <3>7. y + z + u + l = total  BY <3>6
    <3>5. Len(pending'[c]) + Len(parts[c]) + unfinished[c] + Cardinality(Asking(c)') = Len(Tasks(c))
      BY <3>7 DEF l, y, z, u, total
    <3> QED  BY <1>2, <1>4, <3>5 DEF Whole, Tasks, Chunk
  <2>14. \A d \in Calls : d # c => Local(d)'  BY <1>4, <2>3, <2>4, <2>5, <2>6, Frame DEF IInv
  <2> QED  BY <2>3, <2>7, <2>9, <2>10, <2>12, <2>13, <2>14 DEF Local, Orderly, IInv
<1>6. CASE ~(pending[c] # <<>> /\ ~aborted[c])
  <2>1. turns' = turns /\ task' = task /\ pending' = pending /\ asker' = [asker EXCEPT ![c][s] = "stopped"]
    BY <1>6 DEF Take
  <2>2. asker' \in [Calls -> [Servers -> {"off", "idle", "asking", "stopped"}]] /\ asker'[c][s] = "stopped"
        /\ (\A t \in Servers : t # s => asker'[c][t] = asker[c][t]) /\ \A d \in Calls : d # c => asker'[d] = asker[d]
    BY <2>1 DEF Types
  <2>3. Types'  BY <1>4, <2>1, <2>2 DEF Types
  <2>4. Asking(c)' = Asking(c)  BY <1>3, <2>2 DEF Asking
  <2>5. Queued(c)' /\ Workers(c)'  BY <1>1, <1>2, <1>3, <1>4, <2>1, <2>2 DEF Queued, Workers
  <2>6. Apart(c)'  BY <1>1, <1>4, <2>1, <2>4, Drop
  <2>7. Whole(c)'  BY <1>1, <1>4, <2>1, <2>4 DEF Whole, Tasks, Chunk
  <2>8. \A d \in Calls : d # c => Local(d)'  BY <1>4, <2>1, <2>2, Frame
  <2> QED  BY <2>1, <2>3, <2>5, <2>6, <2>7, <2>8 DEF Local, Orderly
<1> QED  BY <1>5, <1>6

\* c is being answered by s.
Sending(c, s) == \E i \in DOMAIN turns[s] : turns[s][i] = [call |-> c, state |-> "sending"]

\* The queues and tasks after Over.
LEMMA OverFacts ==
  ASSUME IInv, NEW c \in Calls, NEW s \in Servers, Sending(c, s),
         turns' = [turns EXCEPT ![s] = Mark(@, Place(s, c), "settled")],
         task' = [task EXCEPT ![c][s] = None]
  PROVE  /\ turns' \in [Servers -> Seq(Entries)] /\ \A t \in Servers : Orderly(turns'[t])
         /\ \A t \in Servers, d \in Calls : Has(turns'[t], d) => Has(turns[t], d)
         /\ ~Has(turns'[s], c)
         /\ \/ phase[c] = "route" /\ \A t \in Servers : ~Has(turns'[t], c)
            \/ phase[c] = "send" /\ asker[c][s] = "asking"
         /\ task' \in [Calls -> [Servers -> AnyChunk \cup {None}]]
         /\ \A t \in Servers : t # s => task'[c][t] = task[c][t]
         /\ \A d \in Calls : d # c => task'[d] = task[d]
<1> DEFINE q == [turns EXCEPT ![s] = Mark(@, Place(s, c), "settled")]
<1>1. /\ q \in [Servers -> Seq(Entries)] /\ \A t \in Servers : Orderly(q[t])
      /\ \A t \in Servers, d \in Calls : Has(q[t], d) => Has(turns[t], d)
      /\ ~Has(q[s], c)
      /\ \/ phase[c] = "route" /\ \A t \in Servers : ~Has(q[t], c)
         \/ phase[c] = "send" /\ asker[c][s] = "asking"
  BY Released DEF Sending
<1>2. turns' = q  OBVIOUS
<1>3. /\ task' \in [Calls -> [Servers -> AnyChunk \cup {None}]]
      /\ \A t \in Servers : t # s => task'[c][t] = task[c][t]
      /\ \A d \in Calls : d # c => task'[d] = task[d]
  BY DEF IInv, Types
<1> HIDE DEF q
<1> QED  BY <1>1, <1>2, <1>3

\* The router's request ends the routing.
LEMMA RouteEnds ==
  ASSUME IInv, NEW c \in Calls, NEW s \in Servers, Sending(c, s), phase[c] = "route",
         turns' = [turns EXCEPT ![s] = Mark(@, Place(s, c), "settled")],
         task' = [task EXCEPT ![c][s] = None],
         NEW p \in {"prepared", "advised", "aborted"}, phase' = [phase EXCEPT ![c] = p],
         aborted' = aborted, at' = at, pending' = pending, asker' = asker, launched' = launched,
         parts' = parts, unfinished' = unfinished
  PROVE  IInv'
<1>1. Workers(c) /\ Apart(c) /\ Whole(c)  BY DEF IInv, Local
<1>2. /\ turns' \in [Servers -> Seq(Entries)] /\ \A t \in Servers : Orderly(turns'[t])
      /\ \A t \in Servers, d \in Calls : Has(turns'[t], d) => Has(turns[t], d)
      /\ \A t \in Servers : ~Has(turns'[t], c)
      /\ task' \in [Calls -> [Servers -> AnyChunk \cup {None}]]
      /\ \A d \in Calls : d # c => task'[d] = task[d]
  BY OverFacts
<1>3. phase' \in [Calls -> Phases] /\ phase'[c] = p /\ \A d \in Calls : d # c => phase'[d] = phase[d]
  BY DEF IInv, Types, Phases
<1>4. Types'  BY <1>2, <1>3 DEF IInv, Types
<1>5. Queued(c)' /\ Workers(c)'  BY <1>1, <1>2, <1>3 DEF Queued, Workers
<1>6. Asking(c)' = {} /\ Asking(c) = {}  BY <1>1 DEF Asking, Workers
<1>7. Apart(c)'  BY <1>1, <1>6, Drop
<1>8. Whole(c)'  BY <1>1, <1>3, <1>6 DEF Whole, Tasks, Chunk
<1>9. \A d \in Calls : d # c => Local(d)'  BY <1>2, <1>3, Frame DEF IInv
<1> QED  BY <1>2, <1>4, <1>5, <1>7, <1>8, <1>9 DEF IInv, Local, Orderly

\* The queues when the router goes on to the next server.
LEMMA MovedQueues ==
  ASSUME IInv, NEW c \in Calls, NEW s \in Servers, NEW r \in Servers, Sending(c, s), phase[c] = "route",
         turns' = [[turns EXCEPT ![s] = Mark(@, Place(s, c), "settled")] EXCEPT ![r] = Join(@, c)]
  PROVE  /\ turns' \in [Servers -> Seq(Entries)] /\ \A t \in Servers : Orderly(turns'[t])
         /\ \A t \in Servers, d \in Calls : d # c /\ Has(turns'[t], d) => Has(turns[t], d)
         /\ \A t \in Servers : Has(turns'[t], c) => t = r
<1> DEFINE q == [turns EXCEPT ![s] = Mark(@, Place(s, c), "settled")]
           w == [q EXCEPT ![r] = Join(@, c)]
<1>1. /\ q \in [Servers -> Seq(Entries)] /\ \A t \in Servers : Orderly(q[t])
      /\ \A t \in Servers, d \in Calls : Has(q[t], d) => Has(turns[t], d)
      /\ \A t \in Servers : ~Has(q[t], c)
  BY Released DEF Sending
<1>4. turns' = w  OBVIOUS
<1> HIDE DEF q
<1>2. /\ w \in [Servers -> Seq(Entries)] /\ \A t \in Servers : Orderly(w[t])
      /\ \A t \in Servers, d \in Calls : d # c /\ Has(w[t], d) => Has(q[t], d)
      /\ \A t \in Servers : Has(w[t], c) => t = r \/ Has(q[t], c)
  <2>1. ~Has(q[r], c)  BY <1>1
  <2> QED  BY <1>1, <2>1, Joins
<1> HIDE DEF w
<1>3. /\ w \in [Servers -> Seq(Entries)] /\ \A t \in Servers : Orderly(w[t])
      /\ \A t \in Servers, d \in Calls : d # c /\ Has(w[t], d) => Has(turns[t], d)
      /\ \A t \in Servers : Has(w[t], c) => t = r
  BY <1>1, <1>2
<1> QED  BY <1>3, <1>4

\* The router goes on to the next server.
LEMMA RouteMoves ==
  ASSUME IInv, Constants, NEW c \in Calls, NEW s \in Servers, Sending(c, s), phase[c] = "route",
         at[c] < Len(Order), NEW r \in Servers,
         turns' = [[turns EXCEPT ![s] = Mark(@, Place(s, c), "settled")] EXCEPT ![r] = Join(@, c)],
         task' = [task EXCEPT ![c] = [@ EXCEPT ![s] = None, ![r] = RouteQuestion]],
         at' = [at EXCEPT ![c] = @ + 1],
         phase' = phase, aborted' = aborted, pending' = pending, asker' = asker, launched' = launched,
         parts' = parts, unfinished' = unfinished
  PROVE  IInv'
<1>1. Workers(c) /\ Apart(c) /\ Whole(c)  BY DEF IInv, Local
<1>3. at' \in [Calls -> 1 .. Len(Order)] /\ \A d \in Calls : d # c => at'[d] = at[d]
  <2>2. at \in [Calls -> 1 .. Len(Order)] /\ Len(Order) \in Nat  BY DEF IInv, Types, Constants
  <2>3. at[c] \in 1 .. Len(Order) /\ at[c] < Len(Order)  BY <2>2
  <2>1. at[c] + 1 \in 1 .. Len(Order) /\ at \in [Calls -> 1 .. Len(Order)]  BY ONLY <2>2, <2>3
  <2> QED  BY <2>1
<1>4. /\ turns' \in [Servers -> Seq(Entries)] /\ \A t \in Servers : Orderly(turns'[t])
      /\ \A t \in Servers, d \in Calls : d # c /\ Has(turns'[t], d) => Has(turns[t], d)
      /\ \A t \in Servers : Has(turns'[t], c) => t = r
  BY <1>3, MovedQueues
<1>6. RouteQuestion \in AnyChunk  BY DEF RouteQuestion, AnyChunk
<1>7. task' \in [Calls -> [Servers -> AnyChunk \cup {None}]] /\ \A d \in Calls : d # c => task'[d] = task[d]
  <2> DEFINE v == [task[c] EXCEPT ![s] = None, ![r] = RouteQuestion]
  <2>1. task' = [task EXCEPT ![c] = v] /\ task \in [Calls -> [Servers -> AnyChunk \cup {None}]]
    BY DEF IInv, Types
  <2>2. v \in [Servers -> AnyChunk \cup {None}]  BY <1>3, <1>6, <2>1
  <2> HIDE DEF v
  <2> QED  BY <2>1, <2>2
<1>8. Types'  BY <1>3, <1>4, <1>7 DEF IInv, Types
<1>9. Queued(c)'  BY <1>4 DEF Queued
<1>10. Workers(c)'  BY <1>1 DEF Workers
<1>11. Asking(c)' = {} /\ Asking(c) = {}  BY <1>1 DEF Asking, Workers
<1>12. Apart(c)'  BY <1>1, <1>11, Drop
<1>13. Whole(c)'  BY <1>1, <1>11 DEF Whole, Tasks, Chunk
<1>14. \A d \in Calls : d # c => Local(d)'  BY <1>3, <1>4, <1>7, Frame DEF IInv
<1> QED  BY <1>4, <1>8, <1>9, <1>10, <1>12, <1>13, <1>14 DEF IInv, Local, Orderly

\* A worker's request ends, whatever becomes of its chunk.
LEMMA WorkEnds ==
  ASSUME IInv, NEW c \in Calls, NEW s \in Servers, Sending(c, s), phase[c] # "route",
         turns' = [turns EXCEPT ![s] = Mark(@, Place(s, c), "settled")],
         task' = [task EXCEPT ![c][s] = None], phase' = phase,
         NEW a \in {"idle", "stopped"}, asker' = [asker EXCEPT ![c][s] = a]
  PROVE  /\ turns' \in [Servers -> Seq(Entries)] /\ \A t \in Servers : Orderly(turns'[t])
         /\ task' \in [Calls -> [Servers -> AnyChunk \cup {None}]]
         /\ asker' \in [Calls -> [Servers -> {"off", "idle", "asking", "stopped"}]]
         /\ phase[c] = "send" /\ s \in Asking(c) /\ Asking(c)' = Asking(c) \ {s}
         /\ \A t \in Asking(c)' : task'[c][t] = task[c][t]
         /\ Queued(c)' /\ Workers(c)'
         /\ \A d \in Calls : d # c => /\ task'[d] = task[d] /\ asker'[d] = asker[d]
                                      /\ \A t \in Servers : Has(turns'[t], d) => Has(turns[t], d)
<1>1. /\ turns' \in [Servers -> Seq(Entries)] /\ \A t \in Servers : Orderly(turns'[t])
      /\ \A t \in Servers, d \in Calls : Has(turns'[t], d) => Has(turns[t], d)
      /\ ~Has(turns'[s], c)
      /\ phase[c] = "send" /\ asker[c][s] = "asking"
      /\ task' \in [Calls -> [Servers -> AnyChunk \cup {None}]]
      /\ \A t \in Servers : t # s => task'[c][t] = task[c][t]
      /\ \A d \in Calls : d # c => task'[d] = task[d]
  <2>1. /\ turns' \in [Servers -> Seq(Entries)] /\ \A t \in Servers : Orderly(turns'[t])
        /\ \A t \in Servers, d \in Calls : Has(turns'[t], d) => Has(turns[t], d)
        /\ ~Has(turns'[s], c)
        /\ \/ phase[c] = "route" /\ \A t \in Servers : ~Has(turns'[t], c)
           \/ phase[c] = "send" /\ asker[c][s] = "asking"
        /\ task' \in [Calls -> [Servers -> AnyChunk \cup {None}]]
        /\ \A t \in Servers : t # s => task'[c][t] = task[c][t]
        /\ \A d \in Calls : d # c => task'[d] = task[d]
    BY OverFacts
  <2> QED  BY <2>1
<1>2. asker' \in [Calls -> [Servers -> {"off", "idle", "asking", "stopped"}]] /\ asker'[c][s] = a
      /\ (\A t \in Servers : t # s => asker'[c][t] = asker[c][t]) /\ \A d \in Calls : d # c => asker'[d] = asker[d]
  BY DEF IInv, Types
<1>3. s \in Asking(c) /\ Asking(c)' = Asking(c) \ {s}  BY <1>1, <1>2 DEF Asking
<1>4. \A t \in Asking(c)' : task'[c][t] = task[c][t]  BY <1>1, <1>3 DEF Asking
<1>5. Queued(c)
  BY DEF IInv, Local
<1>6. Queued(c)' /\ Workers(c)'  BY <1>1, <1>2, <1>5 DEF Queued, Workers
<1> QED  BY <1>1, <1>2, <1>3, <1>4, <1>6

\* The call is interrupted: the chunk is dropped.
LEMMA WorkDropped ==
  ASSUME IInv, Constants, NEW c \in Calls, NEW s \in Servers, Sending(c, s), phase[c] # "route",
         turns' = [turns EXCEPT ![s] = Mark(@, Place(s, c), "settled")],
         task' = [task EXCEPT ![c][s] = None], phase' = phase,
         NEW a \in {"idle", "stopped"}, asker' = [asker EXCEPT ![c][s] = a],
         aborted' = aborted, at' = at, launched' = launched,
         aborted[c], pending' = pending, parts' = parts, unfinished' = unfinished
  PROVE  IInv'
<1>1. /\ turns' \in [Servers -> Seq(Entries)] /\ \A t \in Servers : Orderly(turns'[t])
      /\ task' \in [Calls -> [Servers -> AnyChunk \cup {None}]]
      /\ asker' \in [Calls -> [Servers -> {"off", "idle", "asking", "stopped"}]]
      /\ phase[c] = "send" /\ s \in Asking(c) /\ Asking(c)' = Asking(c) \ {s}
      /\ \A t \in Asking(c)' : task'[c][t] = task[c][t]
      /\ Queued(c)' /\ Workers(c)'
      /\ \A d \in Calls : d # c => /\ task'[d] = task[d] /\ asker'[d] = asker[d]
                                   /\ \A t \in Servers : Has(turns'[t], d) => Has(turns[t], d)
  BY WorkEnds
<1>2. Apart(c) /\ Whole(c)  BY DEF IInv, Local
<1>3. Types'  BY <1>1 DEF IInv, Types
<1>4. Apart(c)'  BY <1>1, <1>2, Drop
<1>5. Whole(c)'  BY <1>1 DEF Whole
<1>6. \A d \in Calls : d # c => Local(d)'  BY <1>1, Frame DEF IInv
<1> QED  BY <1>1, <1>3, <1>4, <1>5, <1>6 DEF IInv, Local, Orderly

\* The chunk is answered.
LEMMA WorkAnswered ==
  ASSUME IInv, Constants, NEW c \in Calls, NEW s \in Servers, Sending(c, s), phase[c] # "route",
         turns' = [turns EXCEPT ![s] = Mark(@, Place(s, c), "settled")],
         task' = [task EXCEPT ![c][s] = None], phase' = phase,
         NEW a \in {"idle", "stopped"}, asker' = [asker EXCEPT ![c][s] = a],
         aborted' = aborted, at' = at, launched' = launched,
         pending' = pending, unfinished' = unfinished,
         parts' = [parts EXCEPT ![c] = Append(@, task[c][s])]
  PROVE  IInv'
<1>1. /\ turns' \in [Servers -> Seq(Entries)] /\ \A t \in Servers : Orderly(turns'[t])
      /\ task' \in [Calls -> [Servers -> AnyChunk \cup {None}]]
      /\ asker' \in [Calls -> [Servers -> {"off", "idle", "asking", "stopped"}]]
      /\ phase[c] = "send" /\ s \in Asking(c) /\ Asking(c)' = Asking(c) \ {s}
      /\ \A t \in Asking(c)' : task'[c][t] = task[c][t]
      /\ Queued(c)' /\ Workers(c)'
      /\ \A d \in Calls : d # c => /\ task'[d] = task[d] /\ asker'[d] = asker[d]
                                   /\ \A t \in Servers : Has(turns'[t], d) => Has(turns[t], d)
  BY WorkEnds
<1>2. Apart(c) /\ Whole(c)  BY DEF IInv, Local
<1>3. Cardinality(Asking(c)') = Cardinality(Asking(c)) - 1 /\ Cardinality(Asking(c)) \in Nat
  BY <1>1, AskingFinite, FS_RemoveElement
<1> DEFINE t == task[c][s]
           n == Len(parts[c])
<1>4. t \in ChunkSet(c) /\ t \in AnyChunk  BY <1>1, <1>2 DEF Apart, ChunkSet
<1> HIDE DEF t
<1>5. parts[c] \in Seq(AnyChunk) /\ n \in Nat /\ DOMAIN parts[c] = 1 .. n  BY DEF IInv, Types
<1>6. parts' \in [Calls -> Seq(AnyChunk)] /\ parts'[c] = Append(parts[c], t) /\ \A d \in Calls : d # c => parts'[d] = parts[d]
  BY <1>4 DEF IInv, Types, t
<1>7. /\ Len(parts'[c]) = n + 1 /\ DOMAIN parts'[c] = 1 .. n + 1 /\ parts'[c][n + 1] = t
      /\ \A i \in 1 .. n : parts'[c][i] = parts[c][i]
  BY <1>4, <1>5, <1>6
<1> HIDE DEF n
<1>8. \A i \in DOMAIN parts'[c] : parts'[c][i] = t \/ \E k \in DOMAIN parts[c] : k = i /\ parts'[c][i] = parts[c][k]
  <2> SUFFICES ASSUME NEW i \in 1 .. n + 1, i # n + 1  PROVE i \in 1 .. n
    BY <1>5, <1>7
  <2> QED  BY <1>5
<1>9. Types'  BY <1>1, <1>6 DEF IInv, Types
<1>10. Apart(c)'
  <2>1. \A i \in DOMAIN parts'[c] : parts'[c][i] \in ChunkSet(c)  BY <1>2, <1>4, <1>8 DEF Apart
  <2>2. \A i \in DOMAIN parts[c] : Id(parts[c][i]) # Id(t)  BY <1>1, <1>2 DEF Apart, t
  <2>3. \A i \in DOMAIN pending[c] : Id(pending[c][i]) # Id(t)  BY <1>1, <1>2 DEF Apart, t
  <2>4. \A u \in Asking(c)' : u \in Asking(c) /\ Id(task[c][u]) # Id(t) /\ task'[c][u] = task[c][u]
    BY <1>1, <1>2 DEF Apart, t
  <2>5. Distinct(parts'[c])
    <3> SUFFICES ASSUME NEW i \in 1 .. n + 1, NEW j \in 1 .. n + 1, i # j  PROVE Id(parts'[c][i]) # Id(parts'[c][j])
      BY <1>7 DEF Distinct
    <3>1. CASE i \in 1 .. n /\ j \in 1 .. n  BY <1>2, <1>5, <1>7, <3>1 DEF Apart, Distinct
    <3>2. CASE i = n + 1 /\ j \in 1 .. n  BY <1>5, <1>7, <2>2, <3>2
    <3>3. CASE j = n + 1 /\ i \in 1 .. n  BY <1>5, <1>7, <2>2, <3>3
    <3> QED  BY <1>5, <3>1, <3>2, <3>3
  <2>6. \A i \in DOMAIN pending[c], j \in DOMAIN parts'[c] : Id(pending[c][i]) # Id(parts'[c][j])
    BY <1>2, <1>8, <2>3 DEF Apart
  <2>7. \A i \in DOMAIN parts'[c], u \in Asking(c)' : Id(parts'[c][i]) # Id(task'[c][u])
    BY <1>2, <1>8, <2>4 DEF Apart
  <2>8. /\ \A u \in Asking(c)' : task'[c][u] \in ChunkSet(c)
        /\ \A u, v \in Asking(c)' : u # v => Id(task'[c][u]) # Id(task'[c][v])
        /\ \A i \in DOMAIN pending[c], u \in Asking(c)' : Id(pending[c][i]) # Id(task'[c][u])
    BY <1>2, <2>4 DEF Apart
  <2>9. ChunkSet(c)' = ChunkSet(c)  BY DEF ChunkSet
  <2>10. Distinct(pending[c])' /\ Distinct(parts[c])'  BY <1>2, <2>5 DEF Apart, Distinct, Id
  <2>11. \A i \in DOMAIN pending[c] : pending[c][i] \in ChunkSet(c)  BY <1>2 DEF Apart
  <2> QED  BY <2>1, <2>6, <2>7, <2>8, <2>9, <2>10, <2>11 DEF Apart, Id
<1>11. Whole(c)'
  <2> DEFINE k == Cardinality(Asking(c))  l == Cardinality(Asking(c)')  x == Len(pending[c])  y == Len(parts'[c])
             z == unfinished[c]  total == Len(Tasks(c))
  <2>1. x \in Nat /\ z \in Nat  BY DEF IInv, Types
  <2>2. ~aborted[c] => x + n + z + k = total  BY <1>1, <1>2 DEF Whole, n
  <2> HIDE DEF k, l, x, y, z, total
  <2>3. k \in Nat /\ l = k - 1 /\ y = n + 1  BY <1>3, <1>7 DEF k, l, y
  <2>4. ~aborted[c] => x + y + z + l = total  BY <1>5, <2>1, <2>2, <2>3
  <2> QED  BY <1>1, <2>4 DEF Whole, Tasks, Chunk, l, x, y, z, total
<1>12. \A d \in Calls : d # c => Local(d)'  BY <1>1, <1>6, Frame DEF IInv
<1> QED  BY <1>1, <1>9, <1>10, <1>11, <1>12 DEF IInv, Local, Orderly

\* The chunk goes back to the front of those that wait.
LEMMA WorkPutBack ==
  ASSUME IInv, Constants, NEW c \in Calls, NEW s \in Servers, Sending(c, s), phase[c] # "route",
         turns' = [turns EXCEPT ![s] = Mark(@, Place(s, c), "settled")],
         task' = [task EXCEPT ![c][s] = None], phase' = phase,
         NEW a \in {"idle", "stopped"}, asker' = [asker EXCEPT ![c][s] = a],
         aborted' = aborted, at' = at, launched' = launched,
         parts' = parts, unfinished' = unfinished,
         pending' = [pending EXCEPT ![c] = <<[task[c][s] EXCEPT !.tries = @ + 1]>> \o @]
  PROVE  IInv'
<1>1. /\ turns' \in [Servers -> Seq(Entries)] /\ \A t \in Servers : Orderly(turns'[t])
      /\ task' \in [Calls -> [Servers -> AnyChunk \cup {None}]]
      /\ asker' \in [Calls -> [Servers -> {"off", "idle", "asking", "stopped"}]]
      /\ phase[c] = "send" /\ s \in Asking(c) /\ Asking(c)' = Asking(c) \ {s}
      /\ \A t \in Asking(c)' : task'[c][t] = task[c][t]
      /\ Queued(c)' /\ Workers(c)'
      /\ \A d \in Calls : d # c => /\ task'[d] = task[d] /\ asker'[d] = asker[d]
                                   /\ \A t \in Servers : Has(turns'[t], d) => Has(turns[t], d)
  BY WorkEnds
<1>2. Apart(c) /\ Whole(c)  BY DEF IInv, Local
<1>3. Cardinality(Asking(c)') = Cardinality(Asking(c)) - 1 /\ Cardinality(Asking(c)) \in Nat
  BY <1>1, AskingFinite, FS_RemoveElement
<1> DEFINE t == [task[c][s] EXCEPT !.tries = @ + 1]
           n == Len(pending[c])
<1>4. t \in ChunkSet(c) /\ t \in AnyChunk /\ Id(t) = Id(task[c][s])
  <2>1. task[c][s] \in ChunkSet(c)  BY <1>1, <1>2 DEF Apart
  <2> QED  BY <2>1 DEF ChunkSet, AnyChunk, Id
<1>13. pending' = [pending EXCEPT ![c] = <<t>> \o @]  OBVIOUS
<1> HIDE DEF t
<1>5. pending[c] \in Seq(AnyChunk) /\ n \in Nat /\ DOMAIN pending[c] = 1 .. n  BY DEF IInv, Types
<1>14. <<t>> \in Seq(AnyChunk) /\ Len(<<t>>) = 1 /\ <<t>>[1] = t  BY <1>4
<1>15. /\ <<t>> \o pending[c] \in Seq(AnyChunk) /\ Len(<<t>> \o pending[c]) = 1 + n
       /\ \A i \in 1 .. 1 + n : (<<t>> \o pending[c])[i] = IF i <= 1 THEN t ELSE pending[c][i - 1]
  BY <1>5, <1>14, ConcatProperties
<1>6. pending' \in [Calls -> Seq(AnyChunk)] /\ pending'[c] = <<t>> \o pending[c]
      /\ \A d \in Calls : d # c => pending'[d] = pending[d]
  <2>1. pending \in [Calls -> Seq(AnyChunk)]  BY DEF IInv, Types
  <2> DEFINE longer == <<t>> \o pending[c]
  <2>2. longer \in Seq(AnyChunk)  BY <1>15
  <2>3. pending' = [pending EXCEPT ![c] = longer]  BY <1>13
  <2> HIDE DEF longer
  <2>4. pending' \in [Calls -> Seq(AnyChunk)] /\ pending'[c] = longer
        /\ \A d \in Calls : d # c => pending'[d] = pending[d]
    BY ONLY <2>1, <2>2, <2>3, c \in Calls
  <2> QED  BY ONLY <2>4 DEF longer
<1>7. /\ Len(pending'[c]) = n + 1 /\ DOMAIN pending'[c] = 1 .. n + 1 /\ pending'[c][1] = t
      /\ \A i \in 1 .. n + 1 : i # 1 => i - 1 \in DOMAIN pending[c] /\ pending'[c][i] = pending[c][i - 1]
  BY <1>5, <1>6, <1>15
<1> HIDE DEF n
<1>8. \A i \in DOMAIN pending'[c] : pending'[c][i] = t \/ \E k \in DOMAIN pending[c] : k = i - 1 /\ pending'[c][i] = pending[c][k]
  BY <1>7
<1>9. Types'  BY <1>1, <1>6 DEF IInv, Types
<1>10. Apart(c)'
  <2>1. \A i \in DOMAIN pending'[c] : pending'[c][i] \in ChunkSet(c)  BY <1>2, <1>4, <1>8 DEF Apart
  <2>2. \A i \in DOMAIN pending[c] : Id(pending[c][i]) # Id(t)  BY <1>1, <1>2, <1>4 DEF Apart
  <2>3. \A i \in DOMAIN parts[c] : Id(parts[c][i]) # Id(t)  BY <1>1, <1>2, <1>4 DEF Apart
  <2>4. \A u \in Asking(c)' : u \in Asking(c) /\ Id(task[c][u]) # Id(t) /\ task'[c][u] = task[c][u]
    BY <1>1, <1>2, <1>4 DEF Apart
  <2>5. Distinct(pending'[c])
    <3> SUFFICES ASSUME NEW i \in 1 .. n + 1, NEW j \in 1 .. n + 1, i # j  PROVE Id(pending'[c][i]) # Id(pending'[c][j])
      BY <1>7 DEF Distinct
    <3>1. CASE i # 1 /\ j # 1
      <4>1. i - 1 # j - 1  BY <1>5
      <4> QED  BY <1>2, <1>7, <3>1, <4>1 DEF Apart, Distinct
    <3>2. CASE i = 1 /\ j # 1  BY <1>7, <2>2, <3>2
    <3>3. CASE j = 1 /\ i # 1  BY <1>7, <2>2, <3>3
    <3> QED  BY <3>1, <3>2, <3>3
  <2>13. /\ \A i \in DOMAIN pending[c], j \in DOMAIN parts[c] : Id(pending[c][i]) # Id(parts[c][j])
         /\ \A i \in DOMAIN pending[c], u \in Asking(c) : Id(pending[c][i]) # Id(task[c][u])
    BY ONLY <1>2 DEF Apart
  <2>6. \A i \in DOMAIN pending'[c], j \in DOMAIN parts[c] : Id(pending'[c][i]) # Id(parts[c][j])
    BY ONLY <1>8, <2>3, <2>13
  <2>7. \A i \in DOMAIN pending'[c], u \in Asking(c)' : Id(pending'[c][i]) # Id(task'[c][u])
    BY ONLY <1>8, <2>4, <2>13
  <2>8. /\ \A u \in Asking(c)' : task'[c][u] \in ChunkSet(c)
        /\ \A u, v \in Asking(c)' : u # v => Id(task'[c][u]) # Id(task'[c][v])
        /\ \A i \in DOMAIN parts[c], u \in Asking(c)' : Id(parts[c][i]) # Id(task'[c][u])
    BY <1>2, <2>4 DEF Apart
  <2>9. ChunkSet(c)' = ChunkSet(c)  BY DEF ChunkSet
  <2>10. Distinct(pending[c])' /\ Distinct(parts[c])'
    <3>1. Distinct(pending[c])' = Distinct(pending'[c])  BY ONLY DEF Distinct, Id
    <3>2. Distinct(parts[c])  BY <1>2 DEF Apart
    <3>3. Distinct(parts[c])'  BY <3>2 DEF Distinct, Id
    <3> QED  BY <2>5, <3>1, <3>3
  <2>11. \A i \in DOMAIN parts[c] : parts[c][i] \in ChunkSet(c)  BY <1>2 DEF Apart
  <2>12. parts' = parts  OBVIOUS
  <2> QED  BY ONLY <2>1, <2>6, <2>7, <2>8, <2>9, <2>10, <2>11, <2>12 DEF Apart, Id
<1>11. Whole(c)'
  <2> DEFINE k == Cardinality(Asking(c))  l == Cardinality(Asking(c)')  x == Len(parts[c])  y == Len(pending'[c])
             z == unfinished[c]  total == Len(Tasks(c))
  <2>1. x \in Nat /\ z \in Nat  BY DEF IInv, Types
  <2>2. ~aborted[c] => n + x + z + k = total  BY <1>1, <1>2 DEF Whole, n
  <2> HIDE DEF k, l, x, y, z, total
  <2>3. k \in Nat /\ l = k - 1 /\ y = n + 1  BY <1>3, <1>7 DEF k, l, y
  <2>4. ~aborted[c] => y + x + z + l = total  BY <1>5, <2>1, <2>2, <2>3
  <2> QED  BY <1>1, <2>4 DEF Whole, Tasks, Chunk, l, x, y, z, total
<1>12. \A d \in Calls : d # c => Local(d)'  BY <1>1, <1>6, Frame DEF IInv
<1> QED  BY <1>1, <1>9, <1>10, <1>11, <1>12 DEF IInv, Local, Orderly

\* The chunk is given up and counted.
LEMMA WorkGivenUp ==
  ASSUME IInv, Constants, NEW c \in Calls, NEW s \in Servers, Sending(c, s), phase[c] # "route",
         turns' = [turns EXCEPT ![s] = Mark(@, Place(s, c), "settled")],
         task' = [task EXCEPT ![c][s] = None], phase' = phase,
         NEW a \in {"idle", "stopped"}, asker' = [asker EXCEPT ![c][s] = a],
         aborted' = aborted, at' = at, launched' = launched,
         parts' = parts, pending' = pending, unfinished' = [unfinished EXCEPT ![c] = @ + 1]
  PROVE  IInv'
<1>1. /\ turns' \in [Servers -> Seq(Entries)] /\ \A t \in Servers : Orderly(turns'[t])
      /\ task' \in [Calls -> [Servers -> AnyChunk \cup {None}]]
      /\ asker' \in [Calls -> [Servers -> {"off", "idle", "asking", "stopped"}]]
      /\ phase[c] = "send" /\ s \in Asking(c) /\ Asking(c)' = Asking(c) \ {s}
      /\ \A t \in Asking(c)' : task'[c][t] = task[c][t]
      /\ Queued(c)' /\ Workers(c)'
      /\ \A d \in Calls : d # c => /\ task'[d] = task[d] /\ asker'[d] = asker[d]
                                   /\ \A t \in Servers : Has(turns'[t], d) => Has(turns[t], d)
  BY WorkEnds
<1>2. Apart(c) /\ Whole(c)  BY DEF IInv, Local
<1>3. Cardinality(Asking(c)') = Cardinality(Asking(c)) - 1 /\ Cardinality(Asking(c)) \in Nat
  BY <1>1, AskingFinite, FS_RemoveElement
<1>4. unfinished' \in [Calls -> Nat] /\ unfinished'[c] = unfinished[c] + 1
      /\ \A d \in Calls : d # c => unfinished'[d] = unfinished[d]
  BY DEF IInv, Types
<1>5. Types'  BY <1>1, <1>4 DEF IInv, Types
<1>6. Apart(c)'  BY <1>1, <1>2, Drop
<1>7. Whole(c)'
  <2> DEFINE k == Cardinality(Asking(c))  l == Cardinality(Asking(c)')  x == Len(parts[c])  y == Len(pending[c])
             z == unfinished[c]  w == unfinished'[c]  total == Len(Tasks(c))
  <2>1. x \in Nat /\ y \in Nat /\ z \in Nat  BY DEF IInv, Types
  <2>2. ~aborted[c] => y + x + z + k = total  BY <1>1, <1>2 DEF Whole
  <2> HIDE DEF k, l, x, y, z, w, total
  <2>3. k \in Nat /\ l = k - 1 /\ w = z + 1  BY <1>3, <1>4 DEF k, l, w, z
  <2>4. ~aborted[c] => y + x + w + l = total  BY <2>1, <2>2, <2>3
  <2> QED  BY <1>1, <2>4 DEF Whole, Tasks, Chunk, l, x, y, w, total
<1>8. \A d \in Calls : d # c => Local(d)'  BY <1>1, <1>4, Frame DEF IInv
<1> QED  BY <1>1, <1>5, <1>6, <1>7, <1>8 DEF IInv, Local, Orderly

\* An answer ends the routing, or its chunk joins the parts.
LEMMA AnswerInv ==
  ASSUME IInv, Constants, NEW c \in Calls, NEW s \in Servers, Answer(c, s)
  PROVE  IInv'
<1>1. /\ Sending(c, s) /\ turns' = [turns EXCEPT ![s] = Mark(@, Place(s, c), "settled")]
      /\ task' = [task EXCEPT ![c][s] = None]
      /\ aborted' = aborted /\ at' = at /\ pending' = pending /\ launched' = launched /\ unfinished' = unfinished
  BY DEF Answer, Over, Sending
<1>2. CASE phase[c] = "route"
  <2>1. PICK next \in {"prepared", "advised"} :
          phase' = [phase EXCEPT ![c] = IF aborted[c] THEN "aborted" ELSE next]
    BY <1>2 DEF Answer
  <2>2. parts' = parts /\ asker' = asker  BY <1>2 DEF Answer
  <2>3. CASE aborted[c]
    <3>1. phase' = [phase EXCEPT ![c] = "aborted"]  BY <2>1, <2>3
    <3> QED  BY <1>1, <1>2, <2>2, <3>1, RouteEnds
  <2>4. CASE ~aborted[c]
    <3>1. phase' = [phase EXCEPT ![c] = next]  BY <2>1, <2>4
    <3> QED  BY <1>1, <1>2, <2>2, <3>1, RouteEnds
  <2> QED  BY <2>3, <2>4
<1>3. CASE phase[c] # "route"
  <2>1. /\ parts' = [parts EXCEPT ![c] = IF aborted[c] THEN @ ELSE Append(@, task[c][s])]
        /\ asker' = [asker EXCEPT ![c][s] = IF aborted[c] THEN "stopped" ELSE "idle"] /\ phase' = phase
    BY <1>3 DEF Answer
  <2>2. CASE aborted[c]
    <3>1. parts' = parts /\ asker' = [asker EXCEPT ![c][s] = "stopped"]  BY <2>1, <2>2 DEF IInv, Types
    <3> QED  BY <1>1, <1>3, <2>1, <2>2, <3>1, WorkDropped
  <2>3. CASE ~aborted[c]
    <3>1. parts' = [parts EXCEPT ![c] = Append(@, task[c][s])] /\ asker' = [asker EXCEPT ![c][s] = "idle"]
      BY <2>1, <2>3
    <3> QED  BY <1>1, <1>3, <2>1, <3>1, WorkAnswered
  <2> QED  BY <2>2, <2>3
<1> QED  BY <1>2, <1>3

\* A failure ends the routing or moves it on, or its chunk goes back or is counted.
LEMMA FailInv ==
  ASSUME IInv, Constants, NEW c \in Calls, NEW s \in Servers, NEW how, Fail(c, s, how)
  PROVE  IInv'
<1>1. Sending(c, s) /\ aborted' = aborted /\ launched' = launched /\ parts' = parts
  BY DEF Fail, Sending
<1>2. CASE phase[c] = "route"
  <2>1. pending' = pending /\ asker' = asker /\ unfinished' = unfinished  BY <1>2 DEF Fail
  <2>2. CASE aborted[c]
    <3>1. /\ turns' = [turns EXCEPT ![s] = Mark(@, Place(s, c), "settled")]
          /\ task' = [task EXCEPT ![c][s] = None] /\ phase' = [phase EXCEPT ![c] = "aborted"] /\ at' = at
      BY <1>2, <2>2 DEF Fail, Over
    <3> QED  BY <1>1, <1>2, <2>1, <3>1, RouteEnds
  <2>3. CASE ~aborted[c] /\ how # "unusable" /\ at[c] < Len(Order)
    <3> DEFINE r == Order[at[c] + 1]
    <3>1. /\ turns' = [[turns EXCEPT ![s] = Mark(@, Place(s, c), "settled")] EXCEPT ![r] = Join(@, c)]
          /\ task' = [task EXCEPT ![c] = [@ EXCEPT ![s] = None, ![r] = RouteQuestion]]
          /\ at' = [at EXCEPT ![c] = @ + 1] /\ phase' = phase
      BY <1>2, <2>3 DEF Fail
    <3>2. r \in Servers
      <4>1. at[c] + 1 \in 1 .. Len(Order)  BY <2>3 DEF IInv, Types, Constants
      <4> QED  BY <4>1, ServersFinite
    <3> HIDE DEF r
    <3> QED  BY <1>1, <1>2, <2>1, <2>3, <3>1, <3>2, RouteMoves
  <2>4. CASE ~aborted[c] /\ ~(how # "unusable" /\ at[c] < Len(Order))
    <3>1. /\ turns' = [turns EXCEPT ![s] = Mark(@, Place(s, c), "settled")]
          /\ task' = [task EXCEPT ![c][s] = None] /\ phase' = [phase EXCEPT ![c] = "prepared"] /\ at' = at
      BY <1>2, <2>4 DEF Fail, Over
    <3> QED  BY <1>1, <1>2, <2>1, <3>1, RouteEnds
  <2> QED  BY <2>2, <2>3, <2>4
<1>3. CASE phase[c] # "route"
  <2>1. /\ turns' = [turns EXCEPT ![s] = Mark(@, Place(s, c), "settled")]
        /\ task' = [task EXCEPT ![c][s] = None] /\ asker' = [asker EXCEPT ![c][s] = "stopped"]
        /\ phase' = phase /\ at' = at
    BY <1>3 DEF Fail, Over
  <2>2. CASE aborted[c]
    <3>1. pending' = pending /\ unfinished' = unfinished  BY <1>3, <2>2 DEF Fail
    <3> QED  BY <1>1, <1>3, <2>1, <2>2, <3>1, WorkDropped
  <2>3. CASE ~aborted[c] /\ task[c][s].tries < 1
    <3>1. unfinished' = unfinished /\ pending' = [pending EXCEPT ![c] = <<[task[c][s] EXCEPT !.tries = @ + 1]>> \o @]
      BY <1>3, <2>3 DEF Fail, PutBack
    <3> QED  BY <1>1, <1>3, <2>1, <3>1, WorkPutBack
  <2>4. CASE ~aborted[c] /\ ~(task[c][s].tries < 1)
    <3>1. unfinished' = [unfinished EXCEPT ![c] = @ + 1] /\ pending' = pending
      BY <1>3, <2>4 DEF Fail, PutBack
    <3> QED  BY <1>1, <1>3, <2>1, <3>1, WorkGivenUp
  <2> QED  BY <2>2, <2>3, <2>4
<1> QED  BY <1>2, <1>3

\* With no worker left, what waits is what is missing.
LEMMA SettleInv ==
  ASSUME IInv, Constants, NEW c \in Calls, Settle(c)
  PROVE  IInv'
<1>1. phase[c] = "send" /\ \A s \in Servers : asker[c][s] \in {"off", "stopped"}  BY DEF Settle
<1>2. Queued(c) /\ Apart(c) /\ Whole(c)  BY DEF IInv, Local
<1>3. \A t \in Servers : ~Has(turns[t], c)  BY <1>1, <1>2 DEF Queued
<1>4. Asking(c) = {}  BY <1>1 DEF Asking
<1>5. turns' = turns /\ aborted' = aborted /\ at' = at /\ pending' = pending /\ task' = task /\ parts' = parts
  BY DEF Settle
<1>6. CASE pending[c] # <<>> /\ launched[c] < Len(Order) /\ ~aborted[c]
  <2> DEFINE s == Order[launched[c] + 1]
  <2>1. /\ launched' = [launched EXCEPT ![c] = @ + 1] /\ asker' = [asker EXCEPT ![c][s] = "idle"]
        /\ phase' = phase /\ unfinished' = unfinished
    BY <1>6 DEF Settle
  <2>2. s \in Servers
    <3>1. launched[c] + 1 \in 1 .. Len(Order)  BY <1>6 DEF IInv, Types, Constants
    <3> QED  BY <3>1, ServersFinite
  <2> HIDE DEF s
  <2>3. asker' \in [Calls -> [Servers -> {"off", "idle", "asking", "stopped"}]] /\ asker'[c][s] = "idle"
        /\ (\A t \in Servers : t # s => asker'[c][t] = asker[c][t]) /\ \A d \in Calls : d # c => asker'[d] = asker[d]
    BY <2>1, <2>2 DEF IInv, Types
  <2>4. launched' \in [Calls -> Nat]  BY <2>1 DEF IInv, Types
  <2>5. Types'  BY <1>5, <2>1, <2>3, <2>4 DEF IInv, Types
  <2>6. Asking(c)' = {}  BY <1>1, <2>3 DEF Asking
  <2>7. Queued(c)' /\ Workers(c)'  BY <1>1, <1>3, <1>5, <2>1 DEF Queued, Workers
  <2>8. Apart(c)'  BY <1>2, <1>5, <2>6, Drop
  <2>9. Whole(c)'  BY <1>2, <1>4, <1>5, <2>1, <2>6 DEF Whole, Tasks, Chunk
  <2>10. \A d \in Calls : d # c => Local(d)'  BY <1>5, <2>1, <2>3, Frame DEF IInv
  <2> QED  BY <1>5, <2>5, <2>7, <2>8, <2>9, <2>10 DEF IInv, Local, Orderly
<1>7. CASE ~(pending[c] # <<>> /\ launched[c] < Len(Order) /\ ~aborted[c])
  <2> DEFINE u == IF aborted[c] THEN unfinished[c] ELSE unfinished[c] + Len(pending[c])
             p == IF aborted[c] THEN "aborted" ELSE IF parts[c] = <<>> /\ unfinished'[c] > 0 THEN "failed" ELSE "done"
  <2>1. /\ unfinished' = [unfinished EXCEPT ![c] = u] /\ phase' = [phase EXCEPT ![c] = p]
        /\ launched' = launched /\ asker' = asker
    BY <1>7 DEF Settle
  <2>2. Len(pending[c]) \in Nat /\ Len(parts[c]) \in Nat /\ unfinished[c] \in Nat  BY DEF IInv, Types
  <2>3. u \in Nat /\ (~aborted[c] => u = unfinished[c] + Len(pending[c]))  BY <2>2
  <2>4. p \in {"aborted", "failed", "done"} /\ (aborted[c] => p = "aborted")  OBVIOUS
  <2> HIDE DEF u, p
  <2>5. unfinished' \in [Calls -> Nat] /\ unfinished'[c] = u /\ \A d \in Calls : d # c => unfinished'[d] = unfinished[d]
    BY <2>1, <2>3 DEF IInv, Types
  <2>6. phase' \in [Calls -> Phases] /\ phase'[c] = p /\ \A d \in Calls : d # c => phase'[d] = phase[d]
    BY <2>1, <2>4 DEF IInv, Types, Phases
  <2>7. Types'  BY <1>5, <2>1, <2>5, <2>6 DEF IInv, Types
  <2>8. Queued(c)' /\ Workers(c)'  BY <1>1, <1>3, <1>5, <2>1 DEF Queued, Workers
  <2>9. Asking(c)' = Asking(c)  BY <2>1 DEF Asking
  <2>10. Apart(c)'  BY <1>2, <1>5, <2>9, Drop
  <2>11. Whole(c)'
    <3>1. ~aborted[c] => Len(pending[c]) + Len(parts[c]) + unfinished[c] + 0 = Len(Tasks(c))
      BY <1>1, <1>2, <1>4, FS_EmptySet DEF Whole
    <3> DEFINE x == Len(pending[c])  y == Len(parts[c])  z == unfinished[c]  total == Len(Tasks(c))
    <3>2. x \in Nat /\ y \in Nat /\ z \in Nat /\ (~aborted[c] => x + y + z + 0 = total /\ u = z + x)
      BY <2>2, <2>3, <3>1
    <3> HIDE DEF x, y, z, total
    <3>3. ~aborted[c] => u + y = total  BY <3>2
    <3> QED  BY <1>5, <2>4, <2>5, <2>6, <3>3 DEF Whole, Tasks, Chunk, y, total
  <2>12. \A d \in Calls : d # c => Local(d)'  BY <1>5, <2>1, <2>5, <2>6, Frame DEF IInv
  <2> QED  BY <1>5, <2>7, <2>8, <2>10, <2>11, <2>12 DEF IInv, Local, Orderly
<1> QED  BY <1>6, <1>7

\* c waits for its turn on s.
Waits(c, s) == \E i \in DOMAIN turns[s] : turns[s][i] = [call |-> c, state |-> "waiting"]

\* The queue that an interrupted call leaves.
LEMMA LeavesQueue ==
  ASSUME IInv, NEW c \in Calls, NEW s \in Servers, Waits(c, s)
  PROVE  LET p == [turns[s] EXCEPT ![Place(s, c)].state = "left"]
         IN  /\ p \in Seq(Entries) /\ Orderly(p)
             /\ \A d : Has(p, d) => Has(turns[s], d)
             /\ ~Has(p, c)
<1> DEFINE w == turns[s]
           k == Place(s, c)
<1>1. w \in Seq(Entries) /\ Orderly(w)  BY DEF IInv, Types
<1>2. PICK i \in DOMAIN w : w[i] = [call |-> c, state |-> "waiting"]  BY DEF Waits
<1>3. w[i].call = c /\ w[i].state = "waiting"  BY <1>2
<1>4. k \in DOMAIN w /\ w[k].call = c /\ w[k].state \in {"waiting", "sending"}
  <2>1. \E j \in DOMAIN w : w[j].call = c /\ w[j].state \in {"waiting", "sending"}  BY <1>3
  <2> QED  BY <2>1 DEF Place
<1>5. k = i  BY <1>1, <1>3, <1>4 DEF Orderly
<1> HIDE DEF w, k
<1>6. LET p == [w EXCEPT ![k].state = "left"]
      IN  p \in Seq(Entries) /\ Orderly(p) /\ (\A d : Has(p, d) => Has(w, d)) /\ ~Has(p, w[k].call)
  BY <1>1, <1>3, <1>4, <1>5, LeaveQueue
<1> QED  BY <1>4, <1>6 DEF w, k

\* An interrupted call leaves every queue it waits in, and drops those chunks.
LEMMA AbortInv ==
  ASSUME IInv, Constants, NEW c \in Calls, Abort(c)
  PROVE  IInv'
<1>1. Queued(c) /\ Workers(c) /\ Apart(c)  BY DEF IInv, Local
<1>2. ~Ended(c) /\ aborted' = [aborted EXCEPT ![c] = TRUE] /\ at' = at /\ pending' = pending
      /\ launched' = launched /\ parts' = parts /\ unfinished' = unfinished
  BY DEF Abort
<1>3. /\ turns' = [s \in Servers |-> IF Waits(c, s) THEN [turns[s] EXCEPT ![Place(s, c)].state = "left"] ELSE turns[s]]
      /\ task' = [task EXCEPT ![c] = [s \in Servers |-> IF Waits(c, s) THEN None ELSE @[s]]]
      /\ asker' = [asker EXCEPT ![c] = [s \in Servers |-> IF @[s] = "asking" /\ Waits(c, s) THEN "stopped" ELSE @[s]]]
      /\ phase' = [phase EXCEPT ![c] = IF @ = "prepared" \/ (@ = "route" /\ \E s \in Servers : Waits(c, s))
                                       THEN "aborted" ELSE @]
  BY DEF Abort, Waits
<1>4. \A s \in Servers : Waits(c, s) => Has(turns[s], c)  BY DEF Waits, Has
<1>5. ASSUME NEW s \in Servers
      PROVE  /\ turns'[s] \in Seq(Entries) /\ Orderly(turns'[s])
             /\ \A d : Has(turns'[s], d) => Has(turns[s], d)
             /\ Waits(c, s) => ~Has(turns'[s], c)
  <2>1. CASE Waits(c, s)
    <3> DEFINE p == [turns[s] EXCEPT ![Place(s, c)].state = "left"]
    <3>1. p \in Seq(Entries) /\ Orderly(p) /\ (\A d : Has(p, d) => Has(turns[s], d)) /\ ~Has(p, c)
      BY <2>1, LeavesQueue
    <3>2. turns'[s] = p  BY <1>3, <2>1
    <3> HIDE DEF p
    <3> QED  BY <3>1, <3>2
  <2>2. CASE ~Waits(c, s)
    <3>1. turns'[s] = turns[s]  BY <1>3, <2>2
    <3> QED  BY <2>2, <3>1 DEF IInv, Types
  <2> QED  BY <2>1, <2>2
<1>6. turns' \in [Servers -> Seq(Entries)]
  <2> DEFINE q == turns'
  <2>1. q = [s \in Servers |-> q[s]]  BY <1>3
  <2>2. \A s \in Servers : q[s] \in Seq(Entries)  BY <1>5
  <2> HIDE DEF q
  <2>3. q \in [Servers -> Seq(Entries)]  BY <2>1, <2>2
  <2> QED  BY <2>3 DEF q
<1>7. /\ task' \in [Calls -> [Servers -> AnyChunk \cup {None}]]
      /\ \A s \in Servers : ~Waits(c, s) => task'[c][s] = task[c][s]
      /\ \A d \in Calls : d # c => task'[d] = task[d]
  <2> DEFINE v == [s \in Servers |-> IF Waits(c, s) THEN None ELSE task[c][s]]
  <2>1. task \in [Calls -> [Servers -> AnyChunk \cup {None}]]  BY DEF IInv, Types
  <2>2. v \in [Servers -> AnyChunk \cup {None}] /\ \A s \in Servers : ~Waits(c, s) => v[s] = task[c][s]  BY <2>1
  <2>3. task' = [task EXCEPT ![c] = v]  BY <1>3
  <2> HIDE DEF v
  <2> QED  BY <2>1, <2>2, <2>3
<1>8. /\ asker' \in [Calls -> [Servers -> {"off", "idle", "asking", "stopped"}]]
      /\ \A s \in Servers : asker'[c][s] = IF asker[c][s] = "asking" /\ Waits(c, s) THEN "stopped" ELSE asker[c][s]
      /\ \A d \in Calls : d # c => asker'[d] = asker[d]
  <2> DEFINE v == [s \in Servers |-> IF asker[c][s] = "asking" /\ Waits(c, s) THEN "stopped" ELSE asker[c][s]]
  <2>1. asker \in [Calls -> [Servers -> {"off", "idle", "asking", "stopped"}]]  BY DEF IInv, Types
  <2>2. v \in [Servers -> {"off", "idle", "asking", "stopped"}]
        /\ \A s \in Servers : v[s] = IF asker[c][s] = "asking" /\ Waits(c, s) THEN "stopped" ELSE asker[c][s]
    BY <2>1
  <2>3. asker' = [asker EXCEPT ![c] = v]  BY <1>3
  <2> HIDE DEF v
  <2> QED  BY <2>1, <2>2, <2>3
<1>9. /\ phase' \in [Calls -> Phases] /\ \A d \in Calls : d # c => phase'[d] = phase[d]
      /\ phase'[c] = IF phase[c] = "prepared" \/ (phase[c] = "route" /\ \E s \in Servers : Waits(c, s))
                     THEN "aborted" ELSE phase[c]
  <2> DEFINE p == IF phase[c] = "prepared" \/ (phase[c] = "route" /\ \E s \in Servers : Waits(c, s))
                  THEN "aborted" ELSE phase[c]
  <2>1. phase' = [phase EXCEPT ![c] = p]  BY <1>3
  <2>2. phase \in [Calls -> Phases]  BY DEF IInv, Types
  <2>3. p \in Phases  BY <2>2 DEF Phases
  <2>4. phase'[c] = p /\ phase' \in [Calls -> Phases] /\ \A d \in Calls : d # c => phase'[d] = phase[d]
    <3> HIDE DEF p
    <3> QED  BY <2>1, <2>2, <2>3
  <2> QED  BY <2>4
<1>10. aborted' \in [Calls -> BOOLEAN] /\ aborted'[c] /\ \A d \in Calls : d # c => aborted'[d] = aborted[d]
  BY <1>2 DEF IInv, Types
<1>11. Types'  BY <1>2, <1>6, <1>7, <1>8, <1>9, <1>10 DEF IInv, Types
<1>12. Queued(c)'
  <2>1. ASSUME NEW t \in Servers, Has(turns'[t], c)
        PROVE  Has(turns[t], c) /\ ~Waits(c, t)
    BY <1>5, <2>1
  <2>2. CASE phase[c] = "route"
    <3>1. ASSUME NEW t \in Servers, Has(turns'[t], c)  PROVE phase'[c] = "route"
      BY <1>1, <1>4, <1>9, <2>1, <2>2, <3>1 DEF Queued
    <3>2. \A t, u \in Servers : Has(turns'[t], c) /\ Has(turns'[u], c) => t = u
      BY <1>1, <2>1, <2>2 DEF Queued
    <3> QED  BY <3>1, <3>2 DEF Queued
  <2>3. CASE phase[c] = "send"
    <3>1. phase'[c] = "send"  BY <1>9, <2>3
    <3>2. \A t \in Servers : Has(turns'[t], c) => asker'[c][t] = "asking"
      BY <1>1, <1>8, <2>1, <2>3 DEF Queued
    <3> QED  BY <3>1, <3>2 DEF Queued
  <2>4. CASE phase[c] \notin {"route", "send"}
    <3>1. \A t \in Servers : ~Has(turns'[t], c)  BY <1>1, <2>1, <2>4 DEF Queued
    <3> QED  BY <3>1 DEF Queued
  <2> QED  BY <2>2, <2>3, <2>4
<1>13. Workers(c)'  BY <1>1, <1>8, <1>9 DEF Workers
<1>14. Apart(c)'
  <2>1. \A t \in Asking(c)' : t \in Asking(c) /\ ~Waits(c, t) /\ t \in Servers  BY <1>8 DEF Asking
  <2> QED  BY <1>1, <1>2, <1>7, <2>1, Drop
<1>15. Whole(c)'
  <2>1. phase'[c] \notin {"done", "failed"}  BY <1>2, <1>9 DEF Ended
  <2> QED  BY <1>10, <2>1 DEF Whole
<1>16. \A d \in Calls : d # c => Local(d)'  BY <1>2, <1>5, <1>7, <1>8, <1>9, <1>10, Frame DEF IInv
<1> QED  BY <1>5, <1>11, <1>12, <1>13, <1>14, <1>15, <1>16 DEF IInv, Local, Orderly

---------------------------------------------------------------------------
\* Every step keeps the invariant.
LEMMA NextInv ==
  ASSUME Constants, IInv, [Next]_jevVars
  PROVE  IInv'
<1>1. CASE UNCHANGED jevVars
  <2>1. \A d \in Calls : Local(d)'  BY <1>1, Frame DEF IInv, jevVars
  <2> QED  BY <1>1, <2>1 DEF IInv, Types, Orderly, jevVars
<1>2. ASSUME NEW c \in Calls, Start(c) \/ Launch(c) \/ Settle(c) \/ Abort(c)  PROVE IInv'
  BY <1>2, StartInv, LaunchInv, SettleInv, AbortInv
<1>3. ASSUME NEW c \in Calls, NEW s \in Servers, Take(c, s) \/ Request(c, s)  PROVE IInv'
  BY <1>3, TakeInv, AnswerInv, FailInv DEF Request
<1>4. ASSUME NEW s \in Servers, Queue(s)  PROVE IInv'
  BY <1>4, SendInv, HandOnInv DEF Queue
<1>5. ASSUME NEW s \in Servers, HookFails(s) \/ CoolsOff(s)  PROVE IInv'
  <2>1. \A d \in Calls : Local(d)'  BY <1>5, Frame DEF IInv, HookFails, CoolsOff
  <2> QED  BY <1>5, <2>1 DEF IInv, Types, Orderly, HookFails, CoolsOff
<1> QED  BY <1>1, <1>2, <1>3, <1>4, <1>5 DEF Next

\* As many different chunks of a file as it has are all of them.
LEMMA WholeFile ==
  ASSUME NEW I, IsFiniteSet(I), NEW n \in Nat, NEW g \in [I -> 1 .. n],
         \A i, j \in I : i # j => g[i] # g[j], Cardinality(I) >= n
  PROVE  {g[i] : i \in I} = 1 .. n
<1>1. g \in Injection(I, 1 .. n)  BY DEF Injection, IsInjective
<1>2. IsFiniteSet(1 .. n) /\ Cardinality(1 .. n) = n  BY FS_Interval
<1>3. Cardinality(I) <= n /\ Cardinality(I) \in Nat
  BY <1>1, <1>2, FS_Injection, FS_CardinalityType
<1>4. Cardinality(I) = Cardinality(1 .. n)  BY <1>2, <1>3
<1>5. g \in Surjection(I, 1 .. n)  BY <1>1, <1>2, <1>4, FS_Injection
<1> QED  BY <1>5 DEF Surjection

\* The invariant says what ask_jev promises.
LEMMA InvIsHonest ==
  ASSUME Constants, IInv
  PROVE  AskJevIsHonest
<1>1. OneAtATime
  <2> SUFFICES ASSUME NEW s \in Servers
               PROVE  Cardinality({i \in DOMAIN turns[s] : turns[s][i].state = "sending"}) <= 1
    BY DEF OneAtATime
  <2> DEFINE S == {i \in DOMAIN turns[s] : turns[s][i].state = "sending"}
  <2>1. S \in SUBSET {1}  BY DEF IInv, Orderly
  <2> HIDE DEF S
  <2>2. Cardinality(S) <= 1
    <3>1. IsFiniteSet({1}) /\ Cardinality({1}) = 1  BY FS_Singleton
    <3>2. Cardinality(S) <= Cardinality({1})  BY <2>1, <3>1, FS_Subset
    <3> QED  BY <3>1, <3>2
  <2> QED  BY <2>2 DEF S
<1>2. VerdictsAdmitGaps
  <2> SUFFICES ASSUME NEW c \in Calls
               PROVE  /\ \A i, j \in DOMAIN parts[c] :
                           i # j => <<parts[c][i].file, parts[c][i].chunk>> # <<parts[c][j].file, parts[c][j].chunk>>
                      /\ phase[c] \in {"done", "failed"} => unfinished[c] + Len(parts[c]) = Len(Tasks(c))
                      /\ \A f \in DOMAIN ChunksOf[c] : Verdict(c, f) = "whole" =>
                           {parts[c][i].chunk : i \in {i \in DOMAIN parts[c] : parts[c][i].file = f}} = 1 .. ChunksOf[c][f]
    BY DEF VerdictsAdmitGaps
  <2>1. Apart(c) /\ Whole(c)  BY DEF IInv, Local
  <2>2. \A i, j \in DOMAIN parts[c] :
          i # j => <<parts[c][i].file, parts[c][i].chunk>> # <<parts[c][j].file, parts[c][j].chunk>>
    BY <2>1 DEF Apart, Distinct, Id
  <2>3. phase[c] \in {"done", "failed"} => unfinished[c] + Len(parts[c]) = Len(Tasks(c))  BY <2>1 DEF Whole
  <2>4. ASSUME NEW f \in DOMAIN ChunksOf[c], Verdict(c, f) = "whole"
        PROVE  {parts[c][i].chunk : i \in {i \in DOMAIN parts[c] : parts[c][i].file = f}} = 1 .. ChunksOf[c][f]
    <3> DEFINE I == {i \in DOMAIN parts[c] : parts[c][i].file = f}
               n == ChunksOf[c][f]
               g == [i \in I |-> parts[c][i].chunk]
    <3>1. n \in Nat  BY DEF Constants
    <3>2. IsFiniteSet(I) /\ Cardinality(I) \in Nat
      <4>1. Len(parts[c]) \in Nat /\ I \in SUBSET (1 .. Len(parts[c]))  BY DEF IInv, Types
      <4>2. IsFiniteSet(1 .. Len(parts[c]))  BY <4>1, FS_Interval
      <4> HIDE DEF I
      <4> QED  BY <4>1, <4>2, FS_Subset, FS_CardinalityType
    <3>3. Cardinality(I) >= n
      <4>1. ~(Got(c, f) < ChunksOf[c][f])  BY <2>4 DEF Verdict
      <4>2. Got(c, f) = Cardinality(I)  BY DEF Got
      <4> HIDE DEF I
      <4> QED  BY <3>1, <3>2, <4>1, <4>2
    <3>4. \A i \in I : parts[c][i].chunk \in 1 .. n  BY <2>1 DEF Apart, ChunkSet
    <3>5. g \in [I -> 1 .. n]  BY <3>4
    <3>6. \A i, j \in I : i # j => g[i] # g[j]  BY <2>2
    <3>7. {g[i] : i \in I} = 1 .. n
      <4> HIDE DEF I, n, g
      <4> QED  BY <3>1, <3>2, <3>3, <3>5, <3>6, WholeFile
    <3> QED  BY <3>7
  <2> QED  BY <2>2, <2>3, <2>4
<1> QED  BY <1>1, <1>2 DEF AskJevIsHonest

\* ask_jev (jev.ts): one request at a time per server, over all calls and interrupts; no
\* chunk judged twice or lost however workers fail; verdicts admit their gaps.
THEOREM AnswersAreHonest ==
  ASSUME Constants
  PROVE  Spec => []AskJevIsHonest
<1>1. Init => IInv  BY InitInv
<1>2. IInv /\ [Next]_jevVars => IInv'  BY NextInv
<1>3. IInv => AskJevIsHonest  BY InvIsHonest
<1> QED  BY <1>1, <1>2, <1>3, PTL DEF Spec
=============================================================================
