--------------------------- MODULE ContentProofs ---------------------------
(***************************************************************************)
(* Proofs about what an exchange carries, as MCExchange composes it: the   *)
(* conversation that is rewritten, an answer that is forwarded and a       *)
(* stream that is framed.  As in RequestProofs, whose lemmas on folds are  *)
(* used, a stage's invariant is about the part that it runs in.            *)
(***************************************************************************)
EXTENDS RequestProofs

---------------------------------------------------------------------------
(* RequestRewrite: the conversation.                                       *)

\* The pieces of a text and its running concatenation.
Running(h, s, n) == h[0] = <<>> /\ \A k \in 1 .. n : h[k] = h[k - 1] \o s[k]

\* FlattenSeq concatenates from the left.
LEMMA FlattenRuns ==
  ASSUME NEW W, NEW s \in Seq(Seq(W))
  PROVE  \E h \in [0 .. Len(s) -> Seq(W)] : Running(h, s, Len(s)) /\ h[Len(s)] = Rewrite!FlattenSeq(s)
<1> DEFINE n == Len(s)
           G == [p \in (1 .. n) \X Seq(W) |-> p[2] \o s[p[1]]]
<1>1. n \in Nat /\ \A k \in 1 .. n : s[k] \in Seq(W)
  OBVIOUS
<1>2. G \in [(1 .. n) \X Seq(W) -> Seq(W)] /\ <<>> \in Seq(W)
  BY <1>1
<1>3. \A k \in 1 .. n, v \in Seq(W) : G[<<k, v>>] = v \o s[k]
  BY <1>1
<1> HIDE DEF G, n
<1>4. PICK g \in [SUBSET (1 .. n) -> Seq(W)] : Iterates(g, n, <<>>, G)
  BY <1>1, <1>2, FoldIterates
<1>5. PICK h \in [0 .. n -> Seq(W)] : Runs(h, n, <<>>, G)
  BY <1>1, <1>4, FoldRuns
<1>6. Running(h, s, n)
  <2>1. ASSUME NEW k \in 1 .. n PROVE h[k] = h[k - 1] \o s[k]
    <3>0. k - 1 \in 0 .. n
      BY <1>1
    <3>a. h[k - 1] \in Seq(W)
      BY <1>5, <3>0
    <3>1. h[k - 1] \in Seq(W) /\ h[k] = G[<<k, h[k - 1]>>]
      BY <1>5, <3>a DEF Runs
    <3> QED
      BY <1>3, <3>1
  <2> QED
    BY <1>5, <2>1 DEF Running, Runs
<1>7. h[n] = Rewrite!FlattenSeq(s)
  <2>1. CASE n = 0
    <3>1. s = <<>>
      BY <2>1 DEF n
    <3> QED
      BY <1>6, <2>1, <3>1 DEF Running, Rewrite!FlattenSeq
  <2>2. CASE n # 0
    <3> DEFINE Flat(f) == f = [i \in 1 .. n |-> IF i = 1 THEN s[i] ELSE f[i - 1] \o s[i]]
               f0 == [i \in 1 .. n |-> h[i]]
               f1 == CHOOSE f : Flat(f)
    <3>1. Flat(f0)
      <4>1. ASSUME NEW i \in 1 .. n PROVE f0[i] = IF i = 1 THEN s[i] ELSE f0[i - 1] \o s[i]
        <5>1. h[i] = h[i - 1] \o s[i] /\ f0[i] = h[i]
          BY <1>6 DEF Running
        <5>2. CASE i = 1
          <6>0. h[0] = <<>> /\ s[1] \in Seq(W)
            BY <1>1, <1>6, <5>2 DEF Running
          <6>a. i - 1 = 0
            BY ONLY <5>2
          <6>1. h[0] = <<>> /\ s[1] \in Seq(W) /\ h[1] = h[0] \o s[1]
            BY <5>1, <5>2, <6>0, <6>a
          <6>2. <<>> \o s[1] = s[1]
            BY <6>1, ConcatEmptySeq
          <6> QED
            BY <5>1, <5>2, <6>1, <6>2
        <5>3. CASE i # 1
          <6>1. i - 1 \in 1 .. n /\ f0[i - 1] = h[i - 1]
            BY <1>1, <5>3
          <6> QED
            BY <5>1, <5>3, <6>1
        <5> QED
          BY <5>2, <5>3
      <4> QED
        BY <4>1
    <3>2. Flat(f1)
      BY <3>1
    <3>3. Rewrite!FlattenSeq(s) = f1[n]
      BY <2>2 DEF Rewrite!FlattenSeq, n
    <3> HIDE DEF f0, f1
    <3>4. \A i \in 1 .. n : f1[i] = IF i = 1 THEN s[i] ELSE f1[i - 1] \o s[i]
      <4> DEFINE F == [i \in 1 .. n |-> IF i = 1 THEN s[i] ELSE f1[i - 1] \o s[i]]
      <4>1. f1 = F
        BY <3>2
      <4>2. \A i \in 1 .. n : F[i] = IF i = 1 THEN s[i] ELSE f1[i - 1] \o s[i]
        OBVIOUS
      <4> HIDE DEF F
      <4> QED
        BY <4>1, <4>2
    <3> DEFINE e == [i \in 0 .. n |-> IF i = 0 THEN <<>> ELSE f1[i]]
    <3>5. e[0] = h[0]
      BY <1>1, <1>6 DEF Running
    <3>6. \A k \in 1 .. n : e[k - 1] = h[k - 1] => e[k] = h[k]
      <4> SUFFICES ASSUME NEW k \in 1 .. n, e[k - 1] = h[k - 1] PROVE e[k] = h[k]
        OBVIOUS
      <4>0. h[k] = h[k - 1] \o s[k]
        BY <1>6 DEF Running
      <4>a. k \in 0 .. n /\ k # 0
        BY <1>1
      <4>b. e[k] = f1[k]
        BY <4>a
      <4>1. h[k] = h[k - 1] \o s[k] /\ e[k] = f1[k] /\ s[k] \in Seq(W)
        BY <1>1, <4>0, <4>b
      <4>2. CASE k = 1
        <5>1. h[0] = <<>> /\ <<>> \o s[k] = s[k]
          BY <1>6, <4>1, ConcatEmptySeq DEF Running
        <5>0. k - 1 = 0
          BY ONLY <4>2
        <5>2. f1[k] = s[k]
          BY <3>4, <4>2
        <5> HIDE DEF e
        <5> QED
          BY <4>1, <5>0, <5>1, <5>2
      <4>3. CASE k # 1
        <5>1. e[k - 1] = f1[k - 1]
          BY <1>1, <4>3
        <5> HIDE DEF e
        <5> QED
          BY <3>4, <4>1, <4>3, <5>1
      <4> QED
        BY <4>2, <4>3
    <3>7. e[n] = f1[n]
      BY <1>1, <2>2
    <3> HIDE DEF e
    <3>8. e[n] = h[n]
      BY <1>1, <3>5, <3>6, Lockstep
    <3> QED
      BY <3>3, <3>7, <3>8
  <2> QED
    BY <2>1, <2>2
<1> QED
  BY <1>6, <1>7 DEF n

\* Pieces that say nothing say nothing together.
LEMMA FlattenSilent ==
  ASSUME NEW W, NEW s \in Seq(Seq(W)), \A k \in 1 .. Len(s) : s[k] = <<>>
  PROVE  Rewrite!FlattenSeq(s) = <<>>
<1>1. PICK h \in [0 .. Len(s) -> Seq(W)] : Running(h, s, Len(s)) /\ h[Len(s)] = Rewrite!FlattenSeq(s)
  BY FlattenRuns
<1> DEFINE e == [k \in 0 .. Len(s) |-> <<>>]
<1>2. Len(s) \in Nat
  OBVIOUS
<1>3. e[0] = h[0]
  BY <1>1, <1>2 DEF Running
<1>4. ASSUME NEW k \in 1 .. Len(s), e[k - 1] = h[k - 1] PROVE e[k] = h[k]
  <2>1. e[k] = <<>> /\ e[k - 1] = <<>>
    BY <1>2
  <2>2. h[k] = h[k - 1] \o <<>>
    BY <1>1 DEF Running
  <2>3. <<>> \o <<>> = <<>>
    OBVIOUS
  <2> QED
    BY <1>4, <2>1, <2>2, <2>3
<1>5. e[Len(s)] = <<>>
  BY <1>2
<1> HIDE DEF e
<1>6. e[Len(s)] = h[Len(s)]
  BY <1>2, <1>3, <1>4, Lockstep
<1> QED
  BY <1>1, <1>5, <1>6

\* Concatenating with one more element on the right, or with nothing.
LEMMA ConcatAppend ==
  ASSUME NEW W, NEW a \in Seq(W), NEW b \in Seq(W), NEW w \in W
  PROVE  /\ a \o Append(b, w) = Append(a \o b, w) /\ a \o b \in Seq(W)
         /\ a \o <<>> = a /\ a \o <<w>> = Append(a, w)
OBVIOUS

\* One more piece.
LEMMA FlattenMore ==
  ASSUME NEW W, NEW s \in Seq(Seq(W)), NEW p \in Seq(W)
  PROVE  Rewrite!FlattenSeq(Append(s, p)) = Rewrite!FlattenSeq(s) \o p
<1> DEFINE n == Len(s)
           t == Append(s, p)
<1>1. n \in Nat /\ t \in Seq(Seq(W)) /\ Len(t) = n + 1 /\ t[n + 1] = p /\ \A k \in 1 .. n : t[k] = s[k]
  OBVIOUS
<1>2. PICK h \in [0 .. n -> Seq(W)] : Running(h, s, n) /\ h[n] = Rewrite!FlattenSeq(s)
  BY FlattenRuns
<1> HIDE DEF t
<1>3. PICK g \in [0 .. Len(t) -> Seq(W)] : Running(g, t, Len(t)) /\ g[Len(t)] = Rewrite!FlattenSeq(t)
  BY <1>1, FlattenRuns
<1> HIDE DEF n
<1>4. g[n] = h[n]
  <2>1. g[0] = h[0]
    BY <1>2, <1>3 DEF Running
  <2>2. ASSUME NEW k \in 1 .. n, g[k - 1] = h[k - 1] PROVE g[k] = h[k]
    <3>1. k \in 1 .. Len(t) /\ t[k] = s[k]
      BY <1>1
    <3>2. g[k] = g[k - 1] \o t[k] /\ h[k] = h[k - 1] \o s[k]
      BY <1>2, <1>3, <3>1 DEF Running
    <3> QED
      BY <2>2, <3>1, <3>2
  <2> QED
    BY <1>1, <2>1, <2>2, Lockstep
<1>5. g[n + 1] = g[n] \o t[n + 1]
  <2>1. PICK k : k = n + 1
    OBVIOUS
  <2>2. k \in 1 .. Len(t) /\ k - 1 = n
    <3>1. n \in Nat /\ Len(t) = n + 1
      BY <1>1
    <3> QED
      BY ONLY <2>1, <3>1
  <2>3. g[k] = g[k - 1] \o t[k]
    BY <1>3, <2>2 DEF Running
  <2> QED
    BY <2>1, <2>2, <2>3
<1> QED
  BY <1>1, <1>2, <1>3, <1>4, <1>5 DEF t

\* A word at the end of the last piece that says anything.
Longer(t, s, m, w) ==
  /\ Len(t) = Len(s) /\ m \in 1 .. Len(s) /\ t[m] = Append(s[m], w)
  /\ \A k \in 1 .. Len(s) : k # m => t[k] = s[k]
  /\ \A k \in 1 .. Len(s) : k > m => s[k] = <<>>

\* Such a word is the last of the whole.
LEMMA FlattenLonger ==
  ASSUME NEW W, NEW s \in Seq(Seq(W)), NEW t \in Seq(Seq(W)), NEW w \in W, NEW m, Longer(t, s, m, w)
  PROVE  Rewrite!FlattenSeq(t) = Append(Rewrite!FlattenSeq(s), w)
<1> DEFINE n == Len(s)
<1>a. /\ Len(t) = n /\ m \in 1 .. n /\ t[m] = Append(s[m], w)
      /\ \A k \in 1 .. n : k # m => t[k] = s[k]
      /\ \A k \in 1 .. n : k > m => s[k] = <<>>
  BY DEF Longer
<1>1. n \in Nat /\ m \in 1 .. n /\ \A k \in 1 .. n : s[k] \in Seq(W) /\ t[k] \in Seq(W)
  BY <1>a
<1>0. n \in Nat /\ m \in 1 .. n
  BY <1>1
<1>2. PICK h \in [0 .. n -> Seq(W)] : Running(h, s, n) /\ h[n] = Rewrite!FlattenSeq(s)
  BY FlattenRuns
<1>3. PICK g \in [0 .. n -> Seq(W)] : Running(g, t, n) /\ g[n] = Rewrite!FlattenSeq(t)
  BY <1>a, FlattenRuns
<1>4. /\ \A k \in 1 .. n : k # m => t[k] = s[k]
      /\ \A k \in 1 .. n : k > m => s[k] = <<>>
  BY <1>a
<1> HIDE DEF n
<1>5. \A k \in 1 .. n : g[k] = g[k - 1] \o t[k] /\ h[k] = h[k - 1] \o s[k]
  BY <1>2, <1>3 DEF Running
<1>6. g[m - 1] = h[m - 1]
  <2>1. g[0] = h[0] /\ m - 1 \in Nat
    BY <1>1, <1>2, <1>3 DEF Running
  <2>2. ASSUME NEW k \in 1 .. m - 1, g[k - 1] = h[k - 1] PROVE g[k] = h[k]
    <3>1. k \in 1 .. n /\ k # m
      BY <1>1
    <3> QED
      BY <1>4, <1>5, <2>2, <3>1
  <2> QED
    BY <2>1, <2>2, Lockstep
<1>7. g[m] = Append(h[m], w)
  <2>1. m - 1 \in 0 .. n
    BY ONLY <1>0
  <2>2. h[m - 1] \in Seq(W) /\ s[m] \in Seq(W)
    BY <1>1, <2>1
  <2>3. g[m] = h[m - 1] \o Append(s[m], w) /\ h[m] = h[m - 1] \o s[m]
    BY <1>a, <1>1, <1>5, <1>6
  <2>4. h[m - 1] \o Append(s[m], w) = Append(h[m - 1] \o s[m], w)
    <3>1. PICK a, b : a = h[m - 1] /\ b = s[m]
      OBVIOUS
    <3>2. a \in Seq(W) /\ b \in Seq(W)
      BY <2>2, <3>1
    <3>3. a \o Append(b, w) = Append(a \o b, w)
      BY ONLY <3>2, ConcatAppend, w \in W
    <3> QED
      BY ONLY <3>1, <3>3
  <2> QED
    BY ONLY <2>3, <2>4
<1> DEFINE e == [i \in 0 .. n - m |-> g[m + i]]
           f == [i \in 0 .. n - m |-> Append(h[m + i], w)]
<1>8. n - m \in Nat /\ \A i \in 0 .. n - m : m + i \in 0 .. n
  BY ONLY <1>0
<1>9. \A i \in 0 .. n - m : e[i] = g[m + i] /\ f[i] = Append(h[m + i], w)
  OBVIOUS
<1> HIDE DEF e, f
<1>10. e[0] = f[0]
  <2>1. 0 \in 0 .. n - m /\ m + 0 = m
    BY ONLY <1>0, <1>8
  <2> QED
    BY <1>7, <1>9, <2>1
<1>11. ASSUME NEW i \in 1 .. n - m, e[i - 1] = f[i - 1] PROVE e[i] = f[i]
  <2>1. PICK j, l : j = m + i /\ l = m + (i - 1)
    OBVIOUS
  <2>2. j \in 1 .. n /\ j > m /\ j # m /\ j - 1 = l /\ i - 1 \in 0 .. n - m /\ i \in 0 .. n - m /\ l \in 0 .. n
    BY ONLY <1>0, <1>8, <2>1, i \in 1 .. n - m
  <2>3. s[j] = <<>> /\ t[j] = <<>>
    BY <1>4, <2>2
  <2>4. g[j] = g[l] \o <<>> /\ h[j] = h[l] \o <<>>
    BY <1>5, <2>2, <2>3
  <2>5. g[l] \in Seq(W) /\ h[l] \in Seq(W)
    BY <2>2
  <2>6. g[j] = g[l] /\ h[j] = h[l]
    BY <2>4, <2>5, ConcatAppend
  <2>7. e[i] = g[j] /\ e[i - 1] = g[l] /\ f[i] = Append(h[j], w) /\ f[i - 1] = Append(h[l], w)
    BY <1>9, <2>1, <2>2
  <2> QED
    BY ONLY <1>11, <2>6, <2>7
<1>12. e[n - m] = f[n - m]
  BY <1>8, <1>10, <1>11, Lockstep
<1>13. n - m \in 0 .. n - m /\ m + (n - m) = n
  BY ONLY <1>0, <1>8
<1> QED
  BY <1>2, <1>3, <1>9, <1>12, <1>13

\* The conversations of a body: a content is a scalar, a text or a list of parts.
Vocabulary == {"a", "b", "s", "t", Block}
PartSet == {Rewrite!Part(t, x, e) : t \in {"text", "image", Absent}, x \in Rewrite!Scalars \cup Seq(Vocabulary), e \in {"extra", Absent}}
ContentSet == Rewrite!Scalars \cup {Rewrite!Text(v) : v \in Seq(Vocabulary)} \cup {Rewrite!Parts(ps) : ps \in Seq(PartSet)}
MessageSet ==
  {Rewrite!Message(r, c, e) : r \in {"user", "system", "assistant", Other}, c \in ContentSet, e \in {"extra", Absent}}

\* A part says its text.
LEMMA PartSays ==
  ASSUME RewriteConstants
  PROVE  /\ \A p \in PartSet : /\ p = [type |-> p.type, text |-> p.text, extra |-> p.extra]
                               /\ p.type \in {"text", "image", Absent} /\ p.text \in Rewrite!Scalars \cup Seq(Vocabulary)
                               /\ Rewrite!PartWords(p) \in Seq(Vocabulary)
         /\ \A t \in {"text", "image", Absent}, x \in Rewrite!Scalars \cup Seq(Vocabulary), e \in {"extra", Absent} :
              Rewrite!Part(t, x, e) \in PartSet
<1>1. ASSUME NEW p \in PartSet
      PROVE  /\ p = [type |-> p.type, text |-> p.text, extra |-> p.extra]
             /\ p.type \in {"text", "image", Absent} /\ p.text \in Rewrite!Scalars \cup Seq(Vocabulary)
             /\ Rewrite!PartWords(p) \in Seq(Vocabulary)
  <2>1. PICK t \in {"text", "image", Absent}, x \in Rewrite!Scalars \cup Seq(Vocabulary), e \in {"extra", Absent} :
               p = Rewrite!Part(t, x, e)
    BY DEF PartSet
  <2>2. p = [type |-> t, text |-> x, extra |-> e]
    BY <2>1 DEF Rewrite!Part
  <2>3. <<>> \in Seq(Vocabulary)
    OBVIOUS
  <2>4. p.text \in Rewrite!Scalars \cup Seq(Vocabulary) /\ p.type = t
    BY <2>2
  <2>5. Rewrite!PartWords(p) \in Seq(Vocabulary)
    BY <2>3, <2>4 DEF Rewrite!PartWords
  <2> QED
    BY <2>2, <2>5
<1>2. ASSUME NEW t \in {"text", "image", Absent}, NEW x \in Rewrite!Scalars \cup Seq(Vocabulary), NEW e \in {"extra", Absent}
      PROVE  Rewrite!Part(t, x, e) \in PartSet
  BY DEF PartSet
<1> QED
  BY <1>1, <1>2

\* The pieces of a list of parts.
Pieces(ps) == [i \in 1 .. Len(ps) |-> Rewrite!PartWords(ps[i])]

\* The pieces are texts.
LEMMA PiecesAreTexts ==
  ASSUME RewriteConstants, NEW ps \in Seq(PartSet)
  PROVE  Pieces(ps) \in Seq(Seq(Vocabulary)) /\ Len(Pieces(ps)) = Len(ps)
<1>1. ASSUME NEW i \in 1 .. Len(ps) PROVE Rewrite!PartWords(ps[i]) \in Seq(Vocabulary)
  <2>1. ps[i] \in PartSet
    OBVIOUS
  <2> QED
    BY <2>1, PartSays
<1>2. Len(ps) \in Nat
  OBVIOUS
<1> QED
  BY <1>1, <1>2 DEF Pieces

\* What the texts and the lists of parts are.
LEMMA ContentShapes ==
  ASSUME RewriteConstants
  PROVE  /\ \A v : /\ Rewrite!Text(v) \notin Rewrite!Scalars /\ Rewrite!Text(v) = [is |-> "text", value |-> v]
                   /\ Rewrite!Words(Rewrite!Text(v)) = v
         /\ \A ps : /\ Rewrite!Parts(ps) \notin Rewrite!Scalars /\ Rewrite!Parts(ps) = [is |-> "parts", value |-> ps]
                    /\ Rewrite!Words(Rewrite!Parts(ps)) = Rewrite!FlattenSeq(Pieces(ps))
         /\ \A c \in Rewrite!Scalars : Rewrite!Words(c) = <<>>
<1>1. ASSUME NEW v PROVE Rewrite!Text(v) \notin Rewrite!Scalars /\ Rewrite!Text(v) = [is |-> "text", value |-> v]
  <2>1. Rewrite!Text(v) = [x \in {"is", "value"} |-> Rewrite!Text(v)[x]]
    BY DEF Rewrite!Text
  <2> QED
    BY <2>1 DEF RewriteConstants, Rewrite!Text
<1>2. ASSUME NEW v PROVE Rewrite!Parts(v) \notin Rewrite!Scalars /\ Rewrite!Parts(v) = [is |-> "parts", value |-> v]
  <2>1. Rewrite!Parts(v) = [x \in {"is", "value"} |-> Rewrite!Parts(v)[x]]
    BY DEF Rewrite!Parts
  <2> QED
    BY <2>1 DEF RewriteConstants, Rewrite!Parts
<1>3. ASSUME NEW v PROVE Rewrite!Words(Rewrite!Text(v)) = v
  BY <1>1 DEF Rewrite!Words
<1>4. ASSUME NEW ps PROVE Rewrite!Words(Rewrite!Parts(ps)) = Rewrite!FlattenSeq(Pieces(ps))
  BY <1>2 DEF Rewrite!Words, Pieces
<1>5. ASSUME NEW c \in Rewrite!Scalars PROVE Rewrite!Words(c) = <<>>
  BY DEF Rewrite!Words
<1> QED
  BY <1>1, <1>2, <1>3, <1>4, <1>5

\* A content is a sequence of words.
LEMMA ContentSays ==
  ASSUME RewriteConstants, NEW c \in ContentSet
  PROVE  Rewrite!Words(c) \in Seq(Vocabulary)
<1>1. CASE c \in Rewrite!Scalars
  <2>1. <<>> \in Seq(Vocabulary)
    OBVIOUS
  <2> QED
    BY <1>1, <2>1, ContentShapes
<1>2. CASE c \in {Rewrite!Text(v) : v \in Seq(Vocabulary)}
  BY <1>2, ContentShapes
<1>3. CASE c \in {Rewrite!Parts(ps) : ps \in Seq(PartSet)}
  <2>1. PICK ps \in Seq(PartSet) : c = Rewrite!Parts(ps)
    BY <1>3
  <2>2. Pieces(ps) \in Seq(Seq(Vocabulary))
    BY PiecesAreTexts
  <2>3. PICK h \in [0 .. Len(Pieces(ps)) -> Seq(Vocabulary)] : h[Len(Pieces(ps))] = Rewrite!FlattenSeq(Pieces(ps))
    BY <2>2, FlattenRuns
  <2>4. Len(Pieces(ps)) \in Nat
    BY <2>2
  <2>5. h[Len(Pieces(ps))] \in Seq(Vocabulary)
    BY <2>3, <2>4
  <2> QED
    BY <2>1, <2>3, <2>5, ContentShapes
<1> QED
  BY <1>1, <1>2, <1>3 DEF ContentSet

\* The last of some indices.
LEMMA LastOf ==
  ASSUME NEW n \in Nat, NEW I \in SUBSET (1 .. n), I # {}
  PROVE  Rewrite!Max(I) \in I /\ \A i \in I : i <= Rewrite!Max(I)
<1>1. Rewrite!Max(I) = Greatest(I)
  BY DEF Rewrite!Max, Greatest
<1>2. Greatest(I) \in I /\ \A y \in I : Greatest(I) >= y
  BY GreatestIs
<1> QED
  BY <1>1, <1>2

\* The last text part, and the last user message.
LEMMA LastText ==
  ASSUME NEW ps, Len(ps) \in Nat, NEW last, last = Rewrite!SelectLastInSeq(ps, Rewrite!IsText), last # 0
  PROVE  /\ last \in 1 .. Len(ps) /\ Rewrite!IsText(ps[last])
         /\ \A i \in 1 .. Len(ps) : i > last => ~Rewrite!IsText(ps[i])
<1> DEFINE I == {i \in 1 .. Len(ps) : Rewrite!IsText(ps[i])}
<1>1. I # {} /\ last = Rewrite!Max(I) /\ I \in SUBSET (1 .. Len(ps))
  BY DEF Rewrite!SelectLastInSeq
<1> HIDE DEF I
<1>2. last \in I /\ \A i \in I : i <= last
  BY <1>1, LastOf
<1>3. \A i \in 1 .. Len(ps) : i > last => i \notin I
  BY <1>1, <1>2
<1> QED
  BY <1>2, <1>3 DEF I

\* What a message is made of.
LEMMA MessageShapes ==
  ASSUME NEW m \in MessageSet
  PROVE  /\ m = [role |-> m.role, content |-> m.content, extra |-> m.extra]
         /\ m.role \in {"user", "system", "assistant", Other} /\ m.content \in ContentSet /\ m.extra \in {"extra", Absent}
<1>1. PICK r \in {"user", "system", "assistant", Other}, c \in ContentSet, e \in {"extra", Absent} : m = Rewrite!Message(r, c, e)
  BY DEF MessageSet
<1>2. m = [role |-> r, content |-> c, extra |-> e]
  BY <1>1 DEF Rewrite!Message
<1>3. m.role = r /\ m.content = c /\ m.extra = e
  BY <1>2
<1> QED
  BY <1>2, <1>3

\* A block appended to a list of parts.
LEMMA PartsAppended ==
  ASSUME RewriteConstants, NEW ps \in Seq(PartSet)
  PROVE  LET more == Append(ps, Rewrite!Part("text", <<Block>>, Absent))
         IN  /\ more \in Seq(PartSet)
             /\ Rewrite!Words(Rewrite!Parts(more)) = Append(Rewrite!Words(Rewrite!Parts(ps)), Block)
<1> DEFINE p == Rewrite!Part("text", <<Block>>, Absent)
           more == Append(ps, p)
<1>1. Block \in Vocabulary /\ <<Block>> \in Seq(Vocabulary)
  BY DEF Vocabulary
<1>2. p \in PartSet
  BY <1>1, PartSays
<1>3. Rewrite!PartWords(p) = <<Block>>
  <2>1. p.type = "text" /\ p.text = <<Block>>
    BY DEF Rewrite!Part
  <2>2. <<Block>> \notin Rewrite!Scalars
    BY <1>1, TablesAreNoScalars
  <2> HIDE DEF p
  <2> QED
    BY <2>1, <2>2 DEF Rewrite!PartWords, Rewrite!IsText
<1> HIDE DEF p
<1>4. more \in Seq(PartSet) /\ Len(more) = Len(ps) + 1 /\ more[Len(ps) + 1] = p /\ \A i \in 1 .. Len(ps) : more[i] = ps[i]
  BY <1>2
<1> HIDE DEF more
<1>5. Pieces(ps) \in Seq(Seq(Vocabulary)) /\ Len(Pieces(ps)) = Len(ps)
  BY PiecesAreTexts
<1>6. Pieces(more) = Append(Pieces(ps), <<Block>>)
  <2>1. Len(ps) \in Nat
    OBVIOUS
  <2>2. ASSUME NEW i \in 1 .. Len(ps) + 1
        PROVE  Rewrite!PartWords(more[i]) = IF i <= Len(ps) THEN Rewrite!PartWords(ps[i]) ELSE <<Block>>
    BY <1>3, <1>4, <2>1
  <2>3. Append(Pieces(ps), <<Block>>) = [i \in 1 .. Len(ps) + 1 |-> IF i <= Len(ps) THEN Rewrite!PartWords(ps[i]) ELSE <<Block>>]
    <3> DEFINE q == Append(Pieces(ps), <<Block>>)
    <3>1. q \in Seq(Seq(Vocabulary)) /\ Len(q) = Len(ps) + 1
      BY <1>1, <1>5
    <3>2. ASSUME NEW i \in 1 .. Len(ps) + 1 PROVE q[i] = IF i <= Len(ps) THEN Rewrite!PartWords(ps[i]) ELSE <<Block>>
      <4>1. q[i] = IF i <= Len(ps) THEN Pieces(ps)[i] ELSE <<Block>>
        BY <1>1, <1>5, <2>1
      <4>2. i <= Len(ps) => Pieces(ps)[i] = Rewrite!PartWords(ps[i])
        BY <2>1 DEF Pieces
      <4> QED
        BY <4>1, <4>2
    <3> HIDE DEF q
    <3>3. q = [i \in 1 .. Len(ps) + 1 |-> q[i]]
      BY <3>1
    <3>4. q = [i \in 1 .. Len(ps) + 1 |-> IF i <= Len(ps) THEN Rewrite!PartWords(ps[i]) ELSE <<Block>>]
      BY <3>2, <3>3
    <3> QED
      BY <3>4 DEF q
  <2> QED
    BY <1>4, <2>2, <2>3 DEF Pieces
<1>7. Rewrite!FlattenSeq(Pieces(more)) = Rewrite!FlattenSeq(Pieces(ps)) \o <<Block>>
  BY <1>1, <1>5, <1>6, FlattenMore
<1>8. Rewrite!FlattenSeq(Pieces(ps)) \in Seq(Vocabulary)
  <2>1. Rewrite!Parts(ps) \in ContentSet
    BY DEF ContentSet
  <2> QED
    BY <2>1, ContentSays, ContentShapes
<1>9. Rewrite!FlattenSeq(Pieces(ps)) \o <<Block>> = Append(Rewrite!FlattenSeq(Pieces(ps)), Block)
  BY <1>1, <1>8, ConcatAppend
<1> QED
  BY <1>4, <1>7, <1>9, ContentShapes DEF more, p

\* A block appended to the last text of a list of parts.
LEMMA TextAppended ==
  ASSUME RewriteConstants, NEW ps \in Seq(PartSet), NEW last, last = Rewrite!SelectLastInSeq(ps, Rewrite!IsText),
         last # 0, ps[last].text \notin Rewrite!Scalars
  PROVE  LET more == [ps EXCEPT ![last].text = Append(ps[last].text, Block)]
         IN  Rewrite!Words(Rewrite!Parts(more)) = Append(Rewrite!Words(Rewrite!Parts(ps)), Block)
<1> DEFINE q == [ps[last] EXCEPT !.text = Append(ps[last].text, Block)]
           more == [ps EXCEPT ![last].text = Append(ps[last].text, Block)]
<1>0. Len(ps) \in Nat /\ Block \in Vocabulary
  BY DEF Vocabulary
<1>1. /\ last \in 1 .. Len(ps) /\ Rewrite!IsText(ps[last])
      /\ \A i \in 1 .. Len(ps) : i > last => ~Rewrite!IsText(ps[i])
  BY <1>0, LastText
<1>a. ps[last] \in PartSet
  BY <1>1
<1>2. /\ ps[last] = [type |-> ps[last].type, text |-> ps[last].text, extra |-> ps[last].extra]
      /\ ps[last].text \in Seq(Vocabulary)
  BY <1>a, PartSays
<1>3. q.type = ps[last].type /\ q.text = Append(ps[last].text, Block)
  BY <1>2
<1>4. Append(ps[last].text, Block) \in Seq(Vocabulary)
  BY <1>0, <1>2
<1>5. Rewrite!PartWords(q) = Append(ps[last].text, Block) /\ Rewrite!PartWords(ps[last]) = ps[last].text
  <2>1. Append(ps[last].text, Block) \notin Rewrite!Scalars
    BY <1>4, TablesAreNoScalars
  <2> HIDE DEF q
  <2> QED
    BY <1>1, <1>3, <2>1 DEF Rewrite!PartWords, Rewrite!IsText
<1>6. more = [i \in 1 .. Len(ps) |-> IF i = last THEN q ELSE ps[i]]
  <2>1. more = [ps EXCEPT ![last] = q]
    OBVIOUS
  <2>2. DOMAIN ps = 1 .. Len(ps)
    OBVIOUS
  <2> HIDE DEF q, more
  <2> QED
    BY <1>1, <2>1, <2>2
<1> HIDE DEF q, more
<1>7. Len(more) = Len(ps) /\ more[last] = q /\ \A i \in 1 .. Len(ps) : i # last => more[i] = ps[i]
  BY <1>0, <1>1, <1>6
<1> DEFINE s == Pieces(ps)
           t == Pieces(more)
<1>8. s \in Seq(Seq(Vocabulary)) /\ Len(s) = Len(ps)
  BY PiecesAreTexts
<1>9. \A i \in 1 .. Len(ps) : s[i] = Rewrite!PartWords(ps[i]) /\ t[i] = Rewrite!PartWords(more[i])
  BY <1>7 DEF Pieces
<1>10. t[last] = Append(s[last], Block) /\ \A i \in 1 .. Len(ps) : i # last => t[i] = s[i]
  BY <1>1, <1>5, <1>7, <1>9
<1>11. \A i \in 1 .. Len(ps) : i > last => s[i] = <<>>
  BY <1>1, <1>9 DEF Rewrite!PartWords
<1>12. t \in Seq(Seq(Vocabulary)) /\ Len(t) = Len(s)
  <2>1. ASSUME NEW i \in 1 .. Len(ps) PROVE Rewrite!PartWords(more[i]) \in Seq(Vocabulary)
    <3>1. CASE i = last
      BY <1>4, <1>5, <1>7, <3>1
    <3>2. CASE i # last
      <4>1. ps[i] \in PartSet
        OBVIOUS
      <4> QED
        BY <1>7, <3>2, <4>1, PartSays
    <3> QED
      BY <3>1, <3>2
  <2>2. t = [i \in 1 .. Len(ps) |-> Rewrite!PartWords(more[i])]
    BY <1>7 DEF Pieces
  <2> HIDE DEF t
  <2> QED
    BY <1>0, <1>8, <2>1, <2>2
<1> HIDE DEF s, t
<1>13. Rewrite!FlattenSeq(t) = Append(Rewrite!FlattenSeq(s), Block)
  <2>1. /\ last \in 1 .. Len(s) /\ \A i \in 1 .. Len(s) : i # last => t[i] = s[i]
        /\ \A i \in 1 .. Len(s) : i > last => s[i] = <<>>
    BY <1>1, <1>8, <1>10, <1>11
  <2>2. Longer(t, s, last, Block)
    BY <1>10, <1>12, <2>1 DEF Longer
  <2> QED
    BY <1>0, <1>8, <1>12, <2>2, FlattenLonger
<1> QED
  BY <1>13, ContentShapes DEF s, t, more

\* A message with a role and a content the code may meet.
Sayable(m) == DOMAIN m = {"role", "content", "extra"} /\ m.content \in ContentSet

\* The block goes to the end of what a message says, and its role stays.
LEMMA BlockAppended ==
  ASSUME RewriteConstants, NEW m, Sayable(m), m.content # Other
  PROVE  LET n == Rewrite!append_block_to_message(m)
         IN  n.role = m.role /\ Rewrite!Words(n.content) = Append(Rewrite!Words(m.content), Block)
<1> DEFINE n == Rewrite!append_block_to_message(m)
<1>0. DOMAIN m = {"role", "content", "extra"} /\ m.content \in ContentSet
  BY DEF Sayable
<1>1. CASE m.content \in {Absent, Null}
  <2>1. n = [m EXCEPT !.content = Rewrite!Text(<<Block>>)]
    BY <1>1 DEF Rewrite!append_block_to_message
  <2>2. n.role = m.role /\ n.content = Rewrite!Text(<<Block>>)
    BY <1>0, <2>1
  <2>3. Rewrite!Words(m.content) = <<>>
    BY <1>1, ContentShapes DEF Rewrite!Scalars
  <2>4. Append(<<>>, Block) = <<Block>>
    OBVIOUS
  <2> QED
    BY <2>2, <2>3, <2>4, ContentShapes
<1>2. CASE m.content \notin Rewrite!Scalars
  <2>0. m.content \notin {Absent, Null}
    BY <1>2 DEF Rewrite!Scalars
  <2>1. CASE m.content \in {Rewrite!Text(v) : v \in Seq(Vocabulary)}
    <3>1. PICK v \in Seq(Vocabulary) : m.content = Rewrite!Text(v)
      BY <2>1
    <3>2. m.content = [is |-> "text", value |-> v] /\ m.content.is = "text" /\ m.content.value = v
      BY <3>1, ContentShapes
    <3>3. n = [m EXCEPT !.content.value = Append(v, Block)]
      BY <2>0, <3>2 DEF Rewrite!append_block_to_message
    <3>4. n.role = m.role /\ n.content = [m.content EXCEPT !.value = Append(v, Block)]
      BY <1>0, <3>3
    <3>5. [m.content EXCEPT !.value = Append(v, Block)] = [is |-> "text", value |-> Append(v, Block)]
      BY <3>2
    <3>6. n.content = Rewrite!Text(Append(v, Block))
      BY <3>4, <3>5, ContentShapes
    <3>7. Rewrite!Words(Rewrite!Text(Append(v, Block))) = Append(v, Block) /\ Rewrite!Words(Rewrite!Text(v)) = v
      BY ContentShapes
    <3> QED
      BY <3>1, <3>4, <3>6, <3>7
  <2>2. CASE m.content \in {Rewrite!Parts(ps) : ps \in Seq(PartSet)}
    <3>1. PICK ps \in Seq(PartSet) : m.content = Rewrite!Parts(ps)
      BY <2>2
    <3>2. m.content = [is |-> "parts", value |-> ps] /\ m.content.is = "parts" /\ m.content.value = ps
      BY <3>1, ContentShapes
    <3>a. ASSUME NEW more, n = [m EXCEPT !.content.value = more]
          PROVE  n.role = m.role /\ n.content = Rewrite!Parts(more)
      <4>1. n.role = m.role /\ n.content = [m.content EXCEPT !.value = more]
        BY <1>0, <3>a
      <4>2. [m.content EXCEPT !.value = more] = [is |-> "parts", value |-> more]
        BY <3>2
      <4> QED
        BY <4>1, <4>2, ContentShapes
    <3> DEFINE last == Rewrite!SelectLastInSeq(ps, Rewrite!IsText)
    <3>3. CASE last # 0 /\ ps[last].text \notin Rewrite!Scalars
      <4> DEFINE more == [ps EXCEPT ![last].text = Append(ps[last].text, Block)]
      <4>1. n = [m EXCEPT !.content.value[last].text = Append(ps[last].text, Block)]
        BY <2>0, <3>2, <3>3 DEF Rewrite!append_block_to_message
      <4>2. n = [m EXCEPT !.content.value = more]
        BY <3>2, <4>1
      <4>3. Rewrite!Words(Rewrite!Parts(more)) = Append(Rewrite!Words(Rewrite!Parts(ps)), Block)
        BY <3>3, TextAppended
      <4> HIDE DEF more
      <4> QED
        BY <3>1, <3>a, <4>2, <4>3
    <3>4. CASE ~(last # 0 /\ ps[last].text \notin Rewrite!Scalars)
      <4> DEFINE more == Append(ps, Rewrite!Part("text", <<Block>>, Absent))
      <4>1. n = [m EXCEPT !.content.value = more]
        BY <2>0, <3>2, <3>4 DEF Rewrite!append_block_to_message
      <4>2. Rewrite!Words(Rewrite!Parts(more)) = Append(Rewrite!Words(Rewrite!Parts(ps)), Block)
        BY PartsAppended
      <4> HIDE DEF more
      <4> QED
        BY <3>1, <3>a, <4>1, <4>2
    <3> QED
      BY <3>3, <3>4
  <2> QED
    BY <1>0, <1>2, <2>1, <2>2 DEF ContentSet
<1> QED
  BY <1>1, <1>2 DEF Rewrite!Scalars

\* Typing a content as serde does keeps what it says.
LEMMA RetypedSays ==
  ASSUME RewriteConstants, NEW m \in MessageSet
  PROVE  LET n == Rewrite!Retyped(m)
         IN  Sayable(n) /\ n.content # Other /\ n.role = m.role /\ Rewrite!Words(n.content) = Rewrite!Words(m.content)
<1> DEFINE n == Rewrite!Retyped(m)
           c == m.content
           typed == IF c \in Rewrite!Scalars THEN Absent
                    ELSE IF c.is = "text" THEN c
                    ELSE Rewrite!Parts([i \in 1 .. Len(c.value) |->
                           Rewrite!Part(c.value[i].type, IF c.value[i].text = Absent THEN Null ELSE c.value[i].text, Absent)])
<1>0. m = [role |-> m.role, content |-> c, extra |-> m.extra] /\ c \in ContentSet
  BY MessageShapes
<1>1. n.role = m.role /\ n.content = typed /\ DOMAIN n = {"role", "content", "extra"}
  <2>1. n = [m EXCEPT !.extra = Absent, !.content = typed]
    BY DEF Rewrite!Retyped
  <2> HIDE DEF n, typed
  <2> QED
    BY <1>0, <2>1
<1> HIDE DEF n
<1>2. typed \in ContentSet /\ typed # Other /\ Rewrite!Words(typed) = Rewrite!Words(c)
  <2>1. CASE c \in Rewrite!Scalars
    <3>1. typed = Absent /\ Absent \in Rewrite!Scalars /\ Absent # Other
      BY <2>1 DEF Rewrite!Scalars, RewriteConstants
    <3> QED
      BY <2>1, <3>1, ContentShapes DEF ContentSet
  <2>2. CASE c \in {Rewrite!Text(v) : v \in Seq(Vocabulary)}
    <3>1. c \notin Rewrite!Scalars /\ c.is = "text"
      BY <2>2, ContentShapes
    <3>2. typed = c /\ c # Other
      BY <3>1 DEF Rewrite!Scalars
    <3> QED
      BY <1>0, <3>2
  <2>3. CASE c \in {Rewrite!Parts(ps) : ps \in Seq(PartSet)}
    <3>1. PICK ps \in Seq(PartSet) : c = Rewrite!Parts(ps)
      BY <2>3
    <3> DEFINE Kept(p) == Rewrite!Part(p.type, IF p.text = Absent THEN Null ELSE p.text, Absent)
               qs == [i \in 1 .. Len(ps) |-> Kept(ps[i])]
    <3>2. c \notin Rewrite!Scalars /\ c.is = "parts" /\ c.value = ps
      BY <3>1, ContentShapes
    <3>3. typed = Rewrite!Parts(qs)
      BY <3>2
    <3>4. ASSUME NEW p \in PartSet PROVE Kept(p) \in PartSet /\ Rewrite!PartWords(Kept(p)) = Rewrite!PartWords(p)
      <4>1. p.type \in {"text", "image", Absent} /\ p.text \in Rewrite!Scalars \cup Seq(Vocabulary)
        BY PartSays
      <4> DEFINE x == IF p.text = Absent THEN Null ELSE p.text
      <4>2. x \in Rewrite!Scalars \cup Seq(Vocabulary) /\ (x \in Rewrite!Scalars <=> p.text \in Rewrite!Scalars)
        BY <4>1 DEF Rewrite!Scalars
      <4>3. Kept(p) = Rewrite!Part(p.type, x, Absent)
        OBVIOUS
      <4>4. x \notin Rewrite!Scalars => x = p.text
        BY DEF Rewrite!Scalars
      <4> HIDE DEF x, Kept
      <4>5. Kept(p) \in PartSet
        BY <4>1, <4>2, <4>3, PartSays
      <4>6. Kept(p).type = p.type /\ Kept(p).text = x
        BY <4>3 DEF Rewrite!Part
      <4> QED
        BY <4>2, <4>4, <4>5, <4>6 DEF Rewrite!PartWords, Rewrite!IsText
    <3> HIDE DEF Kept
    <3>5. Len(ps) \in Nat /\ \A i \in 1 .. Len(ps) : ps[i] \in PartSet
      OBVIOUS
    <3>6. qs \in Seq(PartSet) /\ Len(qs) = Len(ps) /\ \A i \in 1 .. Len(ps) : qs[i] = Kept(ps[i])
      BY <3>4, <3>5
    <3> HIDE DEF qs
    <3>7. Pieces(qs) = Pieces(ps)
      BY <3>4, <3>5, <3>6 DEF Pieces
    <3>8. Rewrite!Parts(qs) \in ContentSet
      BY <3>6 DEF ContentSet
    <3>9. Rewrite!Parts(qs) # Other
      BY ContentShapes DEF Rewrite!Scalars
    <3> HIDE DEF typed
    <3> QED
      BY <3>1, <3>3, <3>7, <3>8, <3>9, ContentShapes
  <2> QED
    BY <1>0, <2>1, <2>2, <2>3 DEF ContentSet
<1> HIDE DEF typed
<1> QED
  BY <1>1, <1>2 DEF Sayable, n

\* The last user message of a conversation, if there is one.
LEMMA LastUser ==
  ASSUME NEW ms, Len(ms) \in Nat
  PROVE  LET user == Rewrite!SelectLastInSeq(ms, Rewrite!IsUser)
         IN  /\ user # 0 => user \in 1 .. Len(ms)
             /\ user = 0 => \A i \in 1 .. Len(ms) : ~Rewrite!IsUser(ms[i])
<1> DEFINE I == {i \in 1 .. Len(ms) : Rewrite!IsUser(ms[i])}
           user == Rewrite!SelectLastInSeq(ms, Rewrite!IsUser)
<1>1. user = IF I # {} THEN Rewrite!Max(I) ELSE 0
  BY DEF Rewrite!SelectLastInSeq
<1>2. I \in SUBSET (1 .. Len(ms))
  OBVIOUS
<1>3. (\A i \in 1 .. Len(ms) : i \notin I) => \A i \in 1 .. Len(ms) : ~Rewrite!IsUser(ms[i])
  OBVIOUS
<1> HIDE DEF I, user
<1>4. CASE I = {}
  BY <1>1, <1>3, <1>4 DEF user
<1>5. CASE I # {}
  <2>1. user \in 1 .. Len(ms)
    BY <1>1, <1>2, <1>5, LastOf
  <2>2. user # 0
    BY <2>1
  <2> QED
    BY <2>1, <2>2 DEF user
<1> QED
  BY <1>4, <1>5

\* Conversations with the same roles have the same last user message.
LEMMA SameUser ==
  ASSUME NEW s, NEW t, Len(t) = Len(s), \A i \in 1 .. Len(s) : t[i].role = s[i].role
  PROVE  Rewrite!SelectLastInSeq(t, Rewrite!IsUser) = Rewrite!SelectLastInSeq(s, Rewrite!IsUser)
<1> DEFINE I == {i \in 1 .. Len(s) : Rewrite!IsUser(s[i])}
           J == {i \in 1 .. Len(t) : Rewrite!IsUser(t[i])}
<1>1. I = J
  BY DEF Rewrite!IsUser
<1>2. Rewrite!SelectLastInSeq(t, Rewrite!IsUser) = IF J # {} THEN Rewrite!Max(J) ELSE 0
  BY DEF Rewrite!SelectLastInSeq
<1>3. Rewrite!SelectLastInSeq(s, Rewrite!IsUser) = IF I # {} THEN Rewrite!Max(I) ELSE 0
  BY DEF Rewrite!SelectLastInSeq
<1> HIDE DEF I, J
<1> QED
  BY <1>1, <1>2, <1>3

\* A body with a conversation in it, or none.
Conversing(b) == b \in Rewrite!Scalars \/ (Shaped(b) /\ b.messages \in Rewrite!Scalars \cup Seq(MessageSet))

\* The augment backend is only asked about what a user said.
LEMMA AskedHasUser ==
  ASSUME RewriteConstants, NEW b, Conversing(b), Rewrite!extract_user_content_from_json(b) # <<>>
  PROVE  b.messages \in Seq(MessageSet) /\ Rewrite!SelectLastInSeq(b.messages, Rewrite!IsUser) # 0
<1>1. Rewrite!HasMessages(b)
  BY DEF Rewrite!extract_user_content_from_json
<1>2. b.messages \in Seq(MessageSet)
  BY <1>1 DEF Rewrite!HasMessages, Rewrite!IsObject, Conversing
<1> DEFINE ms == b.messages
           s == [i \in 1 .. Len(ms) |-> IF Rewrite!IsUser(ms[i]) THEN Rewrite!Words(ms[i].content) ELSE <<>>]
<1>3. Rewrite!extract_user_content_from_json(b) = Rewrite!FlattenSeq(s)
  BY <1>1 DEF Rewrite!extract_user_content_from_json
<1>4. Len(ms) \in Nat
  BY <1>2
<1>5. ASSUME Rewrite!SelectLastInSeq(ms, Rewrite!IsUser) = 0 PROVE FALSE
  <2>1. \A i \in 1 .. Len(ms) : ~Rewrite!IsUser(ms[i])
    BY <1>4, <1>5, LastUser
  <2>2. \A i \in 1 .. Len(ms) : s[i] = <<>>
    BY <2>1
  <2>3. s \in Seq(Seq(Vocabulary)) /\ Len(s) = Len(ms)
    <3>0. <<>> \in Seq(Vocabulary) /\ DOMAIN s = 1 .. Len(ms) /\ s = [i \in DOMAIN s |-> s[i]]
      OBVIOUS
    <3> HIDE DEF s, ms
    <3>1. s \in [1 .. Len(ms) -> Seq(Vocabulary)]
      BY <2>2, <3>0
    <3> QED
      BY <1>4, <3>1
  <2> HIDE DEF s
  <2>4. \A i \in 1 .. Len(s) : s[i] = <<>>
    BY <2>2, <2>3
  <2>5. Rewrite!FlattenSeq(s) = <<>>
    BY <2>3, <2>4, FlattenSilent
  <2> QED
    BY <1>3, <2>5
<1> QED
  BY <1>2, <1>5

\* The message at k says one word more, and nothing else changes.
Grown(t, s, k) ==
  /\ k \in 1 .. Len(s) /\ Len(t) = Len(s)
  /\ \A i \in 1 .. Len(s) : t[i].role = s[i].role
  /\ Rewrite!Words(t[k].content) = Append(Rewrite!Words(s[k].content), Block)
  /\ \A i \in 1 .. Len(s) : i # k => Rewrite!Words(t[i].content) = Rewrite!Words(s[i].content)

\* What is said when a message has grown.
LEMMA SpokenGrows ==
  ASSUME NEW b, NEW o, Rewrite!HasMessages(b), Rewrite!HasMessages(o), NEW k, Grown(o.messages, b.messages, k)
  PROVE  Rewrite!Spoken(o) = [Rewrite!Spoken(b) EXCEPT ![k].words = Append(Rewrite!Spoken(b)[k].words, Block)]
<1> DEFINE s == b.messages
           t == o.messages
           Saying(m) == [role |-> m.role, words |-> Rewrite!Words(m.content)]
           S == [i \in 1 .. Len(s) |-> Saying(s[i])]
<1>1. Rewrite!Spoken(b) = S
  BY DEF Rewrite!Spoken
<1>2. Rewrite!Spoken(o) = [i \in 1 .. Len(t) |-> Saying(t[i])]
  BY DEF Rewrite!Spoken
<1>3. k \in 1 .. Len(s) /\ Len(t) = Len(s)
  BY DEF Grown
<1>4. Saying(t[k]) = [S[k] EXCEPT !.words = Append(S[k].words, Block)]
  <2>1. S[k] = Saying(s[k])
    BY <1>3
  <2>2. Saying(t[k]) = [role |-> s[k].role, words |-> Append(Rewrite!Words(s[k].content), Block)]
    BY <1>3 DEF Grown
  <2>3. PICK r, w : r = s[k].role /\ w = Rewrite!Words(s[k].content)
    OBVIOUS
  <2>4. S[k] = [role |-> r, words |-> w] /\ Saying(t[k]) = [role |-> r, words |-> Append(w, Block)]
    BY <2>1, <2>2, <2>3
  <2>5. ASSUME NEW e, e = [role |-> r, words |-> w]
        PROVE  [e EXCEPT !.words = Append(e.words, Block)] = [role |-> r, words |-> Append(w, Block)]
    BY ONLY <2>5
  <2> HIDE DEF S, Saying
  <2> QED
    BY <2>4, <2>5
<1>5. \A i \in 1 .. Len(s) : i # k => Saying(t[i]) = S[i]
  BY DEF Grown
<1>6. [S EXCEPT ![k].words = Append(S[k].words, Block)] = [S EXCEPT ![k] = [S[k] EXCEPT !.words = Append(S[k].words, Block)]]
  OBVIOUS
<1>7. DOMAIN S = 1 .. Len(s)
  OBVIOUS
<1> HIDE DEF S, Saying
<1>8. [S EXCEPT ![k] = Saying(t[k])] = [i \in 1 .. Len(s) |-> Saying(t[i])]
  BY <1>3, <1>5, <1>7
<1> QED
  BY <1>1, <1>2, <1>3, <1>4, <1>6, <1>8

\* What the client said, with the block at the end of message k.
Told(b, k) == [Rewrite!Spoken(b) EXCEPT ![k].words = Append(Rewrite!Spoken(b)[k].words, Block)]

\* The same under this name.
LEMMA SpokenIsTold ==
  ASSUME NEW b, NEW o, Rewrite!HasMessages(b), Rewrite!HasMessages(o), NEW k, Grown(o.messages, b.messages, k)
  PROVE  Rewrite!Spoken(o) = Told(b, k)
BY SpokenGrows DEF Told

\* inject_augmentation puts the block there.
LEMMA ChatInjected ==
  ASSUME RewriteConstants, NEW b, Shaped(b), b.messages \in Seq(MessageSet),
         NEW user, user = Rewrite!SelectLastInSeq(b.messages, Rewrite!IsUser), user # 0
  PROVE  /\ Rewrite!inject_augmentation(b) # Absent
         /\ Rewrite!Spoken(Rewrite!inject_augmentation(b)) = Told(b, user)
<1> DEFINE s == b.messages
           m == [i \in 1 .. Len(s) |-> Rewrite!Retyped(s[i])]
           typed == [b EXCEPT !.messages = m, !.stop = IF b.stop = Null THEN Absent ELSE b.stop,
                              !.stream = IF b.stream = Null THEN Absent ELSE b.stream]
           normalized == [typed EXCEPT !.stop = IF typed.stop = "string" THEN "array" ELSE typed.stop]
           v == Rewrite!append_block_to_message(m[user])
           out == Rewrite!inject_augmentation(b)
<1>0. b = [x \in Fields |-> b[x]] /\ DOMAIN b = Fields
  BY TablesAreNoScalars DEF Shaped
<1>1. Len(s) \in Nat /\ user \in 1 .. Len(s) /\ \A i \in 1 .. Len(s) : s[i] \in MessageSet
  <2>1. Len(s) \in Nat /\ \A i \in 1 .. Len(s) : s[i] \in MessageSet
    OBVIOUS
  <2>2. user \in 1 .. Len(s)
    BY <2>1, LastUser
  <2> QED
    BY <2>1, <2>2
<1>2. /\ m \in Seq({m[i] : i \in 1 .. Len(s)}) /\ m # <<>> /\ Len(m) = Len(s) /\ DOMAIN m = 1 .. Len(s)
      /\ \A i \in 1 .. Len(s) : m[i] = Rewrite!Retyped(s[i])
  BY <1>1
<1>3. typed = [x \in Fields |-> typed[x]] /\ typed.messages = m
  BY <1>0 DEF Fields
<1>4. out = Rewrite!inject_augmentation_value(typed)
  BY DEF Rewrite!inject_augmentation
<1> HIDE DEF m
<1>5. m \notin Rewrite!Scalars
  BY <1>2, TablesAreNoScalars
<1>6. Enlarged(normalized) /\ normalized.messages = m
  BY <1>2, <1>3, <1>5 DEF Enlarged, Shaped, Speaking, Fields
<1>7. \A i \in 1 .. Len(s) : /\ Sayable(m[i]) /\ m[i].content # Other /\ m[i].role = s[i].role
                             /\ Rewrite!Words(m[i].content) = Rewrite!Words(s[i].content)
  BY <1>1, <1>2, RetypedSays
<1>8. Rewrite!SelectLastInSeq(m, Rewrite!IsUser) = user
  BY <1>2, <1>7, SameUser
<1>9. Rewrite!HasMessages(typed)
  <2>1. Shaped(typed)
    BY <1>2, <1>3 DEF Shaped
  <2> QED
    BY <1>3, <1>5, <2>1, TablesAreNoScalars DEF Rewrite!HasMessages, Rewrite!IsObject
<1>10. out = [normalized EXCEPT !.messages[user] = v]
  <2>1. typed.messages = m /\ m[user].content # Other
    BY <1>1, <1>3, <1>7
  <2> HIDE DEF v, typed, out
  <2>2. out = [normalized EXCEPT !.messages[user] = Rewrite!append_block_to_message(normalized.messages[user])]
    BY <1>4, <1>8, <1>9, <2>1 DEF Rewrite!inject_augmentation_value
  <2> QED
    BY <1>6, <2>2 DEF v
<1>11. v.role = s[user].role /\ Rewrite!Words(v.content) = Append(Rewrite!Words(s[user].content), Block)
  <2>1. v.role = m[user].role /\ Rewrite!Words(v.content) = Append(Rewrite!Words(m[user].content), Block)
    BY <1>1, <1>7, BlockAppended
  <2> QED
    BY <1>1, <1>7, <2>1
<1> HIDE DEF normalized, typed, v, out
<1>12. Enlarged(out) /\ out.messages = [m EXCEPT ![user] = v]
  <2>1. Enlarged(out)
    BY <1>6, <1>10, MessageReplaced
  <2>2. DOMAIN normalized = Fields
    BY <1>6, TablesAreNoScalars DEF Enlarged
  <2>3. out = [normalized EXCEPT !.messages = [m EXCEPT ![user] = v]]
    BY <1>6, <1>10
  <2> QED
    BY <2>1, <2>2, <2>3 DEF Fields
<1>13. Grown(out.messages, s, user)
  <2> DEFINE t == [m EXCEPT ![user] = v]
  <2>1. DOMAIN t = 1 .. Len(s) /\ t[user] = v /\ \A i \in 1 .. Len(s) : i # user => t[i] = m[i]
    BY <1>1, <1>2
  <2> HIDE DEF t
  <2>2. Len(t) = Len(s)
    BY <1>1, <2>1
  <2>3. Grown(t, s, user)
    <3>1. \A i \in 1 .. Len(s) : t[i].role = s[i].role
      BY <1>7, <1>11, <2>1
    <3>2. \A i \in 1 .. Len(s) : i # user => Rewrite!Words(t[i].content) = Rewrite!Words(s[i].content)
      BY <1>7, <2>1
    <3> QED
      BY <1>1, <1>11, <2>1, <2>2, <3>1, <3>2 DEF Grown
  <2> QED
    BY <1>12, <2>3 DEF t
<1>14. Rewrite!HasMessages(b) /\ Rewrite!HasMessages(out)
  BY <1>12, TablesAreNoScalars DEF Enlarged, Speaking, Rewrite!HasMessages, Rewrite!IsObject
<1>15. out # Absent
  BY <1>14 DEF Rewrite!HasMessages, Rewrite!IsObject, Rewrite!Scalars
<1> HIDE DEF s
<1>16. Grown(out.messages, b.messages, user)
  BY <1>13 DEF s
<1> HIDE DEF out
<1>17. Rewrite!Spoken(out) = Told(b, user)
  BY <1>14, <1>16, SpokenIsTold
<1> QED
  BY <1>15, <1>17 DEF out

\* So does inject_into_anthropic.
LEMMA AnthropicInjected ==
  ASSUME RewriteConstants, NEW b, Shaped(b), b.messages \in Seq(MessageSet), Rewrite!IsAnthropicMessageRequest(b),
         NEW user, user = Rewrite!SelectLastInSeq(b.messages, Rewrite!IsUser), user # 0
  PROVE  Rewrite!Spoken(Rewrite!inject_into_anthropic(b)) = Told(b, user)
<1> DEFINE s == b.messages
           m == [i \in 1 .. Len(s) |-> Rewrite!Stripped(s[i])]
           typed == [b EXCEPT !.messages = m, !.stream = IF b.stream = Absent THEN Null ELSE b.stream,
                              !.model = IF b.model = Absent THEN Null ELSE b.model,
                              !.system = IF b.system = Absent THEN Null ELSE b.system]
           block == Rewrite!Part("text", <<Block>>, Absent)
           out == Rewrite!inject_into_anthropic(b)
<1>0. b = [x \in Fields |-> b[x]] /\ DOMAIN b = Fields
  BY TablesAreNoScalars DEF Shaped
<1>1. Len(s) \in Nat /\ user \in 1 .. Len(s) /\ \A i \in 1 .. Len(s) : s[i] \in MessageSet
  <2>1. Len(s) \in Nat /\ \A i \in 1 .. Len(s) : s[i] \in MessageSet
    OBVIOUS
  <2>2. user \in 1 .. Len(s)
    BY <2>1, LastUser
  <2> QED
    BY <2>1, <2>2
<1>2. /\ m \in Seq({m[i] : i \in 1 .. Len(s)}) /\ m # <<>> /\ Len(m) = Len(s) /\ DOMAIN m = 1 .. Len(s)
      /\ \A i \in 1 .. Len(s) : m[i] = Rewrite!Stripped(s[i])
  BY <1>1
<1>3. typed = [x \in Fields |-> typed[x]] /\ typed.messages = m
  BY <1>0 DEF Fields
<1> HIDE DEF m
<1>4. out = [typed EXCEPT !.messages[user].content.value = Append(typed.messages[user].content.value, block)]
  BY DEF Rewrite!inject_into_anthropic, m
<1>5. m \notin Rewrite!Scalars
  BY <1>2, TablesAreNoScalars
<1> HIDE DEF typed, block, out
<1>6. Enlarged(typed)
  BY <1>2, <1>3, <1>5 DEF Enlarged, Shaped, Speaking
<1>7. \A i \in 1 .. Len(s) : m[i].role = s[i].role /\ m[i].content = s[i].content /\ DOMAIN m[i] = {"role", "content", "extra"}
  <2>1. ASSUME NEW x \in MessageSet
        PROVE  LET y == Rewrite!Stripped(x) IN y.role = x.role /\ y.content = x.content /\ DOMAIN y = {"role", "content", "extra"}
    <3>1. x = [role |-> x.role, content |-> x.content, extra |-> x.extra]
      BY MessageShapes
    <3> QED
      BY <3>1 DEF Rewrite!Stripped
  <2> QED
    BY <1>1, <1>2, <2>1
<1>8. PICK ps \in Seq(PartSet) : s[user].content = Rewrite!Parts(ps)
  <2>1. s[user] \in Rewrite!Range(s)
    BY <1>1 DEF Rewrite!Range
  <2>2. s[user].content \notin Rewrite!Scalars /\ s[user].content.is = "parts"
    BY <2>1 DEF Rewrite!IsAnthropicMessageRequest
  <2>3. s[user].content \in ContentSet
    BY <1>1, MessageShapes
  <2>4. s[user].content \notin {Rewrite!Text(w) : w \in Seq(Vocabulary)}
    BY <2>2, ContentShapes
  <2> QED
    BY <2>2, <2>3, <2>4 DEF ContentSet
<1> DEFINE more == Append(ps, block)
           v == [m[user] EXCEPT !.content.value = more]
<1>9. m[user].content = [is |-> "parts", value |-> ps] /\ m[user].content.value = ps
  BY <1>1, <1>7, <1>8, ContentShapes
<1>10. out = [typed EXCEPT !.messages[user] = v]
  BY <1>3, <1>4, <1>9
<1>11. v.role = s[user].role /\ Rewrite!Words(v.content) = Append(Rewrite!Words(s[user].content), Block)
  <2>1. v.role = m[user].role /\ v.content = [m[user].content EXCEPT !.value = more]
    BY <1>1, <1>7
  <2>2. [m[user].content EXCEPT !.value = more] = [is |-> "parts", value |-> more]
    <3>1. PICK c : c = m[user].content
      OBVIOUS
    <3>2. c = [is |-> "parts", value |-> ps]
      BY <1>9, <3>1
    <3> HIDE DEF more
    <3>3. [c EXCEPT !.value = more] = [is |-> "parts", value |-> more]
      BY <3>2
    <3> QED
      BY <3>1, <3>3
  <2>3. v.content = Rewrite!Parts(more)
    BY <2>1, <2>2, ContentShapes
  <2>4. Rewrite!Words(Rewrite!Parts(more)) = Append(Rewrite!Words(Rewrite!Parts(ps)), Block)
    BY PartsAppended DEF block
  <2> HIDE DEF v, more
  <2> QED
    BY <1>1, <1>7, <1>8, <2>1, <2>3, <2>4
<1> HIDE DEF v, more
<1>12. Enlarged(out) /\ out.messages = [m EXCEPT ![user] = v]
  <2>1. Enlarged(out)
    BY <1>6, <1>10, MessageReplaced
  <2>2. DOMAIN typed = Fields
    BY <1>6, TablesAreNoScalars DEF Enlarged
  <2>3. out = [typed EXCEPT !.messages = [m EXCEPT ![user] = v]]
    BY <1>3, <1>10
  <2> QED
    BY <2>1, <2>2, <2>3 DEF Fields
<1>13. Grown(out.messages, s, user)
  <2> DEFINE t == [m EXCEPT ![user] = v]
  <2>1. DOMAIN t = 1 .. Len(s) /\ t[user] = v /\ \A i \in 1 .. Len(s) : i # user => t[i] = m[i]
    BY <1>1, <1>2
  <2> HIDE DEF t
  <2>2. Len(t) = Len(s)
    BY <1>1, <2>1
  <2>3. Grown(t, s, user)
    <3>1. \A i \in 1 .. Len(s) : t[i].role = s[i].role
      BY <1>7, <1>11, <2>1
    <3>2. \A i \in 1 .. Len(s) : i # user => Rewrite!Words(t[i].content) = Rewrite!Words(s[i].content)
      BY <1>7, <2>1
    <3> QED
      BY <1>1, <1>11, <2>1, <2>2, <3>1, <3>2 DEF Grown
  <2> QED
    BY <1>12, <2>3 DEF t
<1>14. Rewrite!HasMessages(b) /\ Rewrite!HasMessages(out)
  BY <1>12, TablesAreNoScalars DEF Enlarged, Speaking, Rewrite!HasMessages, Rewrite!IsObject
<1> HIDE DEF s
<1>15. Grown(out.messages, b.messages, user)
  BY <1>13 DEF s
<1> HIDE DEF out
<1>16. Rewrite!Spoken(out) = Told(b, user)
  BY <1>14, <1>15, SpokenIsTold
<1> QED
  BY <1>16 DEF out

\* The contents a client can send.
LEMMA ContentsAreContents ==
  ASSUME RewriteConstants, NEW c \in Rewrite!Contents
  PROVE  c \in ContentSet
<1>0. <<"a">> \in Seq(Vocabulary) /\ <<"b">> \in Seq(Vocabulary)
  BY DEF Vocabulary
<1>1. CASE c \in {Absent, Null, Other}
  BY <1>1 DEF ContentSet, Rewrite!Scalars
<1>2. CASE c = Rewrite!Text(<<"a">>)
  BY <1>0, <1>2 DEF ContentSet
<1>3. CASE c = Rewrite!Parts(<<>>)
  <2>1. <<>> \in Seq(PartSet)
    OBVIOUS
  <2> QED
    BY <1>3, <2>1 DEF ContentSet
<1>4. ASSUME NEW p \in PartSet, c = Rewrite!Parts(<<Rewrite!Part("text", <<"a">>, "extra"), p>>) PROVE c \in ContentSet
  <2>1. Rewrite!Part("text", <<"a">>, "extra") \in PartSet
    BY <1>0, PartSays
  <2>2. ASSUME NEW q \in PartSet PROVE <<q, p>> \in Seq(PartSet)
    OBVIOUS
  <2> QED
    BY <1>4, <2>1, <2>2 DEF ContentSet
<1>5. CASE c \in {Rewrite!Parts(<<Rewrite!Part("text", <<"a">>, "extra"), p>>) :
             p \in {Rewrite!Part("image", Absent, "extra"), Rewrite!Part("text", Absent, Absent), Rewrite!Part("text", Null, Absent),
                    Rewrite!Part("text", Other, Absent), Rewrite!Part(Absent, <<"b">>, Absent), Rewrite!Part("text", <<"b">>, Absent)}}
  <2>1. PICK p \in {Rewrite!Part("image", Absent, "extra"), Rewrite!Part("text", Absent, Absent), Rewrite!Part("text", Null, Absent),
                    Rewrite!Part("text", Other, Absent), Rewrite!Part(Absent, <<"b">>, Absent), Rewrite!Part("text", <<"b">>, Absent)} :
               c = Rewrite!Parts(<<Rewrite!Part("text", <<"a">>, "extra"), p>>)
    BY <1>5
  <2>2. \A t \in {"text", "image", Absent}, x \in Rewrite!Scalars \cup Seq(Vocabulary), e \in {"extra", Absent} :
          Rewrite!Part(t, x, e) \in PartSet
    BY PartSays
  <2>3. Absent \in Rewrite!Scalars /\ Null \in Rewrite!Scalars /\ Other \in Rewrite!Scalars
    BY DEF Rewrite!Scalars
  <2>4. p \in PartSet
    BY <1>0, <2>1, <2>2, <2>3
  <2> QED
    BY <1>4, <2>1, <2>4
<1> QED
  BY <1>1, <1>2, <1>3, <1>5 DEF Rewrite!Contents

\* The conversations a client can send.
LEMMA ConversationsAreMessages ==
  ASSUME RewriteConstants, NEW c \in Rewrite!Conversations
  PROVE  c \in Rewrite!Scalars \cup Seq(MessageSet)
<1>0. \A r \in {"user", "system", "assistant", Other}, x \in ContentSet, e \in {"extra", Absent} :
        Rewrite!Message(r, x, e) \in MessageSet
  BY DEF MessageSet
<1>1. /\ Rewrite!Text(<<"a">>) \in ContentSet /\ Rewrite!Text(<<"s">>) \in ContentSet /\ Rewrite!Text(<<"t">>) \in ContentSet
      /\ Rewrite!Parts(<<Rewrite!Part("text", <<"b">>, Absent)>>) \in ContentSet
  <2>1. \A x \in {"a", "s", "t", "b"} : <<x>> \in Seq(Vocabulary)
    BY DEF Vocabulary
  <2>2. Rewrite!Part("text", <<"b">>, Absent) \in PartSet
    BY <2>1, PartSays
  <2>3. ASSUME NEW p \in PartSet PROVE <<p>> \in Seq(PartSet)
    OBVIOUS
  <2>4. <<Rewrite!Part("text", <<"b">>, Absent)>> \in Seq(PartSet)
    BY <2>2, <2>3
  <2> QED
    BY <2>1, <2>4 DEF ContentSet
<1>2. CASE c \in {Absent, Other}
  BY <1>2 DEF Rewrite!Scalars
<1>3. CASE c = <<>>
  BY <1>3
<1>4. CASE c \in {Rewrite!Single(role, content) : role \in {"user", "system", Other}, content \in Rewrite!Contents}
  <2>1. PICK role \in {"user", "system", Other}, content \in Rewrite!Contents : c = Rewrite!Single(role, content)
    BY <1>4
  <2>2. PICK m \in MessageSet : m = Rewrite!Message(role, content, "extra")
    BY <1>0, ContentsAreContents
  <2>3. c = <<m>>
    BY <2>1, <2>2 DEF Rewrite!Single
  <2> QED
    BY <2>3
<1>5. CASE c \in {Rewrite!Turns(content) : content \in Rewrite!Contents}
  <2>1. PICK content \in Rewrite!Contents : c = Rewrite!Turns(content)
    BY <1>5
  <2>2. PICK x \in MessageSet : x = Rewrite!Message("system", Rewrite!Text(<<"s">>), Absent)
    BY <1>0, <1>1
  <2>3. PICK y \in MessageSet : y = Rewrite!Message("user", content, Absent)
    BY <1>0, ContentsAreContents
  <2>4. PICK z \in MessageSet : z = Rewrite!Message("assistant", Rewrite!Text(<<"t">>), Absent)
    BY <1>0, <1>1
  <2>5. c = <<x, y, z>>
    BY <2>1, <2>2, <2>3, <2>4 DEF Rewrite!Turns
  <2> QED
    BY <2>5
<1>6. CASE c = <<Rewrite!Message("user", Rewrite!Text(<<"a">>), Absent),
                 Rewrite!Message("user", Rewrite!Parts(<<Rewrite!Part("text", <<"b">>, Absent)>>), Absent)>>
  <2>1. PICK x \in MessageSet, y \in MessageSet :
               /\ x = Rewrite!Message("user", Rewrite!Text(<<"a">>), Absent)
               /\ y = Rewrite!Message("user", Rewrite!Parts(<<Rewrite!Part("text", <<"b">>, Absent)>>), Absent)
    BY <1>0, <1>1
  <2>2. c = <<x, y>>
    BY <1>6, <2>1
  <2> QED
    BY <2>2
<1> QED
  BY <1>2, <1>3, <1>4, <1>5, <1>6 DEF Rewrite!Conversations

\* The bodies a client can send.
LEMMA BodiesConverse ==
  ASSUME RewriteConstants, NEW b \in Rewrite!Bodies
  PROVE  Conversing(b)
<1>0. ASSUME NEW c \in Rewrite!Conversations, NEW model, NEW stop, NEW system, NEW stream, NEW options,
             b = Rewrite!Body(c, model, stop, system, stream, options)
      PROVE  b.messages \in Rewrite!Scalars \cup Seq(MessageSet)
  <2>1. b.messages = c
    BY <1>0 DEF Rewrite!Body, Rewrite!NoBody
  <2> QED
    BY <2>1, ConversationsAreMessages
<1>2. CASE b \in {Absent, Null, Other}
  BY <1>2 DEF Conversing, Rewrite!Scalars
<1>3. CASE b \in {Rewrite!Body(c, "model", stop, system, stream, Absent) :
          c \in Rewrite!Conversations, stop \in {Absent, "string"}, system \in {Absent, Other}, stream \in Rewrite!Asking}
  <2>1. PICK c \in Rewrite!Conversations, stop \in {Absent, "string"}, system \in {Absent, Other}, stream \in Rewrite!Asking :
              b = Rewrite!Body(c, "model", stop, system, stream, Absent)
    BY <1>3
  <2> QED
    BY <1>0, <2>1, BodiesAreShaped DEF Conversing
<1>4. CASE b \in {Rewrite!Body(c, model, Absent, Absent, stream, options) :
          c \in {Absent, Rewrite!Single("user", Rewrite!Text(<<"a">>))}, model \in {Absent, Null, Other, "model"},
          stream \in Rewrite!StreamFlags, options \in Rewrite!StreamOptions}
  <2>1. PICK c \in {Absent, Rewrite!Single("user", Rewrite!Text(<<"a">>))}, model \in {Absent, Null, Other, "model"},
             stream \in Rewrite!StreamFlags, options \in Rewrite!StreamOptions :
             b = Rewrite!Body(c, model, Absent, Absent, stream, options)
    BY <1>4
  <2>2. Rewrite!Text(<<"a">>) \in Rewrite!Contents
    BY DEF Rewrite!Contents
  <2>3. c \in Rewrite!Conversations
    BY <2>1, <2>2 DEF Rewrite!Conversations
  <2> QED
    BY <1>0, <2>1, <2>3, BodiesAreShaped DEF Conversing
<1> QED
  BY <1>2, <1>3, <1>4 DEF Rewrite!Bodies

\* The overrides leave the conversation alone.
LEMMA OverridesKeepSpeech ==
  ASSUME RewriteConstants, NEW b, b = Null \/ Shaped(b), NEW keep \in BOOLEAN
  PROVE  Rewrite!Spoken(Rewrite!Overridden(b, keep)) = Rewrite!Spoken(b)
<1> DEFINE object == IF b = Null THEN Rewrite!NoBody ELSE b
           w == Rewrite!WithStream(object, keep)
           o == Rewrite!Overridden(b, keep)
<1>0. Shaped(object)
  BY DEF Shaped, Fields, Rewrite!NoBody, Rewrite!Scalars
<1> HIDE DEF object
<1>1. object = [x \in Fields |-> object[x]] /\ DOMAIN object = Fields /\ object \notin Rewrite!Scalars
  BY <1>0, TablesAreNoScalars DEF Shaped
<1>2. DOMAIN w = Fields /\ w = [x \in Fields |-> w[x]] /\ w.messages = object.messages
  BY <1>1 DEF Rewrite!WithStream, Fields
<1>3. o = [w EXCEPT !.model = IF node.model = Absent THEN w.model ELSE node.model,
                    !.temperature = IF node.temperature = Absent THEN w.temperature ELSE node.temperature]
  BY DEF Rewrite!Overridden, object
<1> HIDE DEF w, o
<1>4. o = [x \in Fields |-> o[x]] /\ o.messages = object.messages
  BY <1>2, <1>3 DEF Fields
<1>5. o \notin Rewrite!Scalars
  BY <1>4 DEF RewriteConstants
<1>6. Rewrite!Spoken(o) = Rewrite!Spoken(object)
  BY <1>1, <1>4, <1>5 DEF Rewrite!Spoken, Rewrite!HasMessages, Rewrite!IsObject
<1>7. Rewrite!Spoken(object) = Rewrite!Spoken(b)
  <2>1. CASE b = Null
    <3>1. object.messages = Absent
      BY <2>1 DEF object, Rewrite!NoBody
    <3> QED
      BY <2>1, <3>1 DEF Rewrite!Spoken, Rewrite!HasMessages, Rewrite!IsObject, Rewrite!Scalars
  <2>2. CASE b # Null
    BY <2>2 DEF object
  <2> QED
    BY <2>1, <2>2
<1> QED
  BY <1>6, <1>7 DEF o

\* What the backend should hear.
ShouldHear ==
  LET typed == IF mode.anthropic THEN Rewrite!IsAnthropicMessageRequest(body) ELSE Rewrite!IsChatCompletionRequest(body)
  IN  IF augmentation # Absent /\ typed
      THEN Told(body, Rewrite!SelectLastInSeq(body.messages, Rewrite!IsUser)) ELSE Rewrite!Spoken(body)

\* There is a message the block can go to.
Addressed(b) == b.messages \in Seq(MessageSet) /\ Rewrite!SelectLastInSeq(b.messages, Rewrite!IsUser) # 0

\* The inductive invariant: the augment backend was asked because a user said something, and
\* from the injection on the backend hears what it should.
SpeechInv ==
  /\ RewriteInv /\ Conversing(body)
  /\ (step = "asked" \/ augmentation # Absent) => Addressed(body)
  /\ step \in {"injected", "sent"} => Rewrite!Spoken(outgoing) = ShouldHear

\* What is heard is the property's conversation.
LEMMA HeardIsPreserved ==
  ASSUME SpeechInv
  PROVE  Rewrite!ConversationPreserved
BY DEF SpeechInv, ShouldHear, Told, Rewrite!ConversationPreserved

\* Asking, and the augment backend's answer.
LEMMA AskingSpeech ==
  ASSUME RewriteConstants, SpeechInv,
         Rewrite!Ask \/ (\E reply \in Rewrite!AugmentReplies : Rewrite!AugmentAnswers(reply))
  PROVE  SpeechInv'
<1>0. RewriteInv'
  BY InjectionStep DEF SpeechInv
<1>1. CASE Rewrite!Ask
  <2>1. step = "arrived" /\ step' \in {"asked", "augmented"} /\ UNCHANGED <<node, mode, body, augmentation, outgoing, expected>>
    BY <1>1 DEF Rewrite!Ask
  <2>2. step' = "asked" => Addressed(body)
    BY <1>1, AskedHasUser DEF Rewrite!Ask, SpeechInv, Addressed
  <2>3. Conversing(body)' = Conversing(body) /\ Addressed(body)' = Addressed(body)
    BY <2>1
  <2> QED
    BY <1>0, <2>1, <2>2, <2>3 DEF SpeechInv
<1>2. CASE \E reply \in Rewrite!AugmentReplies : Rewrite!AugmentAnswers(reply)
  <2>1. step = "asked" /\ step' \in {"refused", "augmented"} /\ UNCHANGED <<node, mode, body, outgoing, expected>>
    BY <1>2 DEF Rewrite!AugmentAnswers
  <2>3. Conversing(body)' = Conversing(body) /\ Addressed(body)' = Addressed(body)
    BY <2>1
  <2> QED
    BY <1>0, <2>1, <2>3 DEF SpeechInv
<1> QED
  BY <1>1, <1>2

\* The injection.
LEMMA InjectSpeech ==
  ASSUME RewriteConstants, SpeechInv, Rewrite!Inject
  PROVE  SpeechInv'
<1>0. RewriteInv'
  BY InjectionStep DEF SpeechInv
<1>1. /\ step = "augmented" /\ step' = "injected" /\ outgoing' = Rewrite!Enriched
      /\ UNCHANGED <<node, mode, body, augmentation, expected>>
  BY DEF Rewrite!Inject
<1>2. Rewrite!Spoken(Rewrite!Enriched) = ShouldHear
  <2> DEFINE user == Rewrite!SelectLastInSeq(body.messages, Rewrite!IsUser)
  <2>1. CASE augmentation = Absent
    BY <2>1 DEF Rewrite!Enriched, ShouldHear
  <2>2. CASE augmentation # Absent
    <3>1. Shaped(body) /\ body.messages \in Seq(MessageSet) /\ user # 0
      BY <2>2 DEF SpeechInv, RewriteInv, Enlarged, Addressed
    <3>2. CASE mode.anthropic /\ Rewrite!IsAnthropicMessageRequest(body)
      <4>1. Rewrite!Spoken(Rewrite!inject_into_anthropic(body)) = Told(body, user)
        BY <3>1, <3>2, AnthropicInjected
      <4> QED
        BY <2>2, <3>2, <4>1 DEF Rewrite!Enriched, ShouldHear
    <3>3. CASE mode.anthropic /\ ~Rewrite!IsAnthropicMessageRequest(body)
      BY <2>2, <3>3 DEF Rewrite!Enriched, ShouldHear
    <3>4. CASE ~mode.anthropic /\ Rewrite!IsChatCompletionRequest(body)
      <4>1. /\ Rewrite!inject_augmentation(body) # Absent
            /\ Rewrite!Spoken(Rewrite!inject_augmentation(body)) = Told(body, user)
        BY <3>1, ChatInjected
      <4> QED
        BY <2>2, <3>4, <4>1 DEF Rewrite!Enriched, ShouldHear
    <3>5. CASE ~mode.anthropic /\ ~Rewrite!IsChatCompletionRequest(body)
      BY <2>2, <3>5 DEF Rewrite!Enriched, ShouldHear
    <3> QED
      BY <3>2, <3>3, <3>4, <3>5
  <2> QED
    BY <2>1, <2>2
<1>3. ShouldHear' = ShouldHear
  BY <1>1 DEF ShouldHear
<1>4. Conversing(body)' = Conversing(body) /\ Addressed(body)' = Addressed(body)
  BY <1>1
<1>5. Rewrite!Spoken(outgoing)' = Rewrite!Spoken(Rewrite!Enriched)
  BY <1>1 DEF Rewrite!Spoken, Rewrite!HasMessages, Rewrite!IsObject
<1> QED
  BY <1>0, <1>1, <1>2, <1>3, <1>4, <1>5 DEF SpeechInv

\* apply_backend_overrides_bytes.
LEMMA OverridesSpeech ==
  ASSUME RewriteConstants, SpeechInv, Rewrite!apply_backend_overrides_bytes
  PROVE  SpeechInv'
<1>0. RewriteInv'
  BY OverridesStep DEF SpeechInv
<1>1. /\ step = "injected" /\ step' \in {"sent", "panicked"}
      /\ UNCHANGED <<node, mode, body, augmentation>>
  BY DEF Rewrite!apply_backend_overrides_bytes
<1>2. ShouldHear' = ShouldHear
  BY <1>1 DEF ShouldHear
<1>3. Conversing(body)' = Conversing(body) /\ Addressed(body)' = Addressed(body)
  BY <1>1
<1>4. step' = "sent" => Rewrite!Spoken(outgoing)' = Rewrite!Spoken(outgoing)
  <2>1. CASE outgoing' = outgoing
    BY <2>1 DEF Rewrite!Spoken, Rewrite!HasMessages, Rewrite!IsObject
  <2>2. CASE outgoing' # outgoing
    <3> DEFINE keep == Rewrite!AllowStream /\ outgoing # Null /\ outgoing.stream = TRUE
    <3>1. outgoing \notin {Absent, Other} /\ outgoing' = Rewrite!Overridden(outgoing, keep) /\ keep \in BOOLEAN
      BY <2>2 DEF Rewrite!apply_backend_overrides_bytes
    <3>2. outgoing = Null \/ Shaped(outgoing)
      BY <1>1, <3>1 DEF SpeechInv, RewriteInv, Enlarged, Rewrite!Scalars
    <3> HIDE DEF keep
    <3>3. PICK w : w = Rewrite!Overridden(outgoing, keep)
      OBVIOUS
    <3>4. Rewrite!Spoken(w) = Rewrite!Spoken(outgoing)
      BY <3>1, <3>2, <3>3, OverridesKeepSpeech
    <3>5. Rewrite!Spoken(outgoing)' = Rewrite!Spoken(w)
      BY <3>1, <3>3 DEF Rewrite!Spoken, Rewrite!HasMessages, Rewrite!IsObject
    <3> QED
      BY <3>4, <3>5
  <2> QED
    BY <2>1, <2>2
<1> QED
  BY <1>0, <1>1, <1>2, <1>3, <1>4 DEF SpeechInv

\* augment.rs, "the block is never dropped": for every conversation, mode and node the
\* conversation the backend receives is the client's, word for word, and the augmentation is in it
\* exactly once, at the end of the last user message, when there is one and the body is typed.
THEOREM ConversationsArePreserved ==
  ASSUME RewriteConstants
  PROVE  Spec => []ConversationPreserved
<1> DEFINE Inv == part = "rewrite" => SpeechInv
<1>1. Init => Inv
  <2> SUFFICES ASSUME Init, part = "rewrite" PROVE SpeechInv
    OBVIOUS
  <2>1. Rewrite!Init
    BY DEF Init
  <2>2. (body \in Rewrite!Scalars \/ Shaped(body)) /\ Conversing(body)
    BY <2>1, BodiesAreShaped, BodiesConverse DEF Rewrite!Init
  <2>3. RewriteInv
    BY <2>1, <2>2 DEF Rewrite!Init, RewriteInv, Rewrite!StreamAsAsked
  <2> QED
    BY <2>1, <2>2, <2>3 DEF Rewrite!Init, SpeechInv
<1>2. Inv /\ [Next]_vars => Inv'
  <2> SUFFICES ASSUME Inv, [Next]_vars, part' = "rewrite" PROVE SpeechInv'
    OBVIOUS
  <2>0. part = "rewrite" /\ SpeechInv
    BY DEF Next, vars
  <2>1. CASE Rewrite!Next
    BY <2>0, <2>1, AskingSpeech, InjectSpeech, OverridesSpeech DEF Rewrite!Next
  <2>2. CASE UNCHANGED rewriteVars
    <3>1. UNCHANGED <<step, node, mode, body, augmentation, outgoing, expected>>
      BY <2>2 DEF rewriteVars
    <3>2. Rewrite!StreamAsAsked' = Rewrite!StreamAsAsked
      BY <3>1 DEF Rewrite!StreamAsAsked, Rewrite!looks_like_completion_request
    <3>3. Enlarged(body)' = Enlarged(body) /\ Shaped(body)' = Shaped(body) /\ Enlarged(outgoing)' = Enlarged(outgoing)
      BY <3>1
    <3>4. RewriteInv'
      BY <2>0, <3>1, <3>2, <3>3 DEF RewriteInv, SpeechInv
    <3>5. Conversing(body)' = Conversing(body) /\ Addressed(body)' = Addressed(body) /\ ShouldHear' = ShouldHear
      BY <3>1 DEF ShouldHear
    <3>6. Rewrite!Spoken(outgoing)' = Rewrite!Spoken(outgoing)
      BY <3>1 DEF Rewrite!Spoken, Rewrite!HasMessages, Rewrite!IsObject
    <3> QED
      BY <2>0, <3>1, <3>4, <3>5, <3>6 DEF SpeechInv
  <2> QED
    BY <2>0, <2>1, <2>2 DEF Next, vars
<1>3. Inv => ConversationPreserved
  BY HeardIsPreserved DEF ConversationPreserved
<1> QED
  BY <1>1, <1>2, <1>3, PTL DEF Spec

---------------------------------------------------------------------------
(* Forwarding.                                                             *)

\* The marker of an absent value is none of the names of codings.
ForwardConstants == Absent \notin {"gzip", "deflate", "br", "compress"} /\ MAX_DECOMPRESSED_BYTES \in Nat

\* What the proxy holds is what arrived, as it was or decoded under the cap.
HeldIsWire ==
  /\ wire \in Forward!Answers
  /\ wire.coding = "none" => wire.sound
  /\ held \in [decoded : BOOLEAN, size : Int, rewritten : BOOLEAN]
  /\ held.decoded =>
       /\ wire.sound /\ held.size = wire.size /\ held.size <= MAX_DECOMPRESSED_BYTES
       /\ wire.content_encoding # Absent

\* The coding is the one the header names.
Understood ==
  \/ wire.content_encoding = "gzip" /\ wire.coding = "gzip"
  \/ wire.content_encoding = "br" /\ wire.coding = "br"
  \/ wire.content_encoding = "deflate" /\ wire.coding \in {"zlib", "raw"}

\* The body that is about to be forwarded: a named coding is still on it, or gone.
DecodedAsNamed ==
  path # "streaming" =>
    /\ wire.content_encoding \in {"gzip", "br", "deflate"} => held.decoded
    /\ Understood /\ wire.sound => wire.size <= MAX_DECOMPRESSED_BYTES

\* An error in place of the body.
Refused ==
  /\ response.body # "forwarded"
  /\ ~held.decoded
  /\ path # "streaming"
  /\ Understood /\ wire.sound => wire.size > MAX_DECOMPRESSED_BYTES /\ response.status = 413

\* The body and the headers that are still true of it.
Forwarded ==
  /\ DecodedAsNamed
  /\ response.status = 200
  /\ "content-encoding" \in response.headers <=> wire.content_encoding # Absent /\ ~held.decoded
  /\ path = "streaming" => ~held.decoded

BodyInv ==
  /\ hop \in {"reading", "asking", "decoding", "rewriting", "answered"}
  /\ hop \in {"reading", "asking"} => wire = Absent
  /\ hop = "decoding" => HeldIsWire /\ ~held.decoded /\ path # "streaming"
  /\ hop = "rewriting" => HeldIsWire /\ DecodedAsNamed /\ (path = "streaming" => ~held.decoded)
  /\ hop = "answered" /\ wire # Absent => HeldIsWire /\ (Refused \/ Forwarded)

\* The dump: what is written and what is still to be written are the files of the answer.
DumpInv ==
  /\ hop # "answered" => writing = {} /\ dump \in {Absent, {}}
  /\ dump # Absent /\ hop = "answered" =>
       \/ writing = {} /\ dump = {}
       \/ /\ writing \cup (dump \ {"meta"}) = Forward!Files(held) /\ Forward!Files(held) # {}
          /\ "meta" \notin writing
          /\ "meta" \in dump => writing = {}

ForwardInv == BodyInv /\ DumpInv

---------------------------------------------------------------------------
\* A request whose body is still being read satisfies the invariant.
LEMMA ForwardInitially ==
  ASSUME Forward!Init
  PROVE  ForwardInv
BY DEF Forward!Init, ForwardInv, BodyInv, DumpInv

\* decode_body_bytes: what each outcome says about the answer it was given.
LEMMA DecodeOutcomes ==
  ASSUME ForwardConstants, wire \in Forward!Answers, NEW outcome \in Forward!decode_body_bytes(wire)
  PROVE  /\ outcome \in {Forward!TooLarge, Forward!Corrupt, Forward!Passthrough} \cup {Forward!Decoded(wire.size)}
         /\ outcome = Forward!Passthrough <=> wire.content_encoding \in {Absent, "compress"}
         /\ outcome = Forward!Decoded(wire.size) =>
              /\ wire.sound /\ wire.size <= MAX_DECOMPRESSED_BYTES
              /\ wire.content_encoding # Absent
         /\ Understood /\ wire.sound =>
              outcome = IF wire.size > MAX_DECOMPRESSED_BYTES THEN Forward!TooLarge ELSE Forward!Decoded(wire.size)
<1> DEFINE limit == MAX_DECOMPRESSED_BYTES + 1
           with(coding) == {Forward!Outcome(read) : read \in Forward!Reads(wire, coding, limit)}
<1>1. /\ wire.size \in Int /\ wire.sound \in BOOLEAN
      /\ wire.coding \in {"none", "gzip", "zlib", "raw", "br"}
      /\ wire.content_encoding \in {Absent, "gzip", "deflate", "br", "compress"}
  BY DEF Forward!Answers
<1>2. ASSUME NEW coding, NEW o \in with(coding)
      PROVE  /\ o \in {Forward!TooLarge, Forward!Corrupt, Forward!Decoded(wire.size)}
             /\ o = Forward!Decoded(wire.size) =>
                  wire.coding = coding /\ wire.sound /\ wire.size <= MAX_DECOMPRESSED_BYTES
             /\ wire.coding # coding => o = Forward!Corrupt
             /\ wire.coding = coding /\ wire.sound =>
                  o = IF wire.size > MAX_DECOMPRESSED_BYTES THEN Forward!TooLarge ELSE Forward!Decoded(wire.size)
  <2>1. PICK read \in Forward!Reads(wire, coding, limit) : o = Forward!Outcome(read)
    BY <1>2
  <2>2. CASE wire.coding # coding
    BY <2>1, <2>2 DEF Forward!Reads, Forward!Outcome, Forward!Corrupt, Forward!TooLarge, Forward!Decoded,
       ForwardConstants
  <2>3. CASE wire.coding = coding /\ wire.size > limit
    BY <1>1, <2>1, <2>3 DEF Forward!Reads, Forward!Outcome, Forward!decoded_within_cap, Forward!Corrupt,
       Forward!TooLarge, Forward!Decoded, ForwardConstants
  <2>4. CASE wire.coding = coding /\ ~(wire.size > limit)
    BY <1>1, <2>1, <2>4 DEF Forward!Reads, Forward!Outcome, Forward!decoded_within_cap, Forward!Corrupt,
       Forward!TooLarge, Forward!Decoded, ForwardConstants
  <2> QED
    BY <2>2, <2>3, <2>4
<1>3. /\ Forward!Passthrough \notin {Forward!TooLarge, Forward!Corrupt, Forward!Decoded(wire.size)}
      /\ Forward!Corrupt \notin {Forward!TooLarge, Forward!Decoded(wire.size)}
      /\ Forward!TooLarge # Forward!Decoded(wire.size)
  BY DEF Forward!Passthrough, Forward!Decoded, Forward!Corrupt, Forward!TooLarge
<1>4. Absent \notin {"gzip", "deflate", "br"}
  BY DEF ForwardConstants
<1>5. CASE wire.content_encoding \in {Absent, "compress"}
  <2>1. outcome = Forward!Passthrough
    BY <1>4, <1>5 DEF Forward!decode_body_bytes
  <2> QED
    BY <1>3, <1>4, <1>5, <2>1 DEF Understood
<1>6. CASE wire.content_encoding = "deflate"
  <2>1. \/ outcome \in with("zlib") /\ outcome # Forward!Corrupt
        \/ outcome \in with("raw") /\ Forward!Corrupt \in with("zlib")
    BY <1>6 DEF Forward!decode_body_bytes, ForwardConstants
  <2> HIDE DEF with
  <2>2. Forward!Corrupt \in with("zlib") /\ wire.sound => wire.coding # "zlib"
    BY <1>2, <1>3
  <2> QED
    BY <1>1, <1>2, <1>3, <1>4, <1>6, <2>1, <2>2 DEF Understood
<1>7. ASSUME NEW coding \in {"gzip", "br"}, wire.content_encoding = coding
      PROVE  outcome \in with(coding)
  BY <1>4, <1>7 DEF Forward!decode_body_bytes
<1>8. CASE wire.content_encoding \in {"gzip", "br"}
  <2> HIDE DEF with
  <2> QED
    BY <1>1, <1>2, <1>3, <1>4, <1>7, <1>8 DEF Understood
<1> QED
  BY <1>1, <1>5, <1>6, <1>8

\* The request is read, the backend fails, or its answer arrives.
LEMMA ArrivalStep ==
  ASSUME ForwardConstants, ForwardInv, Forward!ReadRequest \/ Forward!BackendFails \/ Forward!AnswerArrives
  PROVE  ForwardInv'
<1>1. CASE Forward!ReadRequest \/ Forward!BackendFails
  <2>1. BodyInv'
    BY <1>1 DEF Forward!ReadRequest, Forward!BackendFails, ForwardInv, BodyInv
  <2>2. DumpInv'
    BY <1>1 DEF Forward!ReadRequest, Forward!BackendFails, ForwardInv, DumpInv
  <2> QED
    BY <2>1, <2>2 DEF ForwardInv
<1>2. CASE Forward!AnswerArrives
  <2>1. wire' \in Forward!Answers /\ (wire'.coding = "none" => wire'.sound)
    BY <1>2 DEF Forward!AnswerArrives
  <2>2. wire'.size \in Int
    BY <2>1 DEF Forward!Answers
  <2>3. HeldIsWire' /\ ~held'.decoded
    BY <1>2, <2>1, <2>2 DEF Forward!AnswerArrives, HeldIsWire, Forward!Answers
  <2>4. BodyInv'
    BY <1>2, <2>3 DEF Forward!AnswerArrives, BodyInv, DecodedAsNamed
  <2>5. DumpInv'
    BY <1>2 DEF Forward!AnswerArrives, ForwardInv, DumpInv
  <2> QED
    BY <2>4, <2>5 DEF ForwardInv
<1> QED
  BY <1>1, <1>2

\* Decoding under the cap, or the refusal in its place.
LEMMA DecompressStep ==
  ASSUME ForwardConstants, ForwardInv, Forward!DecompressBody
  PROVE  ForwardInv'
<1>1. /\ hop = "decoding" /\ HeldIsWire /\ ~held.decoded /\ path # "streaming"
      /\ UNCHANGED <<path, uploaded, wire, dump, writing, bad_write>>
  BY DEF Forward!DecompressBody, ForwardInv, BodyInv
<1>2. PICK outcome \in Forward!decode_body_bytes(wire) :
        IF outcome \in {Forward!TooLarge, Forward!Corrupt}
        THEN /\ response' = Forward!decompress_error_response(outcome)
             /\ hop' = "answered"
             /\ UNCHANGED held
        ELSE /\ held' = IF outcome = Forward!Passthrough THEN held
                        ELSE [held EXCEPT !.decoded = TRUE, !.size = outcome.len]
             /\ hop' = "rewriting"
             /\ UNCHANGED response
  BY DEF Forward!DecompressBody
<1> DEFINE whole == Forward!Decoded(wire.size)
<1>3. /\ outcome \in {Forward!TooLarge, Forward!Corrupt, Forward!Passthrough, whole}
      /\ outcome = Forward!Passthrough <=> wire.content_encoding \in {Absent, "compress"}
      /\ outcome = whole => /\ wire.sound /\ wire.size <= MAX_DECOMPRESSED_BYTES
                            /\ wire.content_encoding # Absent
      /\ Understood /\ wire.sound =>
           outcome = IF wire.size > MAX_DECOMPRESSED_BYTES THEN Forward!TooLarge ELSE whole
  BY <1>1, DecodeOutcomes DEF HeldIsWire
<1>4. /\ Forward!Passthrough \notin {Forward!TooLarge, Forward!Corrupt, whole}
      /\ Forward!Corrupt \notin {Forward!TooLarge, whole}
      /\ Forward!TooLarge # whole
  BY DEF Forward!Passthrough, Forward!Decoded, Forward!Corrupt, Forward!TooLarge
<1>5. whole.len = wire.size
  BY DEF Forward!Decoded
<1> HIDE DEF whole
<1>6. wire.size \in Int
  BY <1>1 DEF HeldIsWire, Forward!Answers
<1>7. DumpInv'
  BY <1>1, <1>2 DEF ForwardInv, DumpInv
<1>8. CASE outcome \in {Forward!TooLarge, Forward!Corrupt}
  <2>1. /\ hop' = "answered" /\ held' = held
        /\ response'.body # "forwarded"
        /\ outcome = Forward!TooLarge => response'.status = 413
    BY <1>2, <1>8 DEF Forward!decompress_error_response, Forward!Failed
  <2>2. Understood /\ wire.sound => wire.size > MAX_DECOMPRESSED_BYTES /\ response'.status = 413
    BY <1>3, <1>4, <1>8, <2>1
  <2>4. Refused'
    BY <1>1, <2>1, <2>2 DEF Refused, Understood
  <2>3. HeldIsWire'
    BY <1>1, <2>1 DEF HeldIsWire
  <2> QED
    BY <1>7, <2>1, <2>3, <2>4 DEF ForwardInv, BodyInv
<1>9. CASE outcome = Forward!Passthrough
  <2>1. hop' = "rewriting" /\ held' = held
    BY <1>2, <1>4, <1>9
  <2>2. HeldIsWire' /\ ~held'.decoded
    BY <1>1, <2>1 DEF HeldIsWire
  <2>3. DecodedAsNamed'
    BY <1>1, <1>3, <1>4, <1>9, <2>1 DEF DecodedAsNamed, Understood, ForwardConstants
  <2> QED
    BY <1>7, <2>1, <2>2, <2>3 DEF ForwardInv, BodyInv
<1>10. CASE outcome = whole
  <2>1. hop' = "rewriting" /\ held' = [held EXCEPT !.decoded = TRUE, !.size = wire.size]
    BY <1>2, <1>4, <1>5, <1>10
  <2>2. HeldIsWire' /\ held'.decoded
    BY <1>1, <1>3, <1>6, <1>10, <2>1 DEF HeldIsWire
  <2>3. DecodedAsNamed'
    BY <1>1, <1>3, <1>4, <1>10, <2>1, <2>2 DEF DecodedAsNamed, Understood
  <2> QED
    BY <1>1, <1>7, <2>1, <2>2, <2>3 DEF ForwardInv, BodyInv
<1> QED
  BY <1>3, <1>8, <1>9, <1>10

\* The answer leaves with the headers that are true of its body.
LEMMA RespondStep ==
  ASSUME ForwardConstants, ForwardInv, Forward!Respond
  PROVE  ForwardInv'
<1>1. /\ hop = "rewriting" /\ hop' = "answered" /\ HeldIsWire /\ DecodedAsNamed
      /\ path = "streaming" => ~held.decoded
      /\ UNCHANGED <<path, uploaded, wire, dump, bad_write>>
  BY DEF Forward!Respond, ForwardInv, BodyInv
<1>2. PICK rewritten \in BOOLEAN :
       /\ held' = [held EXCEPT !.rewritten = rewritten]
       /\ response' = IF path = "streaming" THEN Forward!StreamedResponse(wire.status, wire.headers)
                      ELSE Forward!forward_response(wire.status, wire.headers, held.decoded)
       /\ writing' = IF dump # Absent /\ uploaded.json THEN Forward!Files(held)' ELSE {}
  BY DEF Forward!Respond, Forward!Files, Forward!Dumped
<1>3. /\ HeldIsWire' /\ DecodedAsNamed'
      /\ held'.decoded = held.decoded
  BY <1>1, <1>2 DEF HeldIsWire, DecodedAsNamed, Understood
<1>4. /\ wire.status = 200
      /\ "content-encoding" \in wire.headers <=> wire.content_encoding # Absent
  BY <1>1 DEF HeldIsWire, Forward!Answers, Forward!Headers
<1>5. Forwarded'
  BY <1>1, <1>2, <1>3, <1>4 DEF Forwarded, Forward!StreamedResponse, Forward!forward_response,
     Forward!is_hop_by_hop_header
<1>6. BodyInv'
  BY <1>1, <1>3, <1>5 DEF BodyInv
<1>7. DumpInv'
  <2>1. "meta" \notin Forward!Files(held)'
    BY DEF Forward!Files, Forward!Dumped
  <2>2. dump \in {Absent, {}}
    BY <1>1 DEF ForwardInv, DumpInv
  <2> QED
    BY <1>1, <1>2, <2>1, <2>2 DEF DumpInv
<1> QED
  BY <1>6, <1>7 DEF ForwardInv

\* A dump is written file by file, its metadata last.
LEMMA DumpStep ==
  ASSUME ForwardInv, Forward!WriteFile \/ Forward!WriteMeta
  PROVE  ForwardInv'
<1>1. UNCHANGED <<hop, path, uploaded, wire, held, response>> /\ hop = "answered" /\ dump # Absent
  BY DEF Forward!WriteFile, Forward!WriteMeta
<1>2. BodyInv'
  BY <1>1 DEF ForwardInv, BodyInv, HeldIsWire, Refused, Forwarded, DecodedAsNamed, Understood
<1>3. Forward!Files(held)' = Forward!Files(held)
  BY <1>1 DEF Forward!Files, Forward!Dumped
<1>4. DumpInv'
  BY <1>1, <1>3 DEF Forward!WriteFile, Forward!WriteMeta, ForwardInv, DumpInv
<1> QED
  BY <1>2, <1>4 DEF ForwardInv

\* A forwarded body is what its headers say, within the cap, and refused with 413 above it;
\* and the files of a dump that has its metadata are those of the answer that was given.
LEMMA ForwardTruths ==
  ASSUME ForwardConstants, ForwardInv
  PROVE  Forward!BodyMatchesHeaders /\ Forward!DumpsAreComplete
<1>1. Forward!BodyMatchesHeaders
  <2> SUFFICES ASSUME hop = "answered", wire # Absent
               PROVE  Forward!BodyMatchesHeaders
    BY DEF Forward!BodyMatchesHeaders
  <2>1. HeldIsWire /\ (Refused \/ Forwarded)
    BY DEF ForwardInv, BodyInv
  <2>2. wire.size \in Int /\ wire.content_encoding \in {Absent, "gzip", "deflate", "br", "compress"}
    BY <2>1 DEF HeldIsWire, Forward!Answers
  <2>3. CASE Refused
    BY <2>1, <2>2, <2>3 DEF Refused, HeldIsWire, Understood, Forward!BodyMatchesHeaders
  <2>4. CASE Forwarded
    BY <2>1, <2>2, <2>4 DEF Forwarded, DecodedAsNamed, HeldIsWire, Understood, Forward!BodyMatchesHeaders,
       ForwardConstants
  <2> QED
    BY <2>1, <2>3, <2>4
<1>2. Forward!DumpsAreComplete
  <2> SUFFICES ASSUME dump # Absent, "meta" \in dump
               PROVE  Forward!DumpsAreComplete
    BY DEF Forward!DumpsAreComplete
  <2>1. dump \ {"meta"} = Forward!Files(held) /\ Forward!Files(held) # {}
    BY DEF ForwardInv, DumpInv
  <2> QED
    BY <2>1 DEF Forward!DumpsAreComplete, Forward!Files, Forward!Dumped
<1> QED
  BY <1>1, <1>2

\* handler.rs: however a body is coded and whatever its header names, the client gets it
\* with a coding header that is true of it, or the whole document without one; a sound
\* document above the cap is refused with 413 and one at the cap is not; and a dump with
\* its metadata is the whole dump of that answer, wherever a write failed.
THEOREM AnswersAreForwarded ==
  ASSUME ForwardConstants
  PROVE  Spec => []ForwardsFaithfully
<1> DEFINE Inv == part = "forward" => ForwardInv
<1>1. Init => Inv
  BY ForwardInitially DEF Init
<1>2. Inv /\ [Next]_vars => Inv'
  <2> SUFFICES ASSUME part = "forward", ForwardInv, [Next]_vars
               PROVE  ForwardInv'
    BY DEF Next, vars
  <2>1. CASE Forward!Next
    BY <2>1, ArrivalStep, DecompressStep, RespondStep, DumpStep DEF Forward!Next
  <2>2. CASE UNCHANGED forwardVars
    BY <2>2 DEF forwardVars, ForwardInv, BodyInv, DumpInv, HeldIsWire, Refused, Forwarded, DecodedAsNamed,
       Understood, Forward!Files, Forward!Dumped
  <2> QED
    BY <2>1, <2>2 DEF Next, vars
<1>3. Inv => ForwardsFaithfully
  BY ForwardTruths DEF ForwardsFaithfully
<1> QED
  BY <1>1, <1>2, <1>3, PTL DEF Spec

---------------------------------------------------------------------------
(* The framer of the pass-through path.                                    *)

\* The three kinds of bytes are told apart.
FramingConstants == X # CR /\ X # LF /\ CR # LF /\ HighWater \in Nat
Octets == {X, CR, LF}
EndsInCR(s) == s # <<>> /\ s[Len(s)] = CR

---------------------------------------------------------------------------
(* The folds of StreamFraming, byte by byte.                               *)

NormTypes == [cr : BOOLEAN, out : Seq({X, LF})]
NormZero == [cr |-> FALSE, out |-> <<>>]
NormStep(acc, b) == [cr |-> b = CR,
                     out |-> IF b = LF /\ acc.cr THEN acc.out ELSE Append(acc.out, IF b = X THEN X ELSE LF)]
NormState(s) ==
  Framing!FoldLeft(LAMBDA acc, b :
                     [cr |-> b = CR,
                      out |-> IF b = LF /\ acc.cr THEN acc.out
                              ELSE Append(acc.out, IF b = X THEN X ELSE LF)],
                   [cr |-> FALSE, out |-> <<>>], s)

PayloadTypes == Seq({X})
PayloadZero == <<>>
PayloadStep(acc, b) == IF b = X THEN Append(acc, b) ELSE acc

BlankTypes == [n : Nat, half : BOOLEAN]
BlankZero == [n |-> 0, half |-> FALSE]
BlankStep(acc, b) == IF b # LF THEN [n |-> acc.n, half |-> FALSE]
                     ELSE IF acc.half THEN [n |-> acc.n + 1, half |-> FALSE]
                     ELSE [n |-> acc.n, half |-> TRUE]
BlankState(s) ==
  Framing!FoldLeft(LAMBDA acc, b :
             IF b # LF THEN [n |-> acc.n, half |-> FALSE]
             ELSE IF acc.half THEN [n |-> acc.n + 1, half |-> FALSE]
             ELSE [n |-> acc.n, half |-> TRUE],
           [n |-> 0, half |-> FALSE], s)

BreakTypes == Seq({X, LF})
BreakZero == <<>>
BreakStep(acc, s, i) == IF s[i] = LF /\ i > 1 /\ s[i - 1] = CR THEN acc
                        ELSE Append(acc, IF s[i] = CR THEN LF ELSE s[i])

\* The normalized stream, with whether it ends in a CR.
LEMMA NormRun ==
  ASSUME FramingConstants, NEW s \in Seq(Octets)
  PROVE  \E h \in [0 .. Len(s) -> NormTypes] :
           h[0] = NormZero /\ h[Len(s)] = NormState(s) /\ \A k \in 1 .. Len(s) : h[k] = NormStep(h[k - 1], s[k])
<1> DEFINE n == Len(s)
           G == [p \in (1 .. n) \X NormTypes |-> NormStep(p[2], s[p[1]])]
           Folds(g) == g = [z \in SUBSET (1 .. n) |-> IF z = {} THEN NormZero
                                                     ELSE NormStep(g[z \ {Greatest(z)}], s[Greatest(z)])]
<1>1. n \in Nat /\ DOMAIN s = 1 .. n
  OBVIOUS
<1>2. G \in [(1 .. n) \X NormTypes -> NormTypes]
  BY DEF NormTypes, NormStep, Octets, FramingConstants
<1>3. NormZero \in NormTypes
  BY DEF NormTypes, NormZero
<1> HIDE DEF n, G
<1>4. PICK g \in [SUBSET (1 .. n) -> NormTypes] : Iterates(g, n, NormZero, G)
  BY <1>1, <1>2, <1>3, FoldIterates
<1>5. Folds(g)
  <2>1. ASSUME NEW z \in SUBSET (1 .. n), z # {}
        PROVE  g[z] = NormStep(g[z \ {Greatest(z)}], s[Greatest(z)])
    <3>1. Greatest(z) \in 1 .. n
      BY <1>1, <2>1, GreatestIn
    <3>2. g[z \ {Greatest(z)}] \in NormTypes
      BY <2>1
    <3>3. g[z] = G[<<Greatest(z), g[z \ {Greatest(z)}]>>]
      BY <1>4, <2>1 DEF Iterates
    <3> QED
      BY <3>1, <3>2, <3>3 DEF G
  <2>2. g[{}] = NormZero
    BY <1>4 DEF Iterates
  <2> QED
    BY <2>1, <2>2
<1>6. PICK it : Folds(it) /\ NormState(s) = it[1 .. n]
  <2>1. NormState(s) = (CHOOSE it : Folds(it))[1 .. n]
    BY <1>1 DEF NormZero, n, NormState, Framing!FoldLeft, Framing!MapThenFoldSet, Framing!Max, Greatest, NormStep
  <2> HIDE DEF Folds
  <2> QED
    BY <1>5, <2>1
<1>7. PICK h \in [0 .. n -> NormTypes] : Runs(h, n, NormZero, G)
  <2> HIDE DEF Folds
  <2> QED
    BY <1>1, <1>4, FoldRuns
<1>8. ASSUME NEW k \in 1 .. n
      PROVE  h[k] = NormStep(h[k - 1], s[k])
  <2>1. h[k - 1] \in NormTypes
    BY <1>1, <1>7
  <2> QED
    BY <1>7, <2>1 DEF G, Runs
<1>9. it[1 .. n] = h[n]
  <2>1. it[{}] = h[0]
    BY <1>6, <1>7 DEF Runs
  <2>2. ASSUME NEW k \in 1 .. n, it[1 .. (k - 1)] = h[k - 1]
        PROVE  it[1 .. k] = h[k]
    <3>1. /\ Greatest(1 .. k) = k /\ (1 .. k) \ {k} = 1 .. (k - 1)
          /\ 1 .. k \in SUBSET (1 .. n) /\ 1 .. k # {}
      BY <1>1, GreatestPrefix
    <3>2. it[1 .. k] = NormStep(it[(1 .. k) \ {Greatest(1 .. k)}], s[Greatest(1 .. k)])
      BY <1>6, <3>1
    <3> QED
      BY <1>8, <2>2, <3>1, <3>2
  <2> HIDE DEF Folds
  <2>3. InStep(it, h, n)
    BY <2>1, <2>2 DEF InStep
  <2> QED
    BY <1>1, <2>3, FoldValue
<1> QED
  BY <1>6, <1>7, <1>8, <1>9 DEF n, Runs

\* The reference normalization: nothing, its type, and one byte more.
LEMMA NormLaws ==
  ASSUME FramingConstants
  PROVE  /\ NormState(<<>>) = NormZero
         /\ \A s \in Seq(Octets) : NormState(s) \in NormTypes
         /\ \A s \in Seq(Octets), b \in Octets : NormState(Append(s, b)) = NormStep(NormState(s), b)
<1>1. NormState(<<>>) = NormZero
  <2>1. <<>> \in Seq(Octets) /\ Len(<<>>) = 0
    OBVIOUS
  <2> QED
    BY <2>1, NormRun
<1>2. ASSUME NEW s \in Seq(Octets)  PROVE NormState(s) \in NormTypes
  <2>1. Len(s) \in 0 .. Len(s)
    OBVIOUS
  <2> QED
    BY <2>1, NormRun
<1>3. ASSUME NEW s \in Seq(Octets), NEW b \in Octets
      PROVE  NormState(Append(s, b)) = NormStep(NormState(s), b)
  <2> DEFINE n == Len(s)
             t == Append(s, b)
  <2>1. n \in Nat /\ t \in Seq(Octets) /\ Len(t) = n + 1 /\ t[n + 1] = b /\ \A k \in 1 .. n : t[k] = s[k]
    OBVIOUS
  <2>2. PICK h \in [0 .. n -> NormTypes] :
          h[0] = NormZero /\ h[n] = NormState(s) /\ \A k \in 1 .. n : h[k] = NormStep(h[k - 1], s[k])
    BY NormRun
  <2>3. PICK j \in [0 .. Len(t) -> NormTypes] :
          j[0] = NormZero /\ j[Len(t)] = NormState(t) /\ \A k \in 1 .. Len(t) : j[k] = NormStep(j[k - 1], t[k])
    BY <2>1, NormRun
  <2> HIDE DEF n, t
  <2>4. h[n] = j[n]
    <3>1. ASSUME NEW k \in 1 .. n, h[k - 1] = j[k - 1]
          PROVE  h[k] = j[k]
      <4>1. k \in 1 .. Len(t) /\ t[k] = s[k]
        BY <2>1
      <4>2. k > 1 => t[k - 1] = s[k - 1]
        <5>1. k > 1 => k - 1 \in 1 .. n
          BY <2>1
        <5> QED
          BY <2>1, <5>1
      <4> QED
        BY <2>2, <2>3, <3>1, <4>1
    <3>2. n \in Nat /\ h[0] = j[0]
      BY <2>1, <2>2, <2>3
    <3> QED
      BY ONLY <3>1, <3>2, Lockstep
  <2>5. n + 1 \in 1 .. Len(t)
    BY <2>1
  <2>6. j[n + 1] = NormStep(j[n], b)
    BY <2>1, <2>3, <2>5
  <2> QED
    BY <2>1, <2>2, <2>3, <2>4, <2>6 DEF t
<1> QED
  BY <1>1, <1>2, <1>3

\* The payload.
LEMMA PayloadRun ==
  ASSUME FramingConstants, NEW s \in Seq(Octets)
  PROVE  \E h \in [0 .. Len(s) -> PayloadTypes] :
           h[0] = PayloadZero /\ h[Len(s)] = Framing!Payload(s) /\ \A k \in 1 .. Len(s) : h[k] = PayloadStep(h[k - 1], s[k])
<1> DEFINE n == Len(s)
           G == [p \in (1 .. n) \X PayloadTypes |-> PayloadStep(p[2], s[p[1]])]
           Folds(g) == g = [z \in SUBSET (1 .. n) |-> IF z = {} THEN PayloadZero
                                                     ELSE PayloadStep(g[z \ {Greatest(z)}], s[Greatest(z)])]
<1>1. n \in Nat /\ DOMAIN s = 1 .. n
  OBVIOUS
<1>2. G \in [(1 .. n) \X PayloadTypes -> PayloadTypes]
  BY DEF PayloadTypes, PayloadStep, Octets, FramingConstants
<1>3. PayloadZero \in PayloadTypes
  BY DEF PayloadTypes, PayloadZero
<1> HIDE DEF n, G
<1>4. PICK g \in [SUBSET (1 .. n) -> PayloadTypes] : Iterates(g, n, PayloadZero, G)
  BY <1>1, <1>2, <1>3, FoldIterates
<1>5. Folds(g)
  <2>1. ASSUME NEW z \in SUBSET (1 .. n), z # {}
        PROVE  g[z] = PayloadStep(g[z \ {Greatest(z)}], s[Greatest(z)])
    <3>1. Greatest(z) \in 1 .. n
      BY <1>1, <2>1, GreatestIn
    <3>2. g[z \ {Greatest(z)}] \in PayloadTypes
      BY <2>1
    <3>3. g[z] = G[<<Greatest(z), g[z \ {Greatest(z)}]>>]
      BY <1>4, <2>1 DEF Iterates
    <3> QED
      BY <3>1, <3>2, <3>3 DEF G
  <2>2. g[{}] = PayloadZero
    BY <1>4 DEF Iterates
  <2> QED
    BY <2>1, <2>2
<1>6. PICK it : Folds(it) /\ Framing!Payload(s) = it[1 .. n]
  <2>1. Framing!Payload(s) = (CHOOSE it : Folds(it))[1 .. n]
    BY <1>1 DEF PayloadZero, n, Framing!Payload, Framing!FoldLeft, Framing!MapThenFoldSet, Framing!Max, Greatest, PayloadStep
  <2> HIDE DEF Folds
  <2> QED
    BY <1>5, <2>1
<1>7. PICK h \in [0 .. n -> PayloadTypes] : Runs(h, n, PayloadZero, G)
  <2> HIDE DEF Folds
  <2> QED
    BY <1>1, <1>4, FoldRuns
<1>8. ASSUME NEW k \in 1 .. n
      PROVE  h[k] = PayloadStep(h[k - 1], s[k])
  <2>1. h[k - 1] \in PayloadTypes
    BY <1>1, <1>7
  <2> QED
    BY <1>7, <2>1 DEF G, Runs
<1>9. it[1 .. n] = h[n]
  <2>1. it[{}] = h[0]
    BY <1>6, <1>7 DEF Runs
  <2>2. ASSUME NEW k \in 1 .. n, it[1 .. (k - 1)] = h[k - 1]
        PROVE  it[1 .. k] = h[k]
    <3>1. /\ Greatest(1 .. k) = k /\ (1 .. k) \ {k} = 1 .. (k - 1)
          /\ 1 .. k \in SUBSET (1 .. n) /\ 1 .. k # {}
      BY <1>1, GreatestPrefix
    <3>2. it[1 .. k] = PayloadStep(it[(1 .. k) \ {Greatest(1 .. k)}], s[Greatest(1 .. k)])
      BY <1>6, <3>1
    <3> QED
      BY <1>8, <2>2, <3>1, <3>2
  <2> HIDE DEF Folds
  <2>3. InStep(it, h, n)
    BY <2>1, <2>2 DEF InStep
  <2> QED
    BY <1>1, <2>3, FoldValue
<1> QED
  BY <1>6, <1>7, <1>8, <1>9 DEF n, Runs

\* The payload: nothing, its type, and one byte more.
LEMMA PayloadLaws ==
  ASSUME FramingConstants
  PROVE  /\ Framing!Payload(<<>>) = PayloadZero
         /\ \A s \in Seq(Octets) : Framing!Payload(s) \in PayloadTypes
         /\ \A s \in Seq(Octets), b \in Octets : Framing!Payload(Append(s, b)) = PayloadStep(Framing!Payload(s), b)
<1>1. Framing!Payload(<<>>) = PayloadZero
  <2>1. <<>> \in Seq(Octets) /\ Len(<<>>) = 0
    OBVIOUS
  <2> QED
    BY <2>1, PayloadRun
<1>2. ASSUME NEW s \in Seq(Octets)  PROVE Framing!Payload(s) \in PayloadTypes
  <2>1. Len(s) \in 0 .. Len(s)
    OBVIOUS
  <2> QED
    BY <2>1, PayloadRun
<1>3. ASSUME NEW s \in Seq(Octets), NEW b \in Octets
      PROVE  Framing!Payload(Append(s, b)) = PayloadStep(Framing!Payload(s), b)
  <2> DEFINE n == Len(s)
             t == Append(s, b)
  <2>1. n \in Nat /\ t \in Seq(Octets) /\ Len(t) = n + 1 /\ t[n + 1] = b /\ \A k \in 1 .. n : t[k] = s[k]
    OBVIOUS
  <2>2. PICK h \in [0 .. n -> PayloadTypes] :
          h[0] = PayloadZero /\ h[n] = Framing!Payload(s) /\ \A k \in 1 .. n : h[k] = PayloadStep(h[k - 1], s[k])
    BY PayloadRun
  <2>3. PICK j \in [0 .. Len(t) -> PayloadTypes] :
          j[0] = PayloadZero /\ j[Len(t)] = Framing!Payload(t) /\ \A k \in 1 .. Len(t) : j[k] = PayloadStep(j[k - 1], t[k])
    BY <2>1, PayloadRun
  <2> HIDE DEF n, t
  <2>4. h[n] = j[n]
    <3>1. ASSUME NEW k \in 1 .. n, h[k - 1] = j[k - 1]
          PROVE  h[k] = j[k]
      <4>1. k \in 1 .. Len(t) /\ t[k] = s[k]
        BY <2>1
      <4>2. k > 1 => t[k - 1] = s[k - 1]
        <5>1. k > 1 => k - 1 \in 1 .. n
          BY <2>1
        <5> QED
          BY <2>1, <5>1
      <4> QED
        BY <2>2, <2>3, <3>1, <4>1
    <3>2. n \in Nat /\ h[0] = j[0]
      BY <2>1, <2>2, <2>3
    <3> QED
      BY ONLY <3>1, <3>2, Lockstep
  <2>5. n + 1 \in 1 .. Len(t)
    BY <2>1
  <2>6. j[n + 1] = PayloadStep(j[n], b)
    BY <2>1, <2>3, <2>5
  <2> QED
    BY <2>1, <2>2, <2>3, <2>4, <2>6 DEF t
<1> QED
  BY <1>1, <1>2, <1>3

\* The blank lines, with whether half of the next one was seen.
LEMMA BlankRun ==
  ASSUME FramingConstants, NEW s \in Seq(Octets)
  PROVE  \E h \in [0 .. Len(s) -> BlankTypes] :
           h[0] = BlankZero /\ h[Len(s)] = BlankState(s) /\ \A k \in 1 .. Len(s) : h[k] = BlankStep(h[k - 1], s[k])
<1> DEFINE n == Len(s)
           G == [p \in (1 .. n) \X BlankTypes |-> BlankStep(p[2], s[p[1]])]
           Folds(g) == g = [z \in SUBSET (1 .. n) |-> IF z = {} THEN BlankZero
                                                     ELSE BlankStep(g[z \ {Greatest(z)}], s[Greatest(z)])]
<1>1. n \in Nat /\ DOMAIN s = 1 .. n
  OBVIOUS
<1>2. G \in [(1 .. n) \X BlankTypes -> BlankTypes]
  BY DEF BlankTypes, BlankStep, Octets, FramingConstants
<1>3. BlankZero \in BlankTypes
  BY DEF BlankTypes, BlankZero
<1> HIDE DEF n, G
<1>4. PICK g \in [SUBSET (1 .. n) -> BlankTypes] : Iterates(g, n, BlankZero, G)
  BY <1>1, <1>2, <1>3, FoldIterates
<1>5. Folds(g)
  <2>1. ASSUME NEW z \in SUBSET (1 .. n), z # {}
        PROVE  g[z] = BlankStep(g[z \ {Greatest(z)}], s[Greatest(z)])
    <3>1. Greatest(z) \in 1 .. n
      BY <1>1, <2>1, GreatestIn
    <3>2. g[z \ {Greatest(z)}] \in BlankTypes
      BY <2>1
    <3>3. g[z] = G[<<Greatest(z), g[z \ {Greatest(z)}]>>]
      BY <1>4, <2>1 DEF Iterates
    <3> QED
      BY <3>1, <3>2, <3>3 DEF G
  <2>2. g[{}] = BlankZero
    BY <1>4 DEF Iterates
  <2> QED
    BY <2>1, <2>2
<1>6. PICK it : Folds(it) /\ BlankState(s) = it[1 .. n]
  <2>1. BlankState(s) = (CHOOSE it : Folds(it))[1 .. n]
    BY <1>1 DEF BlankZero, n, BlankState, Framing!FoldLeft, Framing!MapThenFoldSet, Framing!Max, Greatest, BlankStep
  <2> HIDE DEF Folds
  <2> QED
    BY <1>5, <2>1
<1>7. PICK h \in [0 .. n -> BlankTypes] : Runs(h, n, BlankZero, G)
  <2> HIDE DEF Folds
  <2> QED
    BY <1>1, <1>4, FoldRuns
<1>8. ASSUME NEW k \in 1 .. n
      PROVE  h[k] = BlankStep(h[k - 1], s[k])
  <2>1. h[k - 1] \in BlankTypes
    BY <1>1, <1>7
  <2> QED
    BY <1>7, <2>1 DEF G, Runs
<1>9. it[1 .. n] = h[n]
  <2>1. it[{}] = h[0]
    BY <1>6, <1>7 DEF Runs
  <2>2. ASSUME NEW k \in 1 .. n, it[1 .. (k - 1)] = h[k - 1]
        PROVE  it[1 .. k] = h[k]
    <3>1. /\ Greatest(1 .. k) = k /\ (1 .. k) \ {k} = 1 .. (k - 1)
          /\ 1 .. k \in SUBSET (1 .. n) /\ 1 .. k # {}
      BY <1>1, GreatestPrefix
    <3>2. it[1 .. k] = BlankStep(it[(1 .. k) \ {Greatest(1 .. k)}], s[Greatest(1 .. k)])
      BY <1>6, <3>1
    <3> QED
      BY <1>8, <2>2, <3>1, <3>2
  <2> HIDE DEF Folds
  <2>3. InStep(it, h, n)
    BY <2>1, <2>2 DEF InStep
  <2> QED
    BY <1>1, <2>3, FoldValue
<1> QED
  BY <1>6, <1>7, <1>8, <1>9 DEF n, Runs

\* The count of blank lines: nothing, its type, and one byte more.
LEMMA BlankLaws ==
  ASSUME FramingConstants
  PROVE  /\ BlankState(<<>>) = BlankZero
         /\ \A s \in Seq(Octets) : BlankState(s) \in BlankTypes
         /\ \A s \in Seq(Octets), b \in Octets : BlankState(Append(s, b)) = BlankStep(BlankState(s), b)
<1>1. BlankState(<<>>) = BlankZero
  <2>1. <<>> \in Seq(Octets) /\ Len(<<>>) = 0
    OBVIOUS
  <2> QED
    BY <2>1, BlankRun
<1>2. ASSUME NEW s \in Seq(Octets)  PROVE BlankState(s) \in BlankTypes
  <2>1. Len(s) \in 0 .. Len(s)
    OBVIOUS
  <2> QED
    BY <2>1, BlankRun
<1>3. ASSUME NEW s \in Seq(Octets), NEW b \in Octets
      PROVE  BlankState(Append(s, b)) = BlankStep(BlankState(s), b)
  <2> DEFINE n == Len(s)
             t == Append(s, b)
  <2>1. n \in Nat /\ t \in Seq(Octets) /\ Len(t) = n + 1 /\ t[n + 1] = b /\ \A k \in 1 .. n : t[k] = s[k]
    OBVIOUS
  <2>2. PICK h \in [0 .. n -> BlankTypes] :
          h[0] = BlankZero /\ h[n] = BlankState(s) /\ \A k \in 1 .. n : h[k] = BlankStep(h[k - 1], s[k])
    BY BlankRun
  <2>3. PICK j \in [0 .. Len(t) -> BlankTypes] :
          j[0] = BlankZero /\ j[Len(t)] = BlankState(t) /\ \A k \in 1 .. Len(t) : j[k] = BlankStep(j[k - 1], t[k])
    BY <2>1, BlankRun
  <2> HIDE DEF n, t
  <2>4. h[n] = j[n]
    <3>1. ASSUME NEW k \in 1 .. n, h[k - 1] = j[k - 1]
          PROVE  h[k] = j[k]
      <4>1. k \in 1 .. Len(t) /\ t[k] = s[k]
        BY <2>1
      <4>2. k > 1 => t[k - 1] = s[k - 1]
        <5>1. k > 1 => k - 1 \in 1 .. n
          BY <2>1
        <5> QED
          BY <2>1, <5>1
      <4> QED
        BY <2>2, <2>3, <3>1, <4>1
    <3>2. n \in Nat /\ h[0] = j[0]
      BY <2>1, <2>2, <2>3
    <3> QED
      BY ONLY <3>1, <3>2, Lockstep
  <2>5. n + 1 \in 1 .. Len(t)
    BY <2>1
  <2>6. j[n + 1] = BlankStep(j[n], b)
    BY <2>1, <2>3, <2>5
  <2> QED
    BY <2>1, <2>2, <2>3, <2>4, <2>6 DEF t
<1> QED
  BY <1>1, <1>2, <1>3

\* The line breaks of a chunk.
LEMMA BreakRun ==
  ASSUME FramingConstants, NEW s \in Seq(Octets)
  PROVE  \E h \in [0 .. Len(s) -> BreakTypes] :
           h[0] = BreakZero /\ h[Len(s)] = Framing!Breaks(s) /\ \A k \in 1 .. Len(s) : h[k] = BreakStep(h[k - 1], s, k)
<1> DEFINE n == Len(s)
           G == [p \in (1 .. n) \X BreakTypes |-> BreakStep(p[2], s, p[1])]
           Folds(g) == g = [z \in SUBSET (1 .. n) |-> IF z = {} THEN BreakZero
                                                     ELSE BreakStep(g[z \ {Greatest(z)}], s, Greatest(z))]
<1>1. n \in Nat /\ DOMAIN s = 1 .. n
  OBVIOUS
<1>2. G \in [(1 .. n) \X BreakTypes -> BreakTypes]
  BY DEF BreakTypes, BreakStep, Octets, FramingConstants
<1>3. BreakZero \in BreakTypes
  BY DEF BreakTypes, BreakZero
<1> HIDE DEF n, G
<1>4. PICK g \in [SUBSET (1 .. n) -> BreakTypes] : Iterates(g, n, BreakZero, G)
  BY <1>1, <1>2, <1>3, FoldIterates
<1>5. Folds(g)
  <2>1. ASSUME NEW z \in SUBSET (1 .. n), z # {}
        PROVE  g[z] = BreakStep(g[z \ {Greatest(z)}], s, Greatest(z))
    <3>1. Greatest(z) \in 1 .. n
      BY <1>1, <2>1, GreatestIn
    <3>2. g[z \ {Greatest(z)}] \in BreakTypes
      BY <2>1
    <3>3. g[z] = G[<<Greatest(z), g[z \ {Greatest(z)}]>>]
      BY <1>4, <2>1 DEF Iterates
    <3> QED
      BY <3>1, <3>2, <3>3 DEF G
  <2>2. g[{}] = BreakZero
    BY <1>4 DEF Iterates
  <2> QED
    BY <2>1, <2>2
<1>6. PICK it : Folds(it) /\ Framing!Breaks(s) = it[1 .. n]
  <2> DEFINE ids == [i \in DOMAIN s |-> i]
             Chain == CHOOSE it : it = [z \in SUBSET DOMAIN ids |-> IF z = {} THEN <<>>
                                          ELSE BreakStep(it[z \ {Greatest(z)}], s, ids[Greatest(z)])]
  <2>1. Framing!Breaks(s) = Chain[DOMAIN ids]
    BY DEF Framing!Breaks, Framing!FoldLeftDomain, Framing!FoldLeft, Framing!MapThenFoldSet, Framing!Max, Greatest, BreakStep
  <2>2. DOMAIN ids = 1 .. n /\ \A i \in 1 .. n : ids[i] = i
    BY <1>1
  <2>3. \A it : it = [z \in SUBSET DOMAIN ids |-> IF z = {} THEN <<>>
                                          ELSE BreakStep(it[z \ {Greatest(z)}], s, ids[Greatest(z)])] <=> Folds(it)
    <3>1. \A z \in SUBSET (1 .. n) : z # {} => ids[Greatest(z)] = Greatest(z)
      <4> HIDE DEF ids
      <4> QED
        BY <1>1, <2>2, GreatestIn
    <3> SUFFICES ASSUME NEW it
                 PROVE  [z \in SUBSET DOMAIN ids |-> IF z = {} THEN <<>>
                           ELSE BreakStep(it[z \ {Greatest(z)}], s, ids[Greatest(z)])]
                        = [z \in SUBSET (1 .. n) |-> IF z = {} THEN BreakZero
                             ELSE BreakStep(it[z \ {Greatest(z)}], s, Greatest(z))]
      OBVIOUS
    <3> HIDE DEF ids
    <3>2. \A z \in SUBSET (1 .. n) :
            (IF z = {} THEN <<>> ELSE BreakStep(it[z \ {Greatest(z)}], s, ids[Greatest(z)]))
            = IF z = {} THEN BreakZero ELSE BreakStep(it[z \ {Greatest(z)}], s, Greatest(z))
      BY <3>1 DEF BreakZero
    <3> QED
      BY ONLY <2>2, <3>2
  <2> HIDE DEF ids, Folds
  <2>4. Folds(Chain)
    BY <1>5, <2>3
  <2> QED
    BY <2>1, <2>2, <2>4
<1>7. PICK h \in [0 .. n -> BreakTypes] : Runs(h, n, BreakZero, G)
  <2> HIDE DEF Folds
  <2> QED
    BY <1>1, <1>4, FoldRuns
<1>8. ASSUME NEW k \in 1 .. n
      PROVE  h[k] = BreakStep(h[k - 1], s, k)
  <2>1. h[k - 1] \in BreakTypes
    BY <1>1, <1>7
  <2> QED
    BY <1>7, <2>1 DEF G, Runs
<1>9. it[1 .. n] = h[n]
  <2>1. it[{}] = h[0]
    BY <1>6, <1>7 DEF Runs
  <2>2. ASSUME NEW k \in 1 .. n, it[1 .. (k - 1)] = h[k - 1]
        PROVE  it[1 .. k] = h[k]
    <3>1. /\ Greatest(1 .. k) = k /\ (1 .. k) \ {k} = 1 .. (k - 1)
          /\ 1 .. k \in SUBSET (1 .. n) /\ 1 .. k # {}
      BY <1>1, GreatestPrefix
    <3>2. it[1 .. k] = BreakStep(it[(1 .. k) \ {Greatest(1 .. k)}], s, Greatest(1 .. k))
      BY <1>6, <3>1
    <3> QED
      BY <1>8, <2>2, <3>1, <3>2
  <2> HIDE DEF Folds
  <2>3. InStep(it, h, n)
    BY <2>1, <2>2 DEF InStep
  <2> QED
    BY <1>1, <2>3, FoldValue
<1> QED
  BY <1>6, <1>7, <1>8, <1>9 DEF n, Runs

\* The line breaks of a chunk: nothing, their type, and one byte more.
LEMMA BreakLaws ==
  ASSUME FramingConstants
  PROVE  /\ Framing!Breaks(<<>>) = BreakZero
         /\ \A s \in Seq(Octets) : Framing!Breaks(s) \in BreakTypes
         /\ \A s \in Seq(Octets), b \in Octets : Framing!Breaks(Append(s, b)) = IF b = LF /\ EndsInCR(s) THEN Framing!Breaks(s) ELSE Append(Framing!Breaks(s), IF b = CR THEN LF ELSE b)
<1>1. Framing!Breaks(<<>>) = BreakZero
  <2>1. <<>> \in Seq(Octets) /\ Len(<<>>) = 0
    OBVIOUS
  <2> QED
    BY <2>1, BreakRun
<1>2. ASSUME NEW s \in Seq(Octets)  PROVE Framing!Breaks(s) \in BreakTypes
  <2>1. Len(s) \in 0 .. Len(s)
    OBVIOUS
  <2> QED
    BY <2>1, BreakRun
<1>3. ASSUME NEW s \in Seq(Octets), NEW b \in Octets
      PROVE  Framing!Breaks(Append(s, b)) = IF b = LF /\ EndsInCR(s) THEN Framing!Breaks(s) ELSE Append(Framing!Breaks(s), IF b = CR THEN LF ELSE b)
  <2> DEFINE n == Len(s)
             t == Append(s, b)
  <2>1. n \in Nat /\ t \in Seq(Octets) /\ Len(t) = n + 1 /\ t[n + 1] = b /\ \A k \in 1 .. n : t[k] = s[k]
    OBVIOUS
  <2>2. PICK h \in [0 .. n -> BreakTypes] :
          h[0] = BreakZero /\ h[n] = Framing!Breaks(s) /\ \A k \in 1 .. n : h[k] = BreakStep(h[k - 1], s, k)
    BY BreakRun
  <2>3. PICK j \in [0 .. Len(t) -> BreakTypes] :
          j[0] = BreakZero /\ j[Len(t)] = Framing!Breaks(t) /\ \A k \in 1 .. Len(t) : j[k] = BreakStep(j[k - 1], t, k)
    BY <2>1, BreakRun
  <2> HIDE DEF n, t
  <2>4. h[n] = j[n]
    <3>1. ASSUME NEW k \in 1 .. n, h[k - 1] = j[k - 1]
          PROVE  h[k] = j[k]
      <4>1. k \in 1 .. Len(t) /\ t[k] = s[k]
        BY <2>1
      <4>2. k > 1 => t[k - 1] = s[k - 1]
        <5>1. k > 1 => k - 1 \in 1 .. n
          BY <2>1
        <5> QED
          BY <2>1, <5>1
      <4> QED
        BY <2>2, <2>3, <3>1, <4>1, <4>2 DEF BreakStep
    <3>2. n \in Nat /\ h[0] = j[0]
      BY <2>1, <2>2, <2>3
    <3> QED
      BY ONLY <3>1, <3>2, Lockstep
  <2>5. n + 1 \in 1 .. Len(t)
    BY <2>1
  <2>6. j[n + 1] = BreakStep(j[n], t, n + 1)
    BY <2>1, <2>3, <2>5
  <2> QED
    BY <2>1, <2>2, <2>3, <2>4, <2>6 DEF t, n, BreakStep, EndsInCR
<1> QED
  BY <1>1, <1>2, <1>3

\* Concatenation is done from the right.
LEMMA AppendConcat ==
  ASSUME NEW S, NEW p \in Seq(S), NEW q \in Seq(S), NEW e \in S
  PROVE  p \o Append(q, e) = Append(p \o q, e) /\ p \o q \in Seq(S)
OBVIOUS

\* The reference of LinesPreserved and what push does to a chunk are the same function.
LEMMA NormIsBreaks ==
  ASSUME FramingConstants, NEW s \in Seq(Octets)
  PROVE  NormState(s) = [cr |-> EndsInCR(s), out |-> Framing!Breaks(s)]
<1> DEFINE Good == {t \in Seq(Octets) : NormState(t) = [cr |-> EndsInCR(t), out |-> Framing!Breaks(t)]}
<1>1. <<>> \in Good
  <2>1. <<>> \in Seq(Octets) /\ EndsInCR(<<>>) = FALSE
    BY DEF EndsInCR
  <2> QED
    BY <2>1, NormLaws, BreakLaws DEF NormZero, BreakZero
<1>2. ASSUME NEW t \in Seq(Octets), NEW b \in Octets, t \in Good
      PROVE  Append(t, b) \in Good
  <2>1. NormState(Append(t, b)) = NormStep([cr |-> EndsInCR(t), out |-> Framing!Breaks(t)], b)
    BY <1>2, NormLaws
  <2>2. Framing!Breaks(Append(t, b)) =
          IF b = LF /\ EndsInCR(t) THEN Framing!Breaks(t) ELSE Append(Framing!Breaks(t), IF b = CR THEN LF ELSE b)
    BY BreakLaws
  <2>3. EndsInCR(Append(t, b)) = (b = CR)
    BY DEF EndsInCR
  <2>4. (IF b = X THEN X ELSE LF) = (IF b = CR THEN LF ELSE b)
    BY DEF Octets, FramingConstants
  <2>5. NormStep([cr |-> EndsInCR(t), out |-> Framing!Breaks(t)], b)
          = [cr |-> b = CR, out |-> IF b = LF /\ EndsInCR(t) THEN Framing!Breaks(t)
                                    ELSE Append(Framing!Breaks(t), IF b = X THEN X ELSE LF)]
    BY DEF NormStep
  <2>6. NormState(Append(t, b)) = [cr |-> EndsInCR(Append(t, b)), out |-> Framing!Breaks(Append(t, b))]
    BY <2>1, <2>2, <2>3, <2>4, <2>5
  <2> QED
    BY <2>6
<1> HIDE DEF Good
<1>3. s \in Good
  BY <1>1, <1>2, AppendInduction
<1> QED
  BY <1>3 DEF Good

\* Cut anywhere but inside a CRLF, the two parts of a stream can be normalized apart.
LEMMA BreaksSplit ==
  ASSUME FramingConstants, NEW s \in Seq(Octets), NEW t \in Seq(Octets),
         EndsInCR(s) => t = <<>> \/ t[1] # LF
  PROVE  Framing!Breaks(s \o t) = Framing!Breaks(s) \o Framing!Breaks(t)
<1> DEFINE Cut(u) == EndsInCR(s) => u = <<>> \/ u[1] # LF
           Good == {u \in Seq(Octets) : Cut(u) => Framing!Breaks(s \o u) = Framing!Breaks(s) \o Framing!Breaks(u)}
<1>0. Framing!Breaks(s) \in Seq({X, LF})
  BY BreakLaws DEF BreakTypes
<1>1. <<>> \in Good
  <2>1. s \o <<>> = s
    BY ConcatEmptySeq
  <2>2. Framing!Breaks(<<>>) = <<>>
    BY BreakLaws DEF BreakZero
  <2>3. Framing!Breaks(s) \o <<>> = Framing!Breaks(s)
    BY <1>0, ConcatEmptySeq
  <2>4. <<>> \in Seq(Octets)
    OBVIOUS
  <2> HIDE DEF Cut
  <2> QED
    BY <2>1, <2>2, <2>3, <2>4
<1>2. ASSUME NEW u \in Seq(Octets), NEW b \in Octets, u \in Good
      PROVE  Append(u, b) \in Good
  <2>0. Append(u, b) \in Seq(Octets)
    OBVIOUS
  <2>1. SUFFICES ASSUME Cut(Append(u, b))
                 PROVE  Framing!Breaks(s \o Append(u, b)) = Framing!Breaks(s) \o Framing!Breaks(Append(u, b))
    BY <2>0
  <2>2. Cut(u) /\ (EndsInCR(s \o u) /\ b = LF <=> EndsInCR(u) /\ b = LF)
    <3>1. CASE u = <<>>
      <4>1. s \o u = s /\ Append(u, b)[1] = b /\ Append(u, b) # <<>>
        BY <3>1
      <4> QED
        BY <2>1, <3>1, <4>1 DEF EndsInCR
    <3>2. CASE u # <<>>
      <4>1. /\ s \o u # <<>> /\ (s \o u)[Len(s \o u)] = u[Len(u)]
            /\ Append(u, b)[1] = u[1] /\ Append(u, b) # <<>>
        BY <3>2
      <4> QED
        BY <2>1, <3>2, <4>1 DEF EndsInCR
    <3> QED
      BY <3>1, <3>2
  <2>3. s \o Append(u, b) = Append(s \o u, b) /\ s \o u \in Seq(Octets)
    BY AppendConcat
  <2>4. Framing!Breaks(s \o Append(u, b)) =
          IF b = LF /\ EndsInCR(s \o u) THEN Framing!Breaks(s \o u)
          ELSE Append(Framing!Breaks(s \o u), IF b = CR THEN LF ELSE b)
    BY <2>3, BreakLaws
  <2>5. Framing!Breaks(Append(u, b)) =
          IF b = LF /\ EndsInCR(u) THEN Framing!Breaks(u) ELSE Append(Framing!Breaks(u), IF b = CR THEN LF ELSE b)
    BY BreakLaws
  <2>6. Framing!Breaks(s \o u) = Framing!Breaks(s) \o Framing!Breaks(u)
    BY <1>2, <2>2
  <2>7. Framing!Breaks(u) \in Seq({X, LF})
    BY BreakLaws DEF BreakTypes
  <2>8. b # LF \/ ~EndsInCR(u) => (IF b = CR THEN LF ELSE b) \in {X, LF}
    BY DEF Octets
  <2>9. Framing!Breaks(s) \o Append(Framing!Breaks(u), IF b = CR THEN LF ELSE b)
          = Append(Framing!Breaks(s) \o Framing!Breaks(u), IF b = CR THEN LF ELSE b)
    <3>1. (IF b = CR THEN LF ELSE b) \in {X, LF}
      BY DEF Octets
    <3> HIDE DEF Good, Cut
    <3> QED
      BY <1>0, <2>7, <3>1, AppendConcat
  <2> QED
    BY <2>2, <2>4, <2>5, <2>6, <2>9
<1>3. t \in Good
  <2> HIDE DEF Good
  <2> QED
    BY <1>1, <1>2, AppendInduction
<1> QED
  BY <1>3

Clean == {X, LF}

\* A normalized sequence is a sequence of bytes.
LEMMA CleanIsOctets ==
  ASSUME NEW s \in Seq(Clean)
  PROVE  s \in Seq(Octets)
BY SeqMonotonic DEF Clean, Octets

\* Two equal elements, one appended to the other.
LEMMA AppendPair ==
  ASSUME NEW S, NEW e \in S
  PROVE  Append(<<e>>, e) = <<e, e>>
<1>1. <<e>> \in Seq(S) /\ <<e, e>> \in Seq(S) /\ Append(<<e>>, e) \in Seq(S)
  OBVIOUS
<1>2. Len(<<e, e>>) = 2 /\ Len(Append(<<e>>, e)) = 2
  OBVIOUS
<1>3. Append(<<e>>, e)[1] = e /\ Append(<<e>>, e)[2] = e
  OBVIOUS
<1>4. \A i \in 1 .. 2 : Append(<<e>>, e)[i] = <<e, e>>[i]
  <2>1. \A i \in 1 .. 2 : i = 1 \/ i = 2
    OBVIOUS
  <2> QED
    BY <1>3, <2>1
<1> QED
  BY <1>1, <1>2, <1>4, SeqEqual

\* Line breaks are no payload.
LEMMA PayloadOfBreak ==
  ASSUME FramingConstants
  PROVE  /\ Framing!Payload(<<>>) = <<>> /\ Framing!Payload(<<LF>>) = <<>> /\ Framing!Payload(<<CR>>) = <<>>
         /\ Framing!Payload(<<LF, LF>>) = <<>>
<1>0. Framing!Payload(<<>>) = <<>> /\ <<>> \in Seq(Octets) /\ LF \in Octets /\ CR \in Octets
  BY PayloadLaws DEF PayloadZero, Octets
<1>1. ASSUME NEW b \in {LF, CR}
      PROVE  Framing!Payload(<<b>>) = <<>>
  <2>1. Append(<<>>, b) = <<b>> /\ b \in Octets
    BY DEF Octets
  <2>2. Framing!Payload(Append(<<>>, b)) = PayloadStep(Framing!Payload(<<>>), b)
    BY <1>0, <2>1, PayloadLaws
  <2> QED
    BY <1>0, <2>1, <2>2 DEF PayloadStep, FramingConstants
<1>2. Framing!Payload(<<LF, LF>>) = <<>>
  <2>0. Append(<<LF>>, LF) = <<LF, LF>>
    BY <1>0, AppendPair
  <2>1. <<LF>> \in Seq(Octets)
    BY <1>0
  <2>2. Framing!Payload(Append(<<LF>>, LF)) = PayloadStep(Framing!Payload(<<LF>>), LF)
    BY <1>0, <2>1, PayloadLaws
  <2> QED
    BY <1>1, <2>0, <2>2 DEF PayloadStep, FramingConstants
<1> QED
  BY <1>0, <1>1, <1>2

\* The payload of two parts is that of one after that of the other.
LEMMA PayloadSplit ==
  ASSUME FramingConstants, NEW s \in Seq(Octets), NEW t \in Seq(Octets)
  PROVE  Framing!Payload(s \o t) = Framing!Payload(s) \o Framing!Payload(t)
<1> DEFINE Good == {u \in Seq(Octets) : Framing!Payload(s \o u) = Framing!Payload(s) \o Framing!Payload(u)}
<1>0. Framing!Payload(s) \in Seq({X})
  BY PayloadLaws DEF PayloadTypes
<1>1. <<>> \in Good
  <2>1. s \o <<>> = s /\ <<>> \in Seq(Octets)
    BY ConcatEmptySeq
  <2>2. Framing!Payload(<<>>) = <<>>
    BY PayloadOfBreak
  <2>3. Framing!Payload(s) \o <<>> = Framing!Payload(s)
    BY <1>0, ConcatEmptySeq
  <2> QED
    BY <2>1, <2>2, <2>3
<1>2. ASSUME NEW u \in Seq(Octets), NEW b \in Octets, u \in Good
      PROVE  Append(u, b) \in Good
  <2>0. Append(u, b) \in Seq(Octets)
    OBVIOUS
  <2>1. s \o Append(u, b) = Append(s \o u, b) /\ s \o u \in Seq(Octets)
    BY AppendConcat
  <2>2. /\ Framing!Payload(s \o Append(u, b)) = PayloadStep(Framing!Payload(s \o u), b)
        /\ Framing!Payload(Append(u, b)) = PayloadStep(Framing!Payload(u), b)
        /\ Framing!Payload(u) \in Seq({X})
    BY <2>1, PayloadLaws DEF PayloadTypes
  <2>3. Framing!Payload(s) \o Append(Framing!Payload(u), X) = Append(Framing!Payload(s) \o Framing!Payload(u), X)
    <3>1. X \in {X}
      OBVIOUS
    <3> HIDE DEF Good
    <3> QED
      BY <1>0, <2>2, <3>1, AppendConcat
  <2>4. Framing!Payload(s \o u) = Framing!Payload(s) \o Framing!Payload(u)
    BY <1>2
  <2>5. Framing!Payload(s \o Append(u, b)) = Framing!Payload(s) \o Framing!Payload(Append(u, b))
    BY <2>2, <2>3, <2>4 DEF PayloadStep
  <2> QED
    BY <2>0, <2>5
<1>3. t \in Good
  <2> HIDE DEF Good
  <2> QED
    BY <1>1, <1>2, AppendInduction
<1> QED
  BY <1>3

\* Normalizing line breaks leaves the payload alone.
LEMMA PayloadOfBreaks ==
  ASSUME FramingConstants, NEW s \in Seq(Octets)
  PROVE  Framing!Payload(Framing!Breaks(s)) = Framing!Payload(s)
<1> DEFINE Good == {u \in Seq(Octets) : Framing!Payload(Framing!Breaks(u)) = Framing!Payload(u)}
<1>1. <<>> \in Good
  <2>1. Framing!Breaks(<<>>) = <<>> /\ <<>> \in Seq(Octets)
    BY BreakLaws DEF BreakZero
  <2> QED
    BY <2>1
<1>2. ASSUME NEW u \in Seq(Octets), NEW b \in Octets, u \in Good
      PROVE  Append(u, b) \in Good
  <2>0. Append(u, b) \in Seq(Octets)
    OBVIOUS
  <2> DEFINE c == IF b = CR THEN LF ELSE b
  <2>1. Framing!Breaks(Append(u, b)) = IF b = LF /\ EndsInCR(u) THEN Framing!Breaks(u) ELSE Append(Framing!Breaks(u), c)
    BY BreakLaws
  <2>2. Framing!Breaks(u) \in Seq(Octets) /\ c \in Octets
    BY BreakLaws, CleanIsOctets DEF BreakTypes, Clean, Octets
  <2>3. Framing!Payload(Append(Framing!Breaks(u), c)) = PayloadStep(Framing!Payload(u), c)
    BY <1>2, <2>2, PayloadLaws
  <2>4. Framing!Payload(Append(u, b)) = PayloadStep(Framing!Payload(u), b)
    BY PayloadLaws
  <2>5. Framing!Payload(Framing!Breaks(u)) = Framing!Payload(u)
    BY <1>2
  <2>6. Framing!Payload(Framing!Breaks(Append(u, b))) = Framing!Payload(Append(u, b))
    <3>1. CASE b = X
      BY <2>1, <2>3, <2>4, <3>1 DEF FramingConstants
    <3>2. CASE b # X
      BY <2>1, <2>3, <2>4, <2>5, <3>2 DEF PayloadStep, Octets, FramingConstants
    <3> QED
      BY <3>1, <3>2
  <2> QED
    BY <2>0, <2>6
<1>3. s \in Good
  <2> HIDE DEF Good
  <2> QED
    BY <1>1, <1>2, AppendInduction
<1> QED
  BY <1>3

\* Three parts can be put together in either order.
LEMMA Associative ==
  ASSUME NEW S, NEW o \in Seq(S), NEW p \in Seq(S), NEW h \in Seq(S)
  PROVE  (o \o p) \o h = o \o (p \o h) /\ o \o p \in Seq(S)
BY ConcatAssociative, ConcatProperties

\* The same, as a fact about four values.
Joined(S, o, p, h) == (o \o p) \o h = o \o (p \o h) /\ o \o p \in Seq(S)

\* Three parts are joined in either order.
LEMMA Joins ==
  ASSUME NEW S, NEW o \in Seq(S), NEW p \in Seq(S), NEW h \in Seq(S)
  PROVE  Joined(S, o, p, h)
BY Associative DEF Joined

\* Four parts can be put together in either order as well.
Regrouped(S, o, p, h, b) ==
  /\ o \o (p \o h \o b) = (o \o p \o h) \o b
  /\ o \o (p \o h) = o \o p \o h
  /\ o \o p \o h \in Seq(S) /\ p \o h \o b \in Seq(S)

\* Four sequences, grouped in the ways the framer groups them.
LEMMA Regroup ==
  ASSUME NEW S, NEW o \in Seq(S), NEW p \in Seq(S), NEW h \in Seq(S), NEW b \in Seq(S)
  PROVE  Regrouped(S, o, p, h, b)
<1> DEFINE q == p \o h
           r == o \o p
<1>1. Joined(S, o, p, h) /\ Joined(S, p, h, b)
  BY Joins
<1>2. q \in Seq(S) /\ r \o h = o \o q
  BY <1>1 DEF Joined
<1> HIDE DEF q, r
<1>3. Joined(S, o, q, b) /\ Joined(S, q, b, b)
  BY <1>2, Joins
<1>4. (o \o q) \o b = o \o (q \o b) /\ o \o q \in Seq(S) /\ q \o b \in Seq(S)
  BY <1>3 DEF Joined
<1> QED
  BY <1>2, <1>4 DEF q, r, Regrouped

\* push: what is left of a chunk when the LF of a held CR and a last CR are taken off.
Rest(c) == Framing!Swallow(c)
Open(c) == Rest(c) # <<>> /\ Framing!Last(Rest(c)) = CR
Part(c) == IF Open(c) THEN Framing!Front(Rest(c)) ELSE Rest(c)

\* A chunk loses the LF of a held CR or nothing, and its last CR or nothing.
LEMMA SwallowCases ==
  ASSUME NEW c \in Seq(Octets), c # <<>>
  PROVE  /\ Rest(c) \in Seq(Octets) /\ Part(c) \in Seq(Octets)
         /\ \/ Rest(c) = c /\ ~(cr_held /\ c[1] = LF)
            \/ cr_held /\ c = <<LF>> \o Rest(c)
         /\ Open(c) => Rest(c) = Append(Part(c), CR)
<1>1. Tail(c) \in Seq(Octets) /\ c = <<Head(c)>> \o Tail(c) /\ Head(c) = c[1] /\ Head(c) \in Octets
  BY HeadTailProperties
<1>2. Rest(c) = IF cr_held /\ c[1] = LF THEN Tail(c) ELSE c
  BY <1>1 DEF Rest, Framing!Swallow
<1>3. Rest(c) \in Seq(Octets)
  BY <1>1, <1>2
<1>4. ASSUME NEW r \in Seq(Octets), r # <<>>
      PROVE  Framing!Front(r) \in Seq(Octets) /\ r = Append(Framing!Front(r), Framing!Last(r))
  <2>1. Len(r) \in Nat /\ Len(r) >= 1
    BY <1>4
  <2>2. SubSeq(r, 1, Len(r) - 1) \in Seq(Octets) /\ SubSeq(r, 1, Len(r)) = Append(SubSeq(r, 1, Len(r) - 1), r[Len(r)])
    <3>1. Len(r) \in 1 .. Len(r)
      BY <2>1
    <3> QED
      BY <3>1, PrefixStep
  <2>3. SubSeq(r, 1, Len(r)) = r
    BY SubSeqFull
  <2> QED
    BY <2>2, <2>3 DEF Framing!Front, Framing!Last
<1>5. Part(c) \in Seq(Octets) /\ (Open(c) => Rest(c) = Append(Part(c), CR))
  BY <1>3, <1>4 DEF Part, Open
<1> QED
  BY <1>1, <1>2, <1>3, <1>5

HeldAs(open) == IF open THEN <<LF>> ELSE <<>>

\* What a chunk adds to the payload is the payload of the part that goes to the buffer.
LEMMA PartPayload ==
  ASSUME FramingConstants, NEW c \in Seq(Octets), c # <<>>
  PROVE  Framing!Payload(Part(c)) = Framing!Payload(c)
<1>1. /\ Rest(c) \in Seq(Octets) /\ Part(c) \in Seq(Octets)
      /\ Rest(c) = c \/ c = <<LF>> \o Rest(c)
      /\ Open(c) => Rest(c) = Append(Part(c), CR)
  BY SwallowCases
<1>2. Framing!Payload(Rest(c)) = Framing!Payload(c)
  <2>1. CASE c = <<LF>> \o Rest(c)
    <3>1. <<LF>> \in Seq(Octets)
      BY DEF Octets
    <3>2. Framing!Payload(c) = Framing!Payload(<<LF>>) \o Framing!Payload(Rest(c))
      BY <1>1, <2>1, <3>1, PayloadSplit
    <3>3. Framing!Payload(Rest(c)) \in Seq({X})
      BY <1>1, PayloadLaws DEF PayloadTypes
    <3> QED
      BY <3>2, <3>3, PayloadOfBreak, ConcatEmptySeq
  <2> QED
    BY <1>1, <2>1
<1>3. CASE Open(c)
  <2>1. Framing!Payload(Rest(c)) = PayloadStep(Framing!Payload(Part(c)), CR)
    BY <1>1, <1>3, PayloadLaws DEF Octets
  <2> QED
    BY <1>2, <2>1 DEF PayloadStep, FramingConstants
<1>4. CASE ~Open(c)
  BY <1>2, <1>4 DEF Part
<1> QED
  BY <1>3, <1>4

\* If the held CR is the last byte so far, the stream with the chunk is normalized to
\* what it was, the part, and the CR that is held now.
LEMMA PartBreaks ==
  ASSUME FramingConstants, NEW s \in Seq(Octets), NEW c \in Seq(Octets), c # <<>>, cr_held = EndsInCR(s)
  PROVE  /\ Framing!Breaks(s \o c) = Framing!Breaks(s) \o Framing!Breaks(Part(c)) \o HeldAs(Open(c))
         /\ Open(c) = EndsInCR(s \o c)
<1>1. /\ Rest(c) \in Seq(Octets) /\ Part(c) \in Seq(Octets)
      /\ \/ Rest(c) = c /\ ~(cr_held /\ c[1] = LF)
         \/ cr_held /\ c = <<LF>> \o Rest(c)
      /\ Open(c) => Rest(c) = Append(Part(c), CR)
  BY SwallowCases
<1>2. Framing!Breaks(s \o c) = Framing!Breaks(s) \o Framing!Breaks(Rest(c)) /\ Open(c) = EndsInCR(s \o c)
  <2>1. CASE Rest(c) = c /\ ~(cr_held /\ c[1] = LF)
    <3>1. EndsInCR(s) => c[1] # LF
      BY <2>1
    <3>2. Framing!Breaks(s \o c) = Framing!Breaks(s) \o Framing!Breaks(c)
      BY <3>1, BreaksSplit
    <3>3. s \o c # <<>> /\ (s \o c)[Len(s \o c)] = c[Len(c)]
      OBVIOUS
    <3>4. Open(c) = EndsInCR(s \o c)
      BY <2>1, <3>3 DEF Open, EndsInCR, Framing!Last
    <3> QED
      BY <2>1, <3>2, <3>4
  <2>2. CASE cr_held /\ c = <<LF>> \o Rest(c)
    <3> DEFINE r == Rest(c)
               u == Append(s, LF)
    <3>1. r \in Seq(Octets) /\ u \in Seq(Octets) /\ LF \in Octets /\ CR \in Octets
      BY <1>1 DEF Octets
    <3>2. ~EndsInCR(u)
      BY DEF EndsInCR, FramingConstants
    <3>3. Framing!Breaks(u) = Framing!Breaks(s)
      <4>1. EndsInCR(s)
        BY <2>2
      <4> QED
        BY <3>1, <4>1, BreakLaws
    <3> HIDE DEF r
    <3>4. s \o c = u \o r
      <4>1. c = <<LF>> \o r
        BY <2>2 DEF r
      <4>2. u = s \o <<LF>> /\ <<LF>> \in Seq(Octets)
        BY <3>1
      <4> HIDE DEF u
      <4> QED
        BY <3>1, <4>1, <4>2, ConcatAssociative
    <3>5. Framing!Breaks(u \o r) = Framing!Breaks(u) \o Framing!Breaks(r)
      BY <3>1, <3>2, BreaksSplit
    <3>6. Open(c) = EndsInCR(u \o r)
      <4>1. CASE r = <<>>
        <5>1. u \o r = u
          BY <3>1, <4>1
        <5> QED
          BY <3>2, <4>1, <5>1 DEF Open, r, EndsInCR
      <4>2. CASE r # <<>>
        <5> HIDE DEF u
        <5>1. u \o r # <<>> /\ (u \o r)[Len(u \o r)] = r[Len(r)]
          BY <3>1, <4>2
        <5> QED
          BY <4>2, <5>1 DEF Open, EndsInCR, Framing!Last, r
      <4> QED
        BY <4>1, <4>2
    <3> HIDE DEF u
    <3>7. Framing!Breaks(s \o c) = Framing!Breaks(s) \o Framing!Breaks(r)
      BY <3>3, <3>4, <3>5
    <3> QED
      BY <3>4, <3>6, <3>7 DEF r
  <2> QED
    BY <1>1, <2>1, <2>2
<1>3. Framing!Breaks(s) \in Seq(Clean) /\ Framing!Breaks(Part(c)) \in Seq(Clean)
  BY <1>1, BreakLaws DEF BreakTypes, Clean
<1>4. CASE Open(c)
  <2>1. Framing!Breaks(Rest(c)) = Append(Framing!Breaks(Part(c)), LF)
    <3>1. CR \in Octets
      BY DEF Octets
    <3> QED
      BY <1>1, <1>4, <3>1, BreakLaws DEF FramingConstants
  <2>2. Append(Framing!Breaks(Part(c)), LF) = Framing!Breaks(Part(c)) \o <<LF>> /\ <<LF>> \in Seq(Clean)
    BY <1>3, AppendIsConcat DEF Clean
  <2>3. Framing!Breaks(s) \o (Framing!Breaks(Part(c)) \o <<LF>>) = Framing!Breaks(s) \o Framing!Breaks(Part(c)) \o <<LF>>
    BY <1>3, <2>2, ConcatAssociative
  <2> QED
    BY <1>2, <1>4, <2>1, <2>2, <2>3 DEF HeldAs
<1>5. CASE ~Open(c)
  <2>1. Part(c) = Rest(c)
    BY <1>5 DEF Part
  <2>2. Framing!Breaks(s) \o Framing!Breaks(Part(c)) \in Seq(Clean)
    BY <1>3, ConcatProperties
  <2>3. Framing!Breaks(s) \o Framing!Breaks(Part(c)) \o <<>> = Framing!Breaks(s) \o Framing!Breaks(Part(c))
    BY <2>2, ConcatEmptySeq
  <2> QED
    BY <1>2, <1>5, <2>1, <2>3 DEF HeldAs
<1> QED
  BY <1>2, <1>4, <1>5

---------------------------------------------------------------------------
(* The terminators that take_framed finds.                                 *)

\* A run of line feeds from offset j up to offset i, and none before it from `from` on.
Run(s, i, from, j) ==
  /\ j \in from .. i /\ \A k \in j .. i : s[k + 1] = LF
  /\ j = from \/ s[j] # LF

\* A run of line feeds has one start.
LEMMA RunIsUnique ==
  ASSUME NEW s, NEW from \in Nat, NEW i \in Nat, NEW j, NEW l, Run(s, i, from, j), Run(s, i, from, l)
  PROVE  j = l
<1>1. ASSUME NEW p, NEW q, Run(s, i, from, p), Run(s, i, from, q), p < q
      PROVE  FALSE
  <2>1. p \in Int /\ q \in Int /\ q - 1 \in p .. i /\ q # from /\ (q - 1) + 1 = q
    BY <1>1 DEF Run
  <2> QED
    BY <1>1, <2>1 DEF Run
<1>2. j \in Int /\ l \in Int
  BY DEF Run
<1> QED
  BY <1>1, <1>2

\* Every line feed is in a run.
LEMMA RunExists ==
  ASSUME NEW s, NEW from \in Nat, NEW i \in Nat, from <= i, s[i + 1] = LF
  PROVE  \E j : Run(s, i, from, j)
<1> DEFINE B == {j \in from .. i : \A k \in j .. i : s[k + 1] = LF}
<1>1. B \subseteq Nat /\ i \in B
  OBVIOUS
<1>2. PICK j \in B : \A k \in B : j <= k
  <2> HIDE DEF B
  <2> QED
    BY <1>1, LeastNatural
<1>3. j = from \/ s[j] # LF
  <2> SUFFICES ASSUME j # from, s[j] = LF  PROVE FALSE
    OBVIOUS
  <2>1. j - 1 \in from .. i
    OBVIOUS
  <2>2. \A k \in (j - 1) .. i : s[k + 1] = LF
    <3> SUFFICES ASSUME NEW k \in (j - 1) .. i  PROVE s[k + 1] = LF
      OBVIOUS
    <3>1. k = j - 1 \/ k \in j .. i
      OBVIOUS
    <3>2. (j - 1) + 1 = j
      OBVIOUS
    <3> QED
      BY <3>1, <3>2
  <2>3. j - 1 \in B
    BY <2>1, <2>2
  <2>4. j <= j - 1 /\ j \in Int
    <3> HIDE DEF B
    <3> QED
      BY <1>1, <1>2, <2>3
  <2> QED
    BY <2>4
<1>4. Run(s, i, from, j)
  BY <1>2, <1>3 DEF Run
<1> QED
  BY <1>4

\* RunStart is the start of the run.
LEMMA RunStartIs ==
  ASSUME NEW s, NEW from \in Nat, NEW i \in Nat, NEW j, Run(s, i, from, j)
  PROVE  Framing!RunStart(s, i, from) = j
<1> DEFINE Q(l) == (\A k \in l .. i : s[k + 1] = LF) /\ (l = from \/ s[l] # LF)
<1>1. Framing!RunStart(s, i, from) = CHOOSE l \in from .. i : Q(l)
  BY DEF Framing!RunStart
<1>2. j \in from .. i /\ Q(j)
  BY DEF Run
<1>3. \A l \in from .. i : Q(l) => l = j
  <2> SUFFICES ASSUME NEW l \in from .. i, Q(l)  PROVE l = j
    OBVIOUS
  <2>1. Run(s, i, from, l)
    BY DEF Run
  <2> QED
    BY <2>1, RunIsUnique
<1> HIDE DEF Q
<1> QED
  BY <1>1, <1>2, <1>3

\* From RunStart on, every byte is a line feed.
LEMMA RunStartRuns ==
  ASSUME NEW s, NEW from \in Nat, NEW i \in Nat, from <= i, s[i + 1] = LF
  PROVE  Run(s, i, from, Framing!RunStart(s, i, from))
BY RunExists, RunStartIs

\* The next offset of a run has the same start.
LEMMA RunGoesOn ==
  ASSUME NEW s, NEW from \in Nat, NEW i \in Nat, from <= i, s[i + 1] = LF, s[i + 2] = LF
  PROVE  Framing!RunStart(s, i + 1, from) = Framing!RunStart(s, i, from)
<1> DEFINE j == Framing!RunStart(s, i, from)
<1>1. Run(s, i, from, j)
  BY RunStartRuns
<1> HIDE DEF j
<1>2. j \in from .. (i + 1) /\ j \in Nat
  BY <1>1 DEF Run
<1>3. ASSUME NEW k \in j .. (i + 1)
      PROVE  s[k + 1] = LF
  <2>1. k \in j .. i \/ k = i + 1
    BY <1>2
  <2>2. k = i + 1 => k + 1 = i + 2
    OBVIOUS
  <2> QED
    BY <1>1, <2>1, <2>2 DEF Run
<1>4. Run(s, i + 1, from, j)
  BY <1>1, <1>2, <1>3 DEF Run
<1>5. i + 1 \in Nat
  OBVIOUS
<1> QED
  BY <1>4, <1>5, RunStartIs DEF j

\* Of two line feeds that meet, the first or the byte before it starts a terminator.
LEMMA TerminatorNear ==
  ASSUME NEW s, Len(s) \in Nat, NEW from \in Nat, NEW i \in Framing!DoubleNewlines(s, from)
  PROVE  i \in Framing!Terminators(s, from) \/ i - 1 \in Framing!Terminators(s, from)
<1> DEFINE j == Framing!RunStart(s, i, from)
<1>1. i \in Nat /\ from <= i /\ i <= Len(s) - 2 /\ s[i + 1] = LF /\ s[i + 2] = LF
  BY DEF Framing!DoubleNewlines
<1>2. Run(s, i, from, j)
  BY <1>1, RunStartRuns
<1> HIDE DEF j
<1>3. j \in from .. i /\ j \in Int
  BY <1>2 DEF Run
<1>4. CASE (i - j) % 2 = 0
  BY <1>4 DEF Framing!Terminators, j
<1>5. CASE (i - j) % 2 # 0
  <2>1. i - 1 \in from .. i /\ i - 1 \in Nat /\ i - 1 \in j .. i /\ (i - 1) + 1 = i /\ (i - 1) + 2 = i + 1
    BY <1>1, <1>3, <1>5
  <2>2. s[(i - 1) + 1] = LF /\ s[(i - 1) + 2] = LF
    <3>1. i \in j .. i
      BY <1>1, <1>3
    <3> QED
      BY <1>2, <2>1, <3>1 DEF Run
  <2>3. i - 1 \in Framing!DoubleNewlines(s, from)
    BY <1>1, <2>1, <2>2 DEF Framing!DoubleNewlines
  <2>4. Framing!RunStart(s, (i - 1) + 1, from) = Framing!RunStart(s, i - 1, from)
    BY <2>1, <2>2, RunGoesOn
  <2>5. Framing!RunStart(s, i - 1, from) = j
    BY <2>1, <2>4 DEF j
  <2>6. ((i - 1) - j) % 2 = 0
    BY <1>1, <1>3, <1>5
  <2> QED
    BY <2>3, <2>5, <2>6 DEF Framing!Terminators
<1> QED
  BY <1>4, <1>5

\* A scan that starts no later than the first of the double line feeds finds the
\* terminators of the whole buffer.
LEMMA ScanFindsAll ==
  ASSUME NEW s, Len(s) \in Nat, NEW from \in Nat, \A i \in Framing!DoubleNewlines(s, 0) : i >= from
  PROVE  /\ Framing!DoubleNewlines(s, from) = Framing!DoubleNewlines(s, 0)
         /\ Framing!Terminators(s, from) = Framing!Terminators(s, 0)
<1>1. Framing!DoubleNewlines(s, from) = Framing!DoubleNewlines(s, 0)
  BY DEF Framing!DoubleNewlines
<1>2. ASSUME NEW i \in Framing!DoubleNewlines(s, from)
      PROVE  Framing!RunStart(s, i, from) = Framing!RunStart(s, i, 0)
  <2> DEFINE j == Framing!RunStart(s, i, from)
  <2>1. i \in Nat /\ from <= i /\ i <= Len(s) - 2 /\ s[i + 1] = LF /\ s[i + 2] = LF
    BY DEF Framing!DoubleNewlines
  <2>2. Run(s, i, from, j)
    BY <2>1, RunStartRuns
  <2> HIDE DEF j
  <2>3. j \in Nat /\ j <= i /\ from <= j
    BY <2>2 DEF Run
  <2>4. j = 0 \/ s[j] # LF
    <3> SUFFICES ASSUME j # 0, s[j] = LF  PROVE FALSE
      OBVIOUS
    <3>1. j = from
      BY <2>2 DEF Run
    <3>2. s[j + 1] = LF
      BY <2>2, <2>3 DEF Run
    <3>3. j - 1 \in 0 .. Len(s) - 2 /\ (j - 1) + 1 = j /\ (j - 1) + 2 = j + 1
      BY <2>1, <2>3
    <3>4. j - 1 \in Framing!DoubleNewlines(s, 0)
      BY <3>2, <3>3 DEF Framing!DoubleNewlines
    <3>5. j - 1 >= from
      BY <3>4
    <3> QED
      BY <2>3, <3>1, <3>5
  <2>5. Run(s, i, 0, j)
    BY <2>2, <2>3, <2>4 DEF Run
  <2> QED
    BY <2>1, <2>5, RunStartIs DEF j
<1> QED
  BY <1>1, <1>2 DEF Framing!Terminators

\* The terminators whose two line feeds are among the first k bytes.
Counted(s, k) == {i \in Framing!Terminators(s, 0) : i + 2 <= k}

\* The k-th byte is a line feed that may be the first of two.
HalfAt(s, k) == k >= 1 /\ s[k] = LF /\ ((k - 1) - Framing!RunStart(s, k - 1, 0)) % 2 = 0

\* A pair is a terminator exactly when its first line feed may be the first of two, and
\* then its second may not.
LEMMA HalfStep ==
  ASSUME NEW s, Len(s) \in Nat, NEW k \in 1 .. Len(s)
  PROVE  /\ HalfAt(s, k) <=> s[k] = LF /\ ~HalfAt(s, k - 1)
         /\ k - 2 \in Framing!Terminators(s, 0) <=> s[k] = LF /\ HalfAt(s, k - 1)
<1>0. k \in Nat /\ k >= 1 /\ k - 1 \in Nat /\ (k - 1) + 1 = k
  OBVIOUS
<1>1. k - 2 \in Framing!Terminators(s, 0) <=> s[k] = LF /\ HalfAt(s, k - 1)
  <2>1. (k - 2) + 1 = k - 1 /\ (k - 2) + 2 = k /\ (k - 1) - 1 = k - 2
    OBVIOUS
  <2>2. k - 2 \in Framing!DoubleNewlines(s, 0) <=> k >= 2 /\ s[k - 1] = LF /\ s[k] = LF
    BY <2>1 DEF Framing!DoubleNewlines
  <2>3. k - 2 \in Framing!Terminators(s, 0)
          <=> k - 2 \in Framing!DoubleNewlines(s, 0) /\ ((k - 2) - Framing!RunStart(s, k - 2, 0)) % 2 = 0
    BY DEF Framing!Terminators
  <2>4. HalfAt(s, k - 1) <=> k >= 2 /\ s[k - 1] = LF /\ ((k - 2) - Framing!RunStart(s, k - 2, 0)) % 2 = 0
    BY <2>1, <1>0 DEF HalfAt
  <2> QED
    BY <2>2, <2>3, <2>4
<1>2. CASE s[k] # LF
  BY <1>1, <1>2 DEF HalfAt
<1>3. CASE s[k] = LF /\ (k = 1 \/ s[k - 1] # LF)
  <2>1. ~HalfAt(s, k - 1)
    BY <1>3 DEF HalfAt
  <2>2. Run(s, k - 1, 0, k - 1)
    <3>1. \A l \in (k - 1) .. (k - 1) : l = k - 1
      OBVIOUS
    <3> QED
      BY <1>0, <1>3, <3>1 DEF Run
  <2>3. Framing!RunStart(s, k - 1, 0) = k - 1
    BY <1>0, <2>2, RunStartIs
  <2>4. HalfAt(s, k)
    BY <1>0, <1>3, <2>3 DEF HalfAt
  <2> QED
    BY <1>1, <1>3, <2>1, <2>4
<1>4. CASE s[k] = LF /\ k # 1 /\ s[k - 1] = LF
  <2> DEFINE j == Framing!RunStart(s, k - 2, 0)
  <2>1. k - 2 \in Nat /\ (k - 2) + 1 = k - 1 /\ (k - 2) + 2 = k /\ 0 <= k - 2 /\ (k - 1) - 1 = k - 2
    BY <1>4
  <2>2. Framing!RunStart(s, (k - 2) + 1, 0) = j
    BY <1>4, <2>1, RunGoesOn
  <2>3. Framing!RunStart(s, k - 1, 0) = j
    BY <2>1, <2>2
  <2>4. j \in Nat /\ j <= k - 2
    <3>1. Run(s, k - 2, 0, j)
      BY <1>4, <2>1, RunStartRuns
    <3> HIDE DEF j
    <3> QED
      BY <2>1, <3>1 DEF Run
  <2>5. HalfAt(s, k) <=> ((k - 1) - j) % 2 = 0
    BY <1>4, <1>0, <2>3 DEF HalfAt
  <2>6. HalfAt(s, k - 1) <=> ((k - 2) - j) % 2 = 0
    BY <1>4, <1>0, <2>1 DEF HalfAt
  <2> HIDE DEF j
  <2>7. ((k - 1) - j) % 2 = 0 <=> ~(((k - 2) - j) % 2 = 0)
    BY <2>1, <2>4
  <2> QED
    BY <1>1, <1>4, <2>5, <2>6, <2>7
<1> QED
  BY <1>2, <1>3, <1>4

\* Every terminator is a natural number, two bytes from the end or more.
LEMMA CountedIsFinite ==
  ASSUME NEW s, Len(s) \in Nat, NEW k
  PROVE  /\ Framing!Terminators(s, 0) \subseteq 0 .. Len(s) - 2
         /\ IsFiniteSet(Counted(s, k)) /\ Cardinality(Counted(s, k)) \in Nat
<1>1. Framing!Terminators(s, 0) \subseteq 0 .. Len(s) - 2
  BY DEF Framing!Terminators, Framing!DoubleNewlines
<1>2. Counted(s, k) \subseteq 0 .. Len(s) - 2
  BY <1>1 DEF Counted
<1>3. IsFiniteSet(0 .. Len(s) - 2)
  <2>1. 0 \in Int /\ Len(s) - 2 \in Int
    OBVIOUS
  <2> QED
    BY <2>1, FS_Interval
<1>4. IsFiniteSet(Counted(s, k))
  BY <1>2, <1>3, FS_Subset
<1> QED
  BY <1>1, <1>4, FS_CardinalityType

\* One more byte completes one more terminator or none.
LEMMA CountedStep ==
  ASSUME NEW s, Len(s) \in Nat, NEW k \in 1 .. Len(s)
  PROVE  Cardinality(Counted(s, k))
           = IF k - 2 \in Framing!Terminators(s, 0) THEN Cardinality(Counted(s, k - 1)) + 1
             ELSE Cardinality(Counted(s, k - 1))
<1>0. Framing!Terminators(s, 0) \subseteq Int
  BY CountedIsFinite
<1>1. CASE k - 2 \in Framing!Terminators(s, 0)
  <2>1. Counted(s, k) = Counted(s, k - 1) \cup {k - 2} /\ k - 2 \notin Counted(s, k - 1)
    BY <1>0, <1>1 DEF Counted
  <2>2. IsFiniteSet(Counted(s, k - 1))
    BY CountedIsFinite
  <2> QED
    BY <1>1, <2>1, <2>2, FS_AddElement
<1>2. CASE k - 2 \notin Framing!Terminators(s, 0)
  <2>1. Counted(s, k) = Counted(s, k - 1)
    BY <1>0, <1>2 DEF Counted
  <2> QED
    BY <1>2, <2>1
<1> QED
  BY <1>1, <1>2

\* After o, at an event's end, the blank lines of s are counted where the terminators are.
LEMMA CountPrefix ==
  ASSUME FramingConstants, NEW o \in Seq(Clean), NEW s \in Seq(Clean), NEW e \in Nat,
         BlankState(o) = [n |-> e, half |-> FALSE], NEW m \in 0 .. Len(s)
  PROVE  BlankState(o \o SubSeq(s, 1, m)) = [n |-> e + Cardinality(Counted(s, m)), half |-> HalfAt(s, m)]
<1> DEFINE At(k) == [n |-> e + Cardinality(Counted(s, k)), half |-> HalfAt(s, k)]
           Bad == {k \in 0 .. Len(s) : BlankState(o \o SubSeq(s, 1, k)) # At(k)}
<1>1. Len(s) \in Nat
  OBVIOUS
<1>2. BlankState(o \o SubSeq(s, 1, 0)) = At(0)
  <2>1. SubSeq(s, 1, 0) = <<>> /\ o \o <<>> = o
    BY SubSeqEmpty, ConcatEmptySeq
  <2>2. Counted(s, 0) = {}
    <3>1. \A i \in Framing!Terminators(s, 0) : i \in Int /\ i >= 0
      BY <1>1, CountedIsFinite
    <3> QED
      BY <3>1 DEF Counted
  <2>3. Cardinality(Counted(s, 0)) = 0
    BY <2>2, FS_EmptySet
  <2>4. HalfAt(s, 0) = FALSE
    BY DEF HalfAt
  <2>5. At(0) = [n |-> e, half |-> FALSE]
    <3>1. e + Cardinality(Counted(s, 0)) = e
      BY <2>3
    <3> QED
      BY <2>4, <3>1
  <2> QED
    BY <2>1, <2>5
<1>3. ASSUME NEW k \in 1 .. Len(s), BlankState(o \o SubSeq(s, 1, k - 1)) = At(k - 1)
      PROVE  BlankState(o \o SubSeq(s, 1, k)) = At(k)
  <2> DEFINE t == SubSeq(s, 1, k - 1)
             c == Cardinality(Counted(s, k - 1))
  <2>1. t \in Seq(Clean) /\ s[k] \in Clean /\ SubSeq(s, 1, k) = Append(t, s[k])
    BY PrefixStep
  <2> HIDE DEF t
  <2>2. o \o Append(t, s[k]) = Append(o \o t, s[k]) /\ o \o t \in Seq(Clean)
    BY <2>1, AppendConcat
  <2>3. o \o t \in Seq(Octets) /\ s[k] \in Octets
    BY <2>1, <2>2, CleanIsOctets DEF Clean, Octets
  <2>4. BlankState(o \o SubSeq(s, 1, k)) = BlankStep(BlankState(o \o t), s[k])
    BY <2>1, <2>2, <2>3, BlankLaws
  <2>5. BlankState(o \o t) = [n |-> e + c, half |-> HalfAt(s, k - 1)]
    BY <1>3 DEF t
  <2>6. c \in Nat
    BY <1>1, CountedIsFinite
  <2>7. Cardinality(Counted(s, k)) = IF k - 2 \in Framing!Terminators(s, 0) THEN c + 1 ELSE c
    BY <1>1, CountedStep
  <2>8. /\ HalfAt(s, k) <=> s[k] = LF /\ ~HalfAt(s, k - 1)
        /\ k - 2 \in Framing!Terminators(s, 0) <=> s[k] = LF /\ HalfAt(s, k - 1)
    BY <1>1, HalfStep
  <2> HIDE DEF c
  <2>9. CASE s[k] # LF
    <3>1. HalfAt(s, k) = FALSE
      BY <2>9 DEF HalfAt
    <3>2. BlankStep(BlankState(o \o t), s[k]) = [n |-> e + c, half |-> FALSE]
      BY <2>5, <2>9 DEF BlankStep
    <3> QED
      BY <2>4, <2>7, <2>8, <2>9, <3>1, <3>2
  <2>10. CASE s[k] = LF /\ HalfAt(s, k - 1)
    <3>1. HalfAt(s, k) = FALSE
      BY <2>8, <2>10 DEF HalfAt
    <3>2. BlankStep(BlankState(o \o t), s[k]) = [n |-> e + c + 1, half |-> FALSE]
      BY <2>5, <2>10 DEF BlankStep
    <3>3. e + c + 1 = e + Cardinality(Counted(s, k))
      BY <2>6, <2>7, <2>8, <2>10
    <3> QED
      BY <2>4, <3>1, <3>2, <3>3
  <2>11. CASE s[k] = LF /\ ~HalfAt(s, k - 1)
    <3>1. HalfAt(s, k) = TRUE
      BY <2>8, <2>11 DEF HalfAt
    <3>2. BlankStep(BlankState(o \o t), s[k]) = [n |-> e + c, half |-> TRUE]
      BY <2>5, <2>11 DEF BlankStep
    <3> QED
      BY <2>4, <2>7, <2>8, <2>11, <3>1, <3>2
  <2> QED
    BY <2>9, <2>10, <2>11
<1> HIDE DEF At
<1>4. SUFFICES ASSUME Bad # {}  PROVE FALSE
  BY DEF At
<1>5. PICK k \in Bad : \A j \in Bad : k <= j
  <2>1. Bad \subseteq Nat
    OBVIOUS
  <2> HIDE DEF Bad
  <2> QED
    BY <1>4, <2>1, LeastNatural
<1>6. k \in 1 .. Len(s) /\ k - 1 \in 0 .. Len(s)
  BY <1>1, <1>2, <1>5
<1>7. k - 1 \notin Bad
  <2> HIDE DEF Bad
  <2> QED
    BY <1>1, <1>5, <1>6
<1> QED
  BY <1>3, <1>5, <1>6, <1>7

\* What take_framed adds to its counter when it releases up to the last terminator is
\* what the released bytes add to the blank lines, and none is left half complete.
LEMMA CountReleased ==
  ASSUME FramingConstants, NEW o \in Seq(Clean), NEW s \in Seq(Clean), NEW e \in Nat,
         BlankState(o) = [n |-> e, half |-> FALSE],
         NEW last \in Framing!Terminators(s, 0), \A j \in Framing!Terminators(s, 0) : j <= last
  PROVE  BlankState(o \o SubSeq(s, 1, last + 2))
           = [n |-> e + Cardinality(Framing!Terminators(s, 0)), half |-> FALSE]
<1>1. Len(s) \in Nat
  OBVIOUS
<1>2. Framing!Terminators(s, 0) \subseteq 0 .. Len(s) - 2
  BY <1>1, CountedIsFinite
<1>3. last \in Int /\ last + 2 \in 1 .. Len(s) /\ last + 2 \in 0 .. Len(s) /\ (last + 2) - 2 = last
  BY <1>1, <1>2
<1>4. Counted(s, last + 2) = Framing!Terminators(s, 0)
  BY <1>2, <1>3 DEF Counted
<1>5. HalfAt(s, last + 2) = FALSE
  <2>1. HalfAt(s, (last + 2) - 1)
    BY <1>1, <1>3, HalfStep
  <2> QED
    BY <1>1, <1>3, <2>1, HalfStep DEF HalfAt
<1>6. BlankState(o \o SubSeq(s, 1, last + 2))
        = [n |-> e + Cardinality(Counted(s, last + 2)), half |-> HalfAt(s, last + 2)]
  BY <1>3, CountPrefix
<1> QED
  BY <1>4, <1>5, <1>6

---------------------------------------------------------------------------
(* The framer's invariant.                                                 *)

FramingTypes ==
  /\ pending \in Seq(Clean) /\ output \in Seq(Clean) /\ input \in Seq(Octets)
  /\ scan_from \in Nat /\ cr_held \in BOOLEAN
  /\ pc \in {"take", "pull", "ended"} /\ events \in Nat /\ made_up \in Nat

\* Until a blank line is made up, nothing is lost, and the held CR is the last byte.
LineInv ==
  /\ made_up = 0 => /\ output \o pending \o HeldAs(cr_held) = Framing!Breaks(input)
                    /\ pc # "ended" => cr_held = EndsInCR(input)
  /\ Framing!Payload(output \o pending) = Framing!Payload(input)

\* What is not scanned again holds no double line feed.
ScanInv ==
  /\ pc = "take" => /\ scan_from <= Framing!Frontier(pending)
                    /\ \A i \in Framing!DoubleNewlines(pending, 0) : i >= scan_from
  /\ pc = "pull" => /\ scan_from = Framing!Frontier(pending)
                    /\ Framing!DoubleNewlines(pending, 0) = {}
                    /\ Len(pending) <= HighWater

\* The counter is at the blank lines that were released, and none is half released.
CountInv ==
  made_up = 0 /\ pc # "ended" => BlankState(output) = [n |-> events, half |-> FALSE]

FramingInv == FramingTypes /\ LineInv /\ ScanInv /\ CountInv

\* The invariant gives what the run checks.
LEMMA FramingInvImplies ==
  ASSUME FramingConstants, FramingInv
  PROVE  FramingIsExact
<1>1. Framing!LinesPreserved
  <2>1. Framing!Normalized(input) = Framing!Breaks(input)
    <3>1. Framing!Normalized(input) = NormState(input).out
      BY DEF NormState, Framing!Normalized
    <3> QED
      BY <3>1, NormIsBreaks DEF FramingInv, FramingTypes
  <2>2. Framing!Held = HeldAs(cr_held)
    BY DEF Framing!Held, HeldAs
  <2> QED
    BY <2>1, <2>2 DEF Framing!LinesPreserved, FramingInv, LineInv
<1>2. Framing!ScanSkipsNothing
  BY DEF Framing!ScanSkipsNothing, FramingInv, ScanInv
<1>3. Framing!EventsCountBlankLines
  <2>1. Framing!BlankLines(output) = BlankState(output).n
    BY DEF Framing!BlankLines, BlankState
  <2> QED
    BY <2>1 DEF Framing!EventsCountBlankLines, FramingInv, CountInv
<1>4. Framing!NothingHeldBack
  BY DEF Framing!NothingHeldBack, FramingInv, ScanInv
<1> QED
  BY <1>1, <1>2, <1>3, <1>4 DEF FramingIsExact

\* An empty buffer has no double line feeds.
LEMMA EmptyBuffer ==
  /\ Framing!DoubleNewlines(<<>>, 0) = {} /\ Framing!Frontier(<<>>) = 0 /\ Len(<<>>) = 0
BY DEF Framing!DoubleNewlines, Framing!Frontier

\* The frontier is a place in the buffer.
LEMMA FrontierType ==
  ASSUME NEW S, NEW s \in Seq(S)
  PROVE  Framing!Frontier(s) \in Nat /\ Framing!Frontier(s) <= Len(s) /\ Len(s) \in Nat
         /\ Len(s) - 1 <= Framing!Frontier(s)
BY DEF Framing!Frontier

\* The invariant holds of an empty framer.
LEMMA FramingStarts ==
  ASSUME FramingConstants, Framing!Init
  PROVE  FramingInv
<1>1. /\ pending = <<>> /\ scan_from = 0 /\ cr_held = FALSE /\ pc = "take" /\ events = 0
      /\ input = <<>> /\ output = <<>> /\ made_up = 0
  BY DEF Framing!Init
<1>2. <<>> \in Seq(Clean) /\ <<>> \in Seq(Octets) /\ <<>> \o <<>> = <<>>
  BY ConcatEmptySeq
<1>3. FramingTypes
  BY <1>1, <1>2 DEF FramingTypes
<1>4. LineInv
  <2>1. Framing!Breaks(<<>>) = <<>>
    BY BreakLaws DEF BreakZero
  <2>2. EndsInCR(<<>>) = FALSE
    BY DEF EndsInCR
  <2> QED
    BY <1>1, <1>2, <2>1, <2>2 DEF LineInv, HeldAs
<1>5. ScanInv
  BY <1>1, EmptyBuffer DEF ScanInv
<1>6. CountInv
  BY <1>1, BlankLaws DEF CountInv, BlankZero
<1> QED
  BY <1>3, <1>4, <1>5, <1>6 DEF FramingInv

---------------------------------------------------------------------------
(* take_framed.                                                            *)

\* The cardinality that StreamFraming takes is that of FiniteSets.
LEMMA FramingCardinality ==
  ASSUME NEW S
  PROVE  Framing!Cardinality(S) = Cardinality(S)
BY DEF Framing!Cardinality, Cardinality, Framing!IsFiniteSet, IsFiniteSet

\* A set of terminators that is not empty has a last one.
LEMMA LastTerminator ==
  ASSUME NEW s, Len(s) \in Nat, Framing!Terminators(s, 0) # {}
  PROVE  \E l \in Framing!Terminators(s, 0) : \A j \in Framing!Terminators(s, 0) : j <= l
<1> DEFINE T == Framing!Terminators(s, 0)
           B == {Len(s) - i : i \in T}
<1>1. T \subseteq 0 .. Len(s) - 2
  BY CountedIsFinite
<1> HIDE DEF T
<1>2. B \subseteq Nat /\ B # {}
  BY <1>1 DEF T
<1>3. PICK b \in B : \A c \in B : b <= c
  <2> HIDE DEF B
  <2> QED
    BY <1>2, LeastNatural
<1>4. PICK l \in T : b = Len(s) - l
  BY <1>3
<1>5. ASSUME NEW j \in T  PROVE j <= l
  <2>1. Len(s) - l <= Len(s) - j
    BY <1>3, <1>4
  <2> QED
    BY <1>1, <2>1
<1> QED
  BY <1>4, <1>5 DEF T

\* Behind the last terminator no two line feeds meet.
LEMMA NothingBehindLast ==
  ASSUME NEW s \in Seq(Clean), NEW last \in Framing!Terminators(s, 0),
         \A j \in Framing!Terminators(s, 0) : j <= last
  PROVE  Framing!DoubleNewlines(SubSeq(s, last + 3, Len(s)), 0) = {}
<1> DEFINE r == SubSeq(s, last + 3, Len(s))
<1>1. Len(s) \in Nat /\ Framing!Terminators(s, 0) \subseteq 0 .. Len(s) - 2
  BY CountedIsFinite
<1>2. last \in Nat /\ last <= Len(s) - 2
  BY <1>1
<1>3. Len(r) = Len(s) - (last + 2) /\ \A i \in 1 .. Len(r) : r[i] = s[i + (last + 2)]
  <2>1. last + 3 \in 1 .. Len(s) + 1 /\ Len(s) \in (last + 3) - 1 .. Len(s)
    BY <1>1, <1>2
  <2> QED
    BY <1>1, <1>2
<1> HIDE DEF r
<1>4. SUFFICES ASSUME NEW i \in Framing!DoubleNewlines(r, 0)  PROVE FALSE
  BY DEF r
<1>5. i \in Nat /\ i + 2 <= Len(r) /\ r[i + 1] = LF /\ r[i + 2] = LF
  BY <1>1, <1>2, <1>3 DEF Framing!DoubleNewlines
<1>6. i + 1 \in 1 .. Len(r) /\ i + 2 \in 1 .. Len(r)
  BY <1>1, <1>2, <1>3, <1>5
<1> DEFINE d == i + (last + 2)
<1>7. (i + 1) + (last + 2) = d + 1 /\ (i + 2) + (last + 2) = d + 2 /\ d \in 0 .. Len(s) - 2
  BY <1>1, <1>2, <1>3, <1>5
<1>8. s[d + 1] = LF /\ s[d + 2] = LF
  BY <1>3, <1>5, <1>6, <1>7
<1>9. d \in Framing!DoubleNewlines(s, 0)
  BY <1>7, <1>8 DEF Framing!DoubleNewlines
<1>10. d \in Framing!Terminators(s, 0) \/ d - 1 \in Framing!Terminators(s, 0)
  <2> HIDE DEF d
  <2> QED
    BY <1>1, <1>9, TerminatorNear
<1> QED
  BY <1>2, <1>5, <1>10

\* The buffer in two parts, the first of which is released, is the buffer.
Splits(S, o, s, m) ==
  /\ SubSeq(s, 1, m) \in Seq(S) /\ SubSeq(s, m + 1, Len(s)) \in Seq(S)
  /\ o \o SubSeq(s, 1, m) \in Seq(S)
  /\ (o \o SubSeq(s, 1, m)) \o SubSeq(s, m + 1, Len(s)) = o \o s

\* Wherever the buffer is cut, its two parts are the buffer.
LEMMA SplitBuffer ==
  ASSUME NEW S, NEW o \in Seq(S), NEW s \in Seq(S), NEW m \in 0 .. Len(s)
  PROVE  Splits(S, o, s, m)
<1> DEFINE a == SubSeq(s, 1, m)
           b == SubSeq(s, m + 1, Len(s))
<1>1. a \in Seq(S) /\ b \in Seq(S)
  BY SubSeqProperties
<1>2. a \o b = s
  <2>1. a \o b = SubSeq(s, 1, Len(s))
    <3>1. 1 \in 1 .. Len(s) + 1 /\ m \in 1 - 1 .. Len(s) /\ Len(s) \in m .. Len(s)
      OBVIOUS
    <3> QED
      BY <3>1, ConcatAdjacentSubSeq
  <2> QED
    BY <2>1, SubSeqFull
<1> HIDE DEF a, b
<1>3. (o \o a) \o b = o \o (a \o b) /\ o \o a \in Seq(S)
  <2>1. PICK x \in Seq(S), y \in Seq(S) : x = a /\ y = b
    BY <1>1
  <2>2. Joined(S, o, x, y)
    BY Joins
  <2> QED
    BY <2>1, <2>2 DEF Joined
<1> QED
  BY <1>1, <1>2, <1>3 DEF a, b, Splits

\* Complete events are released.
LEMMA FramingTakeEvents ==
  ASSUME FramingConstants, FramingInv, pc = "take", UNCHANGED input,
         Framing!Terminators(pending, 0) # {}, Framing!TakeEvents(Framing!Terminators(pending, 0))
  PROVE  FramingInv'
<1> DEFINE T == Framing!Terminators(pending, 0)
           last == CHOOSE i \in T : \A j \in T : j <= i
           rest == SubSeq(pending, last + 3, Len(pending))
<1>0. pending \in Seq(Clean) /\ output \in Seq(Clean) /\ Len(pending) \in Nat
  BY DEF FramingInv, FramingTypes
<1>1. last \in T /\ \A j \in T : j <= last
  BY <1>0, LastTerminator
<1>2. T \subseteq 0 .. Len(pending) - 2
  BY <1>0, CountedIsFinite
<1>3. /\ output' = output \o SubSeq(pending, 1, last + 2)
      /\ pending' = SubSeq(pending, (last + 2) + 1, Len(pending))
      /\ scan_from' = Framing!Frontier(pending')
      /\ events' = events + Framing!Cardinality(T)
      /\ UNCHANGED <<cr_held, pc, made_up>>
  BY DEF Framing!TakeEvents, Framing!Frontier
<1> HIDE DEF last
<1>4. last \in Nat /\ last + 2 \in 0 .. Len(pending) /\ (last + 2) + 1 = last + 3
  BY <1>0, <1>1, <1>2
<1>5. /\ pending' \in Seq(Clean) /\ output' \in Seq(Clean)
      /\ output' \o pending' = output \o pending
  <2> DEFINE m == last + 2
  <2>1. Splits(Clean, output, pending, m)
    <3>1. m \in 0 .. Len(pending)
      BY <1>4
    <3> HIDE DEF m
    <3> QED
      BY <1>0, <3>1, SplitBuffer
  <2> QED
    BY <1>3, <2>1 DEF Splits
<1>6. events' = events + Cardinality(T) /\ Cardinality(T) \in Nat
  <2>1. Framing!Cardinality(T) = Cardinality(T)
    BY FramingCardinality
  <2>2. IsFiniteSet(T)
    <3>1. 0 \in Int /\ Len(pending) - 2 \in Int
      BY <1>0
    <3>2. IsFiniteSet(0 .. Len(pending) - 2)
      BY <3>1, FS_Interval
    <3> HIDE DEF T
    <3> QED
      BY <1>2, <3>2, FS_Subset
  <2> QED
    BY <1>3, <2>1, <2>2, FS_CardinalityType
<1>7. FramingTypes'
  <2>1. scan_from' \in Nat
    BY <1>3, <1>5, FrontierType
  <2> QED
    <3>1. input' \in Seq(Octets) /\ cr_held' \in BOOLEAN /\ pc' \in {"take", "pull", "ended"} /\ made_up' \in Nat
      BY <1>3 DEF FramingInv, FramingTypes
    <3>2. events' \in Nat
      BY <1>6 DEF FramingInv, FramingTypes
    <3> QED
      BY <1>5, <2>1, <3>1, <3>2 DEF FramingTypes
<1>8. LineInv'
  BY <1>3, <1>5 DEF FramingInv, LineInv, HeldAs
<1>9. ScanInv'
  <2>1. Framing!DoubleNewlines(pending', 0) = {}
    BY <1>0, <1>1, <1>3, <1>4, NothingBehindLast
  <2>2. Framing!Frontier(pending') \in Nat
    BY <1>5, FrontierType
  <2> QED
    <3>1. pc' = "take" /\ scan_from' <= Framing!Frontier(pending')
      BY <1>3, <2>2
    <3> QED
      BY <2>1, <3>1 DEF ScanInv
<1>10. CountInv'
  <2> SUFFICES ASSUME made_up = 0  PROVE BlankState(output') = [n |-> events', half |-> FALSE]
    BY <1>3 DEF CountInv
  <2>1. BlankState(output) = [n |-> events, half |-> FALSE] /\ events \in Nat
    BY DEF FramingInv, CountInv, FramingTypes
  <2>2. BlankState(output \o SubSeq(pending, 1, last + 2)) = [n |-> events + Cardinality(T), half |-> FALSE]
    BY <1>0, <1>1, <2>1, CountReleased
  <2> QED
    BY <1>3, <1>6, <2>2
<1> QED
  BY <1>7, <1>8, <1>9, <1>10 DEF FramingInv

\* What is held, and the blank line that is made up, are normalized.
LEMMA HeldType ==
  ASSUME NEW b
  PROVE  HeldAs(b) \in Seq(Clean) /\ <<LF, LF>> \in Seq(Clean) /\ <<>> \in Seq(Clean)
<1>1. LF \in Clean
  BY DEF Clean
<1>2. <<LF>> \in Seq(Clean) /\ <<LF, LF>> \in Seq(Clean) /\ <<>> \in Seq(Clean)
  BY <1>1
<1> QED
  BY <1>2 DEF HeldAs

\* A block above the high-water mark is released with a blank line of its own.
LEMMA FramingForceFlush ==
  ASSUME FramingConstants, FramingInv, pc = "take", UNCHANGED input, Framing!ForceFlush
  PROVE  FramingInv'
<1> DEFINE h == HeldAs(cr_held)
           made == output \o pending \o h \o <<LF, LF>>
<1>0. /\ pending \in Seq(Clean) /\ output \in Seq(Clean) /\ h \in Seq(Clean) /\ <<LF, LF>> \in Seq(Clean)
      /\ made_up \in Nat /\ events \in Nat
  BY HeldType DEF FramingInv, FramingTypes
<1>1. /\ output' = made
      /\ pending' = <<>> /\ scan_from' = 0 /\ cr_held' = FALSE
      /\ events' = events + 1 /\ made_up' = made_up + 1
      /\ pc' = "take" /\ input' = input
  BY DEF Framing!ForceFlush, HeldAs
<1>2. made \in Seq(Clean) /\ Framing!Payload(made) = Framing!Payload(output \o pending)
  <2> HIDE DEF h
  <2>1. output \o pending \in Seq(Clean)
    BY <1>0, Associative
  <2> DEFINE op == output \o pending
             oph == op \o h
  <2> HIDE DEF op
  <2>2. oph \in Seq(Clean)
    BY <1>0, <2>1, Associative DEF op
  <2> HIDE DEF oph
  <2>3. oph \o <<LF, LF>> \in Seq(Clean)
    BY <1>0, <2>2, Associative
  <2>4. op \in Seq(Octets) /\ oph \in Seq(Octets) /\ h \in Seq(Octets) /\ <<LF, LF>> \in Seq(Octets)
    BY <1>0, <2>1, <2>2, CleanIsOctets DEF op
  <2>5. Framing!Payload(oph) = Framing!Payload(op) \o Framing!Payload(h)
    BY <2>4, PayloadSplit DEF oph
  <2>6. Framing!Payload(oph \o <<LF, LF>>) = Framing!Payload(oph) \o Framing!Payload(<<LF, LF>>)
    BY <2>4, PayloadSplit
  <2>7. Framing!Payload(h) = <<>> /\ Framing!Payload(<<LF, LF>>) = <<>>
    BY PayloadOfBreak DEF h, HeldAs
  <2>8. Framing!Payload(op) \in Seq({X})
    BY <2>4, PayloadLaws DEF PayloadTypes
  <2>9. Framing!Payload(op) \o <<>> = Framing!Payload(op)
    BY <2>8, ConcatEmptySeq
  <2>10. Framing!Payload(oph \o <<LF, LF>>) = Framing!Payload(op)
    BY <2>5, <2>6, <2>7, <2>9
  <2> QED
    BY <2>3, <2>10 DEF op, oph
<1> HIDE DEF made, h
<1>3. FramingTypes'
  <2>1. pending' \in Seq(Clean) /\ input' \in Seq(Octets) /\ output' \in Seq(Clean)
    BY <1>1, <1>2, HeldType DEF FramingInv, FramingTypes
  <2>2. events' \in Nat /\ made_up' \in Nat /\ scan_from' \in Nat
    BY <1>0, <1>1
  <2> QED
    BY <1>1, <2>1, <2>2 DEF FramingTypes
<1>4. LineInv'
  <2>1. made_up' # 0
    BY <1>0, <1>1
  <2>2. output' \o pending' = made
    BY <1>1, <1>2, ConcatEmptySeq
  <2>3. Framing!Payload(output' \o pending') = Framing!Payload(input')
    BY <1>1, <1>2, <2>2 DEF FramingInv, LineInv
  <2> QED
    BY <2>1, <2>3 DEF LineInv
<1>5. ScanInv'
  BY <1>1, EmptyBuffer DEF ScanInv
<1>6. CountInv'
  <2>1. made_up' # 0
    BY <1>0, <1>1
  <2> QED
    BY <2>1 DEF CountInv
<1> QED
  BY <1>3, <1>4, <1>5, <1>6 DEF FramingInv

\* Nothing is complete: the backend is asked for more.
LEMMA FramingTakeNothing ==
  ASSUME FramingConstants, FramingInv, pc = "take", UNCHANGED input, Framing!TakeNothing,
         Framing!DoubleNewlines(pending, 0) = {}, Len(pending) <= HighWater
  PROVE  FramingInv'
<1>1. /\ scan_from' = Framing!Frontier(pending) /\ pc' = "pull" /\ pending' = pending /\ cr_held' = cr_held
      /\ events' = events /\ output' = output /\ made_up' = made_up /\ input' = input
  BY DEF Framing!TakeNothing
<1>2. Framing!Frontier(pending) \in Nat
  BY FrontierType DEF FramingInv, FramingTypes
<1>3. FramingTypes'
  BY <1>1, <1>2 DEF FramingInv, FramingTypes
<1>4. LineInv'
  BY <1>1 DEF FramingInv, LineInv
<1>5. ScanInv'
  BY <1>1 DEF ScanInv
<1>6. CountInv'
  BY <1>1 DEF FramingInv, CountInv
<1> QED
  BY <1>3, <1>4, <1>5, <1>6 DEF FramingInv

\* One turn of take_framed: the scan finds the terminators of the whole buffer.
LEMMA FramingTake ==
  ASSUME FramingConstants, FramingInv, Framing!Take
  PROVE  FramingInv'
<1>1. pending \in Seq(Clean) /\ scan_from \in Nat /\ Len(pending) \in Nat /\ pc = "take" /\ UNCHANGED input
  BY DEF FramingInv, FramingTypes, Framing!Take
<1>2. scan_from <= Framing!Frontier(pending) /\ \A i \in Framing!DoubleNewlines(pending, 0) : i >= scan_from
  BY <1>1 DEF FramingInv, ScanInv
<1>3. (IF scan_from < Framing!Frontier(pending) THEN scan_from ELSE Framing!Frontier(pending)) = scan_from
  <2>1. Framing!Frontier(pending) \in Nat
    BY <1>1, FrontierType
  <2> QED
    BY <1>1, <1>2, <2>1
<1>4. Framing!Terminators(pending, scan_from) = Framing!Terminators(pending, 0)
  BY <1>1, <1>2, ScanFindsAll
<1> DEFINE T == Framing!Terminators(pending, 0)
<1>5. \/ T # {} /\ Framing!TakeEvents(T)
      \/ T = {} /\ Len(pending) > HighWater /\ Framing!ForceFlush
      \/ T = {} /\ Len(pending) <= HighWater /\ Framing!TakeNothing
  BY <1>3, <1>4 DEF Framing!Take
<1>6. T = {} => Framing!DoubleNewlines(pending, 0) = {}
  BY <1>1, TerminatorNear
<1> QED
  BY <1>1, <1>5, <1>6, FramingTakeEvents, FramingForceFlush, FramingTakeNothing

\* A chunk is not empty.
LEMMA ChunkType ==
  ASSUME NEW c \in Framing!Chunks
  PROVE  c \in Seq(Octets) /\ c # <<>> /\ Len(c) \in Nat
<1>1. PICK n \in 1 .. MaxChunk : c \in [1 .. n -> Octets]
  BY DEF Framing!Chunks, Framing!Bytes, Octets
<1>2. n \in Nat /\ n >= 1
  OBVIOUS
<1>3. c \in Seq(Octets) /\ Len(c) = n
  BY <1>1, <1>2
<1> QED
  BY <1>2, <1>3

\* More bytes behind the buffer complete no pair before its last byte.
LEMMA LongerBuffer ==
  ASSUME NEW s \in Seq(Clean), NEW t \in Seq(Clean), Framing!DoubleNewlines(s, 0) = {}
  PROVE  /\ Framing!Frontier(s) <= Framing!Frontier(s \o t)
         /\ \A i \in Framing!DoubleNewlines(s \o t, 0) : i >= Framing!Frontier(s)
<1> DEFINE u == s \o t
<1>1. Len(s) \in Nat /\ Len(t) \in Nat /\ Len(u) = Len(s) + Len(t) /\ \A i \in 1 .. Len(s) : u[i] = s[i]
  OBVIOUS
<1>2. s # <<>> => u # <<>> /\ Len(s) >= 1
  OBVIOUS
<1> HIDE DEF u
<1>3. Framing!Frontier(s) <= Framing!Frontier(u)
  <2>1. u # <<>> => Len(u) >= 1
    BY DEF u
  <2> QED
    BY <1>1, <1>2, <2>1 DEF Framing!Frontier
<1>4. ASSUME NEW i \in Framing!DoubleNewlines(u, 0), i < Framing!Frontier(s)
      PROVE  FALSE
  <2>1. i \in Nat /\ u[i + 1] = LF /\ u[i + 2] = LF
    BY <1>1 DEF Framing!DoubleNewlines
  <2>2. i + 2 <= Len(s)
    BY <1>1, <1>2, <1>4, <2>1 DEF Framing!Frontier
  <2>3. i + 1 \in 1 .. Len(s) /\ i + 2 \in 1 .. Len(s) /\ i \in 0 .. Len(s) - 2
    BY <1>1, <2>1, <2>2
  <2>4. s[i + 1] = LF /\ s[i + 2] = LF
    BY <1>1, <2>1, <2>3
  <2> QED
    BY <2>3, <2>4 DEF Framing!DoubleNewlines
<1>5. \A i \in Framing!DoubleNewlines(u, 0) : i \in Int
  BY <1>1 DEF Framing!DoubleNewlines
<1>6. Framing!Frontier(s) \in Int
  BY FrontierType
<1> QED
  BY <1>3, <1>4, <1>5, <1>6 DEF u

\* A chunk of the backend's bytes, cut anywhere.
LEMMA FramingPull ==
  ASSUME FramingConstants, FramingInv, Framing!Pull
  PROVE  FramingInv'
<1>1. PICK c \in Framing!Chunks : Framing!Push(c) /\ input' = input \o c
  BY DEF Framing!Pull
<1>2. pc = "pull" /\ pc' = "take" /\ events' = events /\ output' = output /\ made_up' = made_up
  BY DEF Framing!Pull
<1> DEFINE h == HeldAs(cr_held)
           b == Framing!Breaks(Part(c))
<1>3. pending' = pending \o h \o b /\ cr_held' = Open(c) /\ scan_from' = scan_from
  BY <1>1 DEF Framing!Push, HeldAs, Part, Open, Rest
<1>4. c \in Seq(Octets) /\ c # <<>>
  BY ChunkType
<1>5. /\ pending \in Seq(Clean) /\ output \in Seq(Clean) /\ input \in Seq(Octets) /\ h \in Seq(Clean)
      /\ Part(c) \in Seq(Octets)
  BY <1>4, HeldType, SwallowCases DEF FramingInv, FramingTypes
<1>6. b \in Seq(Clean)
  BY <1>5, BreakLaws DEF BreakTypes, Clean
<1> HIDE DEF h, b
<1>7. /\ output \o (pending \o h \o b) = (output \o pending \o h) \o b
      /\ output \o (pending \o h) = output \o pending \o h
      /\ output \o pending \o h \in Seq(Clean) /\ pending \o h \o b \in Seq(Clean)
  <2>1. Regrouped(Clean, output, pending, h, b)
    BY <1>5, <1>6, Regroup
  <2> QED
    BY <2>1 DEF Regrouped
<1>8. input' \in Seq(Octets)
  BY <1>1, <1>4, <1>5, ConcatProperties
<1>9. FramingTypes'
  <2>1. cr_held' \in BOOLEAN
    BY <1>3 DEF Open
  <2> QED
    BY <1>2, <1>3, <1>5, <1>7, <1>8, <2>1 DEF FramingInv, FramingTypes
<1>10. LineInv'
  <2>1. ASSUME made_up = 0
        PROVE  output' \o pending' \o HeldAs(cr_held') = Framing!Breaks(input') /\ cr_held' = EndsInCR(input')
    <3>1. output \o pending \o h = Framing!Breaks(input) /\ cr_held = EndsInCR(input)
      BY <1>2, <2>1 DEF FramingInv, LineInv, h
    <3>2. /\ Framing!Breaks(input \o c) = Framing!Breaks(input) \o b \o HeldAs(Open(c))
          /\ Open(c) = EndsInCR(input \o c)
      BY <1>4, <1>5, <3>1, PartBreaks DEF b
    <3> QED
      BY <1>1, <1>2, <1>3, <1>7, <3>1, <3>2
  <2>2. Framing!Payload(output' \o pending') = Framing!Payload(input')
    <3> DEFINE op == output \o pending
               oph == op \o h
    <3>0. op \in Seq(Clean)
      BY <1>5, Associative
    <3> HIDE DEF op
    <3>1. op \in Seq(Octets) /\ oph \in Seq(Octets) /\ h \in Seq(Octets) /\ b \in Seq(Octets)
      <4>1. oph \in Seq(Clean)
        BY <1>5, <3>0, Associative
      <4> QED
        BY <1>5, <1>6, <3>0, <4>1, CleanIsOctets
    <3> HIDE DEF oph
    <3>2. Framing!Payload(oph) = Framing!Payload(op) \o Framing!Payload(h)
      BY <3>1, PayloadSplit DEF oph
    <3>3. Framing!Payload(oph \o b) = Framing!Payload(oph) \o Framing!Payload(b)
      BY <3>1, PayloadSplit
    <3>4. Framing!Payload(h) = <<>>
      BY PayloadOfBreak DEF h, HeldAs
    <3>5. Framing!Payload(op) \in Seq({X})
      BY <3>1, PayloadLaws DEF PayloadTypes
    <3>6. Framing!Payload(op) \o <<>> = Framing!Payload(op)
      BY <3>5, ConcatEmptySeq
    <3>7. Framing!Payload(b) = Framing!Payload(c)
      <4>1. Framing!Payload(b) = Framing!Payload(Part(c))
        BY <1>5, PayloadOfBreaks DEF b
      <4> QED
        BY <1>4, <4>1, PartPayload
    <3>8. Framing!Payload(input \o c) = Framing!Payload(input) \o Framing!Payload(c)
      BY <1>4, <1>5, PayloadSplit
    <3>9. Framing!Payload(op) = Framing!Payload(input)
      BY DEF FramingInv, LineInv, op
    <3>10. output' \o pending' = oph \o b
      BY <1>2, <1>3, <1>7 DEF op, oph
    <3> QED
      BY <1>1, <3>2, <3>3, <3>4, <3>6, <3>7, <3>8, <3>9, <3>10
  <2> QED
    BY <1>2, <2>1, <2>2 DEF LineInv
<1>11. ScanInv'
  <2> DEFINE t == h \o b
  <2>1. t \in Seq(Clean) /\ pending' = pending \o t
    <3>1. Joined(Clean, pending, h, b) /\ Joined(Clean, h, b, b)
      BY <1>5, <1>6, Joins
    <3> QED
      BY <1>3, <3>1 DEF Joined
  <2> HIDE DEF t
  <2>2. scan_from = Framing!Frontier(pending) /\ Framing!DoubleNewlines(pending, 0) = {}
    BY <1>2 DEF FramingInv, ScanInv
  <2>3. /\ Framing!Frontier(pending) <= Framing!Frontier(pending \o t)
        /\ \A i \in Framing!DoubleNewlines(pending \o t, 0) : i >= Framing!Frontier(pending)
    BY <1>5, <2>1, <2>2, LongerBuffer
  <2>4. /\ scan_from' <= Framing!Frontier(pending')
        /\ \A i \in Framing!DoubleNewlines(pending', 0) : i >= scan_from'
    BY <1>3, <2>1, <2>2, <2>3
  <2> QED
    BY <1>2, <2>4 DEF ScanInv
<1>12. CountInv'
  <2>1. made_up = 0 => BlankState(output) = [n |-> events, half |-> FALSE]
    BY <1>2 DEF FramingInv, CountInv
  <2> QED
    BY <1>2, <2>1 DEF CountInv
<1> QED
  BY <1>9, <1>10, <1>11, <1>12 DEF FramingInv

\* The tail of the body is released as it is.
LEMMA FramingFinish ==
  ASSUME FramingConstants, FramingInv, Framing!Finish
  PROVE  FramingInv'
<1> DEFINE h == HeldAs(cr_held)
           op == output \o pending
           oph == op \o h
<1>1. /\ output' = oph /\ pending' = <<>> /\ scan_from' = 0 /\ cr_held' = FALSE /\ pc' = "ended"
      /\ events' = events /\ input' = input /\ made_up' = made_up
  BY DEF Framing!Finish, HeldAs
<1>2. pending \in Seq(Clean) /\ output \in Seq(Clean) /\ h \in Seq(Clean)
  BY HeldType DEF FramingInv, FramingTypes
<1> HIDE DEF h
<1>3. op \in Seq(Clean)
  BY <1>2, Associative
<1> HIDE DEF op
<1>4. oph \in Seq(Clean)
  BY <1>2, <1>3, Associative
<1> HIDE DEF oph
<1>5. oph \o <<>> = oph /\ <<>> \in Seq(Clean)
  BY <1>4, ConcatEmptySeq
<1>6. FramingTypes'
  BY <1>1, <1>4, <1>5 DEF FramingInv, FramingTypes
<1>7. LineInv'
  <2>1. made_up = 0 => oph = Framing!Breaks(input)
    BY DEF FramingInv, LineInv, h, op, oph
  <2>2. HeldAs(cr_held') = <<>>
    BY <1>1 DEF HeldAs
  <2>3. output' \o pending' = oph /\ output' \o pending' \o HeldAs(cr_held') = oph
    BY <1>1, <1>5, <2>2
  <2>4. Framing!Payload(oph) = Framing!Payload(input)
    <3>1. op \in Seq(Octets) /\ h \in Seq(Octets)
      BY <1>2, <1>3, CleanIsOctets
    <3>2. Framing!Payload(oph) = Framing!Payload(op) \o Framing!Payload(h)
      BY <3>1, PayloadSplit DEF oph
    <3>3. Framing!Payload(h) = <<>>
      BY PayloadOfBreak DEF h, HeldAs
    <3>4. Framing!Payload(op) \in Seq({X})
      BY <3>1, PayloadLaws DEF PayloadTypes
    <3>5. Framing!Payload(op) \o <<>> = Framing!Payload(op)
      BY <3>4, ConcatEmptySeq
    <3>6. Framing!Payload(op) = Framing!Payload(input)
      BY DEF FramingInv, LineInv, op
    <3> QED
      BY <3>2, <3>3, <3>5, <3>6
  <2> QED
    BY <1>1, <2>1, <2>3, <2>4 DEF LineInv
<1>8. ScanInv'
  BY <1>1 DEF ScanInv
<1>9. CountInv'
  BY <1>1 DEF CountInv
<1> QED
  BY <1>6, <1>7, <1>8, <1>9 DEF FramingInv

\* streaming.rs: wherever a backend's bytes are cut, the framer releases the stream with
\* its line breaks normalized, releases every complete event before it asks for more,
\* skips no terminator and counts every event once.
THEOREM FramingIsWhole ==
  ASSUME FramingConstants
  PROVE  Spec => []FramingIsExact
<1>1. Init => FramingInv
  BY FramingStarts DEF Init
<1>2. FramingInv /\ [Next]_vars => FramingInv'
  <2> SUFFICES ASSUME FramingInv, [Next]_vars  PROVE FramingInv'
    OBVIOUS
  <2>1. CASE Framing!Next
    BY <2>1, FramingTake, FramingPull, FramingFinish DEF Framing!Next
  <2>2. CASE UNCHANGED framingVars
    <3>1. FramingTypes'
      BY <2>2 DEF FramingInv, FramingTypes, framingVars
    <3>2. LineInv'
      BY <2>2 DEF FramingInv, LineInv, framingVars
    <3>3. ScanInv'
      BY <2>2 DEF FramingInv, ScanInv, framingVars
    <3>4. CountInv'
      BY <2>2 DEF FramingInv, CountInv, framingVars
    <3> QED
      BY <3>1, <3>2, <3>3, <3>4 DEF FramingInv
  <2> QED
    BY <2>1, <2>2 DEF Next, vars
<1>3. FramingInv => FramingIsExact
  BY FramingInvImplies
<1> QED
  BY <1>1, <1>2, <1>3, PTL DEF Spec

===========================================================================
