--------------------------- MODULE RequestProofs ---------------------------
(***************************************************************************)
(* Proofs about the requests of an exchange, as MCExchange composes it:    *)
(* the choice of a node for one, the stream flag that it is sent with, and *)
(* the follow-ups that the reprompt engine makes of an answer. A stage's   *)
(* invariant is about the part of the composition that it runs in: a step  *)
(* of another stage leaves its variables alone, and it is not that part    *)
(* then.                                                                   *)
(*                                                                         *)
(* First comes induction on the naturals, by a least counterexample, and   *)
(* what it says of the folds of the community modules: FoldLeft is the     *)
(* last value of an iteration over the prefixes of its sequence.  The      *)
(* operator that is folded appears as a function G from an index and a     *)
(* value to a value.                                                       *)
(***************************************************************************)
EXTENDS MCExchange, FiniteSetTheorems, SequenceTheorems, TLAPS

---------------------------------------------------------------------------
(* Induction and folds.                                                    *)

\* A set of counterexamples among the naturals has a least one.
LEMMA LeastNatural ==
  ASSUME NEW T, T \subseteq Nat, T # {}
  PROVE  \E x \in T : \A y \in T : x <= y
<1> DEFINE B == {0 .. x : x \in T}
           R == StrictSubsetOrdering(Nat)
<1>1. B \subseteq FiniteSubsetsOf(Nat)
  <2> SUFFICES ASSUME NEW x \in T  PROVE 0 .. x \in FiniteSubsetsOf(Nat)  OBVIOUS
  <2>1. 0 .. x \subseteq Nat /\ x \in Int /\ 0 \in Int  OBVIOUS
  <2>2. IsFiniteSet(0 .. x)  BY <2>1, FS_Interval
  <2> QED  BY <2>1, <2>2 DEF FiniteSubsetsOf
<1>2. B # {}  OBVIOUS
<1>3. IsWellFoundedOn(R, FiniteSubsetsOf(Nat))  BY FS_StrictSubsetOrderingWellFounded
<1>4. PICK b \in B : \A d \in B : ~ (<<d, b>> \in R)
  <2> HIDE DEF B, R
  <2> QED  BY <1>1, <1>2, <1>3, WFMin
<1>5. PICK x \in T : b = 0 .. x  OBVIOUS
<1>6. ASSUME NEW y \in T, y < x  PROVE FALSE
  <2>1. 0 .. y \subseteq Nat /\ 0 .. x \subseteq Nat  OBVIOUS
  <2>2. 0 .. y \subseteq 0 .. x /\ x \in 0 .. x /\ x \notin 0 .. y  BY <1>6
  <2>3. <<0 .. y, 0 .. x>> \in R  BY <2>1, <2>2 DEF StrictSubsetOrdering
  <2> QED  BY <1>4, <1>5, <2>3
<1> QED  BY <1>6

---------------------------------------------------------------------------
\* The index that a fold takes off first.
Greatest(z) == CHOOSE x \in z : \A y \in z : x >= y

\* An element above all others is the greatest.
LEMMA GreatestOf ==
  ASSUME NEW z, NEW m \in z, m \in Int, z \subseteq Int, \A y \in z : m >= y
  PROVE  Greatest(z) = m
<1>1. \E x \in z : \A y \in z : x >= y
  OBVIOUS
<1>2. Greatest(z) \in z /\ \A y \in z : Greatest(z) >= y
  BY <1>1 DEF Greatest
<1>3. Greatest(z) \in Int /\ Greatest(z) >= m /\ m >= Greatest(z)
  BY <1>2
<1> QED
  BY <1>3

\* The greatest index of a prefix is its last, and without it the prefix is shorter by one.
LEMMA GreatestPrefix ==
  ASSUME NEW n \in Nat, NEW k \in 1 .. n
  PROVE  /\ Greatest(1 .. k) = k /\ (1 .. k) \ {k} = 1 .. (k - 1)
         /\ 1 .. k \in SUBSET (1 .. n) /\ 1 .. k # {}
<1>1. k \in 1 .. k /\ k \in Int /\ 1 .. k \subseteq Int /\ \A y \in 1 .. k : k >= y
  OBVIOUS
<1>2. Greatest(1 .. k) = k
  BY <1>1, GreatestOf
<1> QED
  BY <1>1, <1>2

\* A set of indices that is not empty has a greatest one.
LEMMA GreatestIs ==
  ASSUME NEW n \in Nat, NEW z \in SUBSET (1 .. n), z # {}
  PROVE  Greatest(z) \in z /\ \A y \in z : Greatest(z) >= y
<1> DEFINE S == {n - x : x \in z}
<1>1. S \subseteq Nat /\ S # {}
  <2>1. ASSUME NEW x \in z PROVE n - x \in Nat
    OBVIOUS
  <2> QED
    BY <2>1
<1>2. PICK s \in S : \A r \in S : s <= r
  <2> HIDE DEF S
  <2> QED
    BY <1>1, LeastNatural
<1>3. PICK x \in z : s = n - x
  BY <1>2
<1>4. ASSUME NEW y \in z
      PROVE  x >= y
  <2>1. n - x <= n - y
    BY <1>2, <1>3
  <2> QED
    BY <2>1
<1> QED
  BY <1>3, <1>4 DEF Greatest

\* It is one of them.
LEMMA GreatestIn ==
  ASSUME NEW n \in Nat, NEW z \in SUBSET (1 .. n), z # {}
  PROVE  Greatest(z) \in z
BY GreatestIs

\* g takes a set of indices to what a fold over it yields, its greatest index last.
Iterates(g, n, base, G) ==
  \A z \in SUBSET (1 .. n) :
    g[z] = IF z = {} THEN base ELSE G[<<Greatest(z), g[z \ {Greatest(z)}]>>]

\* The iteration that a fold is defined by exists.
LEMMA FoldIterates ==
  ASSUME NEW n \in Nat, NEW V, NEW base \in V, NEW G \in [(1 .. n) \X V -> V]
  PROVE  \E g \in [SUBSET (1 .. n) -> V] : Iterates(g, n, base, G)
<1> DEFINE It(m, g) == Iterates(g, m, base, G)
           Bad == {m \in 0 .. n : ~\E g \in [SUBSET (1 .. m) -> V] : It(m, g)}
<1>0. SUFFICES ASSUME Bad # {} PROVE FALSE
  <2>1. n \in 0 .. n
    OBVIOUS
  <2> QED
    BY <2>1
<1>1. PICK m \in Bad : \A k \in Bad : m <= k
  <2>1. Bad \subseteq Nat
    OBVIOUS
  <2> HIDE DEF Bad
  <2> QED
    BY <1>0, <2>1, LeastNatural
<1>2. CASE m = 0
  <2> DEFINE g0 == [z \in SUBSET (1 .. 0) |-> base]
  <2>1. \A z \in SUBSET (1 .. 0) : z = {}
    OBVIOUS
  <2>2. g0 \in [SUBSET (1 .. 0) -> V] /\ It(0, g0)
    BY <2>1 DEF Iterates
  <2> QED
    BY <1>1, <1>2, <2>2
<1>3. CASE m # 0
  <2>0. m \in 1 .. n
    BY <1>3
  <2>1. m - 1 \in 0 .. n /\ m - 1 \notin Bad /\ m \in 1 .. n
    <3> HIDE DEF Bad
    <3> QED
      BY <1>1, <2>0
  <2>2. PICK g \in [SUBSET (1 .. (m - 1)) -> V] : It(m - 1, g)
    BY <2>1
  <2> DEFINE h == [z \in SUBSET (1 .. m) |-> IF m \in z THEN G[<<m, g[z \ {m}]>>] ELSE g[z]]
  <2>3. ASSUME NEW z \in SUBSET (1 .. m)
        PROVE  /\ z \ {m} \in SUBSET (1 .. (m - 1))
               /\ m \in z => Greatest(z) = m
               /\ m \notin z => z \in SUBSET (1 .. (m - 1))
               /\ z # {} => Greatest(z) \in z
    <3>1. z \ {m} \in SUBSET (1 .. (m - 1))
      BY <2>1
    <3>2. m \in z => Greatest(z) = m
      <4> SUFFICES ASSUME m \in z PROVE Greatest(z) = m
        OBVIOUS
      <4>1. z \subseteq Int /\ \A y \in z : m >= y
        BY <2>1
      <4> HIDE DEF Bad
      <4> QED BY <4>1, <2>1, GreatestOf
    <3>4. z # {} => Greatest(z) \in z
      <4> HIDE DEF Bad
      <4>1. m \in Nat
        BY <2>0
      <4> QED
        BY <4>1, GreatestIn
    <3>5. m \notin z => z \in SUBSET (1 .. (m - 1))
      BY <3>1
    <3> QED BY <3>1, <3>2, <3>4, <3>5
  <2>4. h \in [SUBSET (1 .. m) -> V]
    <3>1. ASSUME NEW z \in SUBSET (1 .. m) PROVE (IF m \in z THEN G[<<m, g[z \ {m}]>>] ELSE g[z]) \in V
      <4>1. g[z \ {m}] \in V
        BY <2>2, <2>3
      <4>2. m \in z => G[<<m, g[z \ {m}]>>] \in V
        BY <4>1, <2>1
      <4>3. m \notin z => g[z] \in V
        BY <2>2, <2>3
      <4> QED BY <4>2, <4>3
    <3> QED BY <3>1
  <2>5. It(m, h)
    <3> SUFFICES ASSUME NEW z \in SUBSET (1 .. m)
                 PROVE  h[z] = IF z = {} THEN base ELSE G[<<Greatest(z), h[z \ {Greatest(z)}]>>]
      BY DEF Iterates
    <3>1. CASE m \in z
      <4>1. z \ {m} \in SUBSET (1 .. m) /\ m \notin z \ {m} /\ Greatest(z) = m /\ z # {}
        BY <3>1, <2>3
      <4>2. h[z \ {m}] = g[z \ {m}]
        BY <4>1
      <4> QED BY <3>1, <4>1, <4>2
    <3>2. CASE m \notin z /\ z # {}
      <4>1. /\ z \in SUBSET (1 .. (m - 1)) /\ Greatest(z) \in z
            /\ z \ {Greatest(z)} \in SUBSET (1 .. m) /\ m \notin z \ {Greatest(z)}
        BY <3>2, <2>3
      <4>2. h[z] = g[z] /\ h[z \ {Greatest(z)}] = g[z \ {Greatest(z)}]
        BY <4>1, <3>2
      <4>3. g[z] = G[<<Greatest(z), g[z \ {Greatest(z)}]>>]
        BY <2>2, <3>2, <4>1 DEF Iterates
      <4> QED BY <3>2, <4>2, <4>3
    <3>3. CASE z = {}
      <4>1. h[z] = g[z] /\ z \in SUBSET (1 .. (m - 1))
        BY <3>3
      <4>2. g[z] = base
        BY <2>2, <3>3, <4>1 DEF Iterates
      <4> QED BY <3>3, <4>1, <4>2
    <3> QED BY <3>1, <3>2, <3>3
  <2> HIDE DEF h, It
  <2> QED BY <2>4, <2>5, <1>1
<1> QED BY <1>2, <1>3

\* The values of an iteration over the prefixes, one after the other.
Runs(h, n, base, G) == h[0] = base /\ \A k \in 1 .. n : h[k] = G[<<k, h[k - 1]>>]

\* The iteration over the subsets holds one over the prefixes.
LEMMA FoldRuns ==
  ASSUME NEW n \in Nat, NEW V, NEW base, NEW G, NEW g \in [SUBSET (1 .. n) -> V], Iterates(g, n, base, G)
  PROVE  \E h \in [0 .. n -> V] : Runs(h, n, base, G)
<1> DEFINE h == [k \in 0 .. n |-> g[1 .. k]]
<1>1. ASSUME NEW k \in 0 .. n
      PROVE  1 .. k \in SUBSET (1 .. n)
  OBVIOUS
<1>2. h \in [0 .. n -> V]
  BY <1>1
<1>3. h[0] = base
  <2>1. 1 .. 0 = {} /\ {} \in SUBSET (1 .. n) /\ 0 \in 0 .. n
    OBVIOUS
  <2>2. g[{}] = base
    BY <2>1 DEF Iterates
  <2> QED
    BY <2>1, <2>2
<1>4. ASSUME NEW k \in 1 .. n
      PROVE  h[k] = G[<<k, h[k - 1]>>]
  <2>1. /\ Greatest(1 .. k) = k /\ (1 .. k) \ {k} = 1 .. (k - 1)
        /\ 1 .. k \in SUBSET (1 .. n) /\ 1 .. k # {}
    BY GreatestPrefix
  <2>2. k - 1 \in 0 .. n /\ k \in 0 .. n
    OBVIOUS
  <2> QED
    BY <2>1, <2>2 DEF Iterates
<1> HIDE DEF h
<1>5. Runs(h, n, base, G)
  BY <1>3, <1>4 DEF Runs
<1> QED
  BY <1>2, <1>5

\* Two functions that start alike and step alike are alike.
LEMMA Lockstep ==
  ASSUME NEW n \in Nat, NEW f, NEW g, f[0] = g[0], \A k \in 1 .. n : f[k - 1] = g[k - 1] => f[k] = g[k]
  PROVE  f[n] = g[n]
<1> DEFINE Bad == {m \in 0 .. n : f[m] # g[m]}
<1>0. SUFFICES ASSUME Bad # {} PROVE FALSE
  OBVIOUS
<1>1. PICK m \in Bad : \A k \in Bad : m <= k
  <2>1. Bad \subseteq Nat
    OBVIOUS
  <2> HIDE DEF Bad
  <2> QED
    BY <1>0, <2>1, LeastNatural
<1>2. m # 0
  BY <1>1
<1>3. m \in 1 .. n /\ m - 1 \in 0 .. n /\ m - 1 \notin Bad
  BY <1>1, <1>2
<1> QED BY <1>1, <1>3

\* The iteration over the subsets and one over the prefixes, side by side.
InStep(it, h, n) ==
  /\ it[{}] = h[0]
  /\ \A k \in 1 .. n : it[1 .. (k - 1)] = h[k - 1] => it[1 .. k] = h[k]

\* They have the same last value.
LEMMA FoldValue ==
  ASSUME NEW n \in Nat, NEW it, NEW h, InStep(it, h, n)
  PROVE  it[1 .. n] = h[n]
<1> DEFINE f == [k \in 0 .. n |-> it[1 .. k]]
<1>1. f[0] = h[0]
  <2>1. 1 .. 0 = {} /\ 0 \in 0 .. n
    OBVIOUS
  <2> QED
    BY <2>1 DEF InStep
<1>2. \A k \in 1 .. n : f[k - 1] = h[k - 1] => f[k] = h[k]
  BY DEF InStep
<1>3. f[n] = h[n]
  <2> HIDE DEF f
  <2> QED
    BY <1>1, <1>2, Lockstep
<1> QED
  BY <1>3

---------------------------------------------------------------------------
\* A prefix is the one before it and one more element.
LEMMA PrefixStep ==
  ASSUME NEW S, NEW s \in Seq(S), NEW k \in 1 .. Len(s)
  PROVE  /\ SubSeq(s, 1, k - 1) \in Seq(S) /\ s[k] \in S
         /\ SubSeq(s, 1, k) = Append(SubSeq(s, 1, k - 1), s[k])
BY SubSeqProperties, SubSeqRecursiveSecond

\* What holds of the empty sequence, and of a sequence whenever it holds of all but its
\* last element, holds of every sequence.
LEMMA AppendInduction ==
  ASSUME NEW S, NEW s \in Seq(S), NEW Good, <<>> \in Good,
         \A t \in Seq(S), e \in S : t \in Good => Append(t, e) \in Good
  PROVE  s \in Good
<1> DEFINE Pre(k) == SubSeq(s, 1, k)
           Bad == {k \in 0 .. Len(s) : Pre(k) \notin Good}
<1>1. Len(s) \in Nat /\ Pre(0) = <<>> /\ Pre(Len(s)) = s
  BY SubSeqEmpty, SubSeqFull
<1>2. ASSUME NEW k \in 1 .. Len(s)
      PROVE  /\ k - 1 \in 0 .. Len(s) /\ Pre(k - 1) \in Seq(S) /\ s[k] \in S
             /\ Pre(k) = Append(Pre(k - 1), s[k])
  BY PrefixStep
<1> HIDE DEF Pre
<1>3. SUFFICES ASSUME Bad # {}  PROVE FALSE
  <2>1. Len(s) \in 0 .. Len(s)
    BY <1>1
  <2> QED
    BY <1>1, <2>1
<1>4. PICK k \in Bad : \A j \in Bad : k <= j
  <2>1. Bad \subseteq Nat
    OBVIOUS
  <2> HIDE DEF Bad
  <2> QED
    BY <1>3, <2>1, LeastNatural
<1>5. k \in 1 .. Len(s) /\ Pre(k) \notin Good
  BY <1>1, <1>4
<1>6. k - 1 \notin Bad
  <2> HIDE DEF Bad
  <2> QED
    BY <1>1, <1>4, <1>5
<1> QED
  BY <1>2, <1>5, <1>6

---------------------------------------------------------------------------
(* Strategies.                                                             *)

\* The assumptions of BackendNode, and a usize whose wrap-around hits a multiple of
\* the number of nodes (as it does for 1, 2, 4, 8... nodes).
SelectConstants ==
  /\ N \in Nat \ {0} /\ UsizeMax \in Nat /\ (UsizeMax + 1) % N = 0
  /\ IsFiniteSet(Requests) /\ Cardinality(Requests) <= UsizeMax
  /\ None \notin 0 .. N - 1

\* A remainder is the only one.
LEMMA RemainderIs ==
  ASSUME NEW n \in Nat \ {0}, NEW q \in Nat, NEW k \in 0 .. n - 1, NEW a \in Nat, a = n * q + k
  PROVE  a % n = k
<1> DEFINE p == a \div n
           j == a % n
<1>1. p \in Nat /\ j \in 0 .. n - 1 /\ a = n * p + j
  OBVIOUS
<1> HIDE DEF p, j
<1>2. CASE q > p
  <2>1. PICK d \in Nat : q = p + 1 + d
    <3>1. q - p - 1 \in Nat /\ q = p + 1 + (q - p - 1)
      BY <1>1, <1>2
    <3> QED
      BY <3>1
  <2>2. n * q = n * p + n + n * d /\ n * d \in Nat /\ n * p \in Nat
    BY <1>1, <2>1
  <2> QED
    BY <1>1, <2>2
<1>3. CASE p > q
  <2>1. PICK d \in Nat : p = q + 1 + d
    <3>1. p - q - 1 \in Nat /\ p = q + 1 + (p - q - 1)
      BY <1>1, <1>3
    <3> QED
      BY <3>1
  <2>2. n * p = n * q + n + n * d /\ n * d \in Nat /\ n * q \in Nat
    BY <1>1, <2>1
  <2> QED
    BY <1>1, <2>2
<1>4. CASE p = q
  <2>1. n * q \in Nat
    OBVIOUS
  <2> QED
    BY <1>1, <1>4, <2>1 DEF j
<1> QED
  BY <1>1, <1>2, <1>3, <1>4

\* One step of a remainder.
LEMMA NextRemainder ==
  ASSUME NEW n \in Nat \ {0}, NEW c \in Nat
  PROVE  /\ c % n \in 0 .. n - 1
         /\ (c + 1) % n = IF c % n = n - 1 THEN 0 ELSE (c % n) + 1
<1> DEFINE q == c \div n
           k == c % n
<1>1. q \in Nat /\ c = n * q + k /\ k \in 0 .. n - 1
  OBVIOUS
<1> HIDE DEF q, k
<1>2. CASE k = n - 1
  <2>1. n * (q + 1) = n * q + n /\ n * q \in Nat
    BY <1>1
  <2>2. c + 1 = n * (q + 1) + 0 /\ q + 1 \in Nat /\ 0 \in 0 .. n - 1 /\ c + 1 \in Nat
    BY <1>1, <1>2, <2>1
  <2>a. PICK t \in Nat, z \in 0 .. n - 1 : c + 1 = n * t + z /\ z = 0
    BY <2>2
  <2>b. (c + 1) % n = z
    BY <2>2, <2>a, RemainderIs, SMTT(30)
  <2>3. (c + 1) % n = 0
    BY <2>a, <2>b
  <2> QED
    BY <1>1, <1>2, <2>3 DEF k
<1>3. CASE k # n - 1
  <2>1. n * q \in Nat
    BY <1>1
  <2>2. c + 1 = n * q + (k + 1) /\ k + 1 \in 0 .. n - 1 /\ c + 1 \in Nat
    BY <1>1, <1>3, <2>1
  <2>3. (c + 1) % n = k + 1
    BY <1>1, <2>2, RemainderIs
  <2> QED
    BY <1>1, <1>3, <2>3 DEF k
<1> QED
  BY <1>2, <1>3

\* The remainder of a number below the divisor.
LEMMA SmallRemainder ==
  ASSUME NEW n \in Nat \ {0}, NEW k \in 0 .. n - 1
  PROVE  (k + 0) % n = k /\ 0 % n = 0
OBVIOUS

\* The next ticket, wrapped around or not.
LEMMA NextTicket ==
  ASSUME SelectConstants, NEW c \in 0 .. UsizeMax
  PROVE  /\ Balancing!RR!FetchAdd(c) \in 0 .. UsizeMax /\ c % N \in 0 .. N - 1
         /\ Balancing!RR!FetchAdd(c) % N = IF c % N = N - 1 THEN 0 ELSE (c % N) + 1
<1>1. N \in Nat \ {0} /\ c \in Nat /\ UsizeMax \in Nat
  BY DEF SelectConstants
<1>2. c % N \in 0 .. N - 1 /\ (c + 1) % N = IF c % N = N - 1 THEN 0 ELSE (c % N) + 1
  BY <1>1, NextRemainder
<1>3. CASE c = UsizeMax
  <2>1. c % N = N - 1
    BY <1>1, <1>2, <1>3 DEF SelectConstants
  <2>2. 0 % N = 0
    BY <1>1, <1>2, SmallRemainder
  <2> QED
    BY <1>1, <1>2, <1>3, <2>1, <2>2 DEF Balancing!RR!FetchAdd
<1>4. CASE c # UsizeMax
  BY <1>1, <1>2, <1>4 DEF Balancing!RR!FetchAdd
<1> QED
  BY <1>3, <1>4

Places == {"idle", "walk", "fallback"} \cup Balancing!RR!Serving

\* The state of a round-robin group.
RobinTypes ==
  /\ active \in [0 .. N - 1 -> 0 .. UsizeMax]
  /\ place \in [Requests -> Places] /\ sub \in [Requests -> {"health", "until", "act"}]
  /\ idx \in [Requests -> 0 .. N]
  /\ best \in [Requests -> 0 .. N - 1 \cup {None}] /\ guard \in [Requests -> 0 .. N - 1 \cup {None}]
  /\ counter \in 0 .. UsizeMax /\ start \in [Requests -> 0 .. UsizeMax]

\* What a request's locals are worth: a select holds no guard, a served request has one, and
\* the walks stay inside the node list.
RobinLocals(r) ==
  /\ place[r] \in {"idle", "walk", "fallback"} => guard[r] = None
  /\ place[r] \in Balancing!RR!Serving => guard[r] \in 0 .. N - 1
  /\ place[r] = "fallback" /\ idx[r] > 0 => best[r] \in 0 .. N - 1
  /\ place[r] = "walk" /\ sub[r] # "health" => idx[r] < N

Guards(n) == {r \in Requests : guard[r] = n}
Booked == \A n \in 0 .. N - 1 : active[n] = Cardinality(Guards(n))

RobinInv == RobinTypes /\ (\A r \in Requests : RobinLocals(r)) /\ Booked

\* A set of requests, with and without one of them.
LEMMA SomeRequests ==
  ASSUME SelectConstants, NEW S \in SUBSET Requests, NEW r \in Requests
  PROVE  /\ Cardinality(S) \in 0 .. UsizeMax
         /\ r \notin S => Cardinality(S \cup {r}) = Cardinality(S) + 1 /\ Cardinality(S) < UsizeMax
         /\ r \in S => Cardinality(S \ {r}) = Cardinality(S) - 1 /\ Cardinality(S) > 0
<1>1. IsFiniteSet(S) /\ IsFiniteSet(S \cup {r}) /\ IsFiniteSet(Requests)
  BY FS_Subset DEF SelectConstants
<1>2. /\ Cardinality(S) \in Nat /\ Cardinality(S \cup {r}) \in Nat /\ Cardinality(Requests) \in Nat
      /\ Cardinality(S) <= Cardinality(Requests) /\ Cardinality(S \cup {r}) <= Cardinality(Requests)
  BY <1>1, FS_Subset, FS_CardinalityType
<1>3. r \notin S => Cardinality(S \cup {r}) = Cardinality(S) + 1
  BY <1>1, FS_AddElement
<1>4. r \in S => Cardinality(S \ {r}) = Cardinality(S) - 1
  BY <1>1, FS_RemoveElement
<1>5. r \in S => Cardinality(S) # 0
  BY <1>1, FS_EmptySet
<1> QED
  BY <1>2, <1>3, <1>4, <1>5 DEF SelectConstants

\* The step of one request leaves the others alone.
OthersWait(r) ==
  \A q \in Requests \ {r} :
    /\ place'[q] = place[q] /\ sub'[q] = sub[q] /\ idx'[q] = idx[q] /\ best'[q] = best[q] /\ guard'[q] = guard[q]

\* So the invariant is kept when the request that moves keeps its part of it.
LEMMA RobinMoves ==
  ASSUME RobinInv, NEW r \in Requests, RobinTypes', OthersWait(r), RobinLocals(r)', Booked'
  PROVE  RobinInv'
<1>1. ASSUME NEW q \in Requests \ {r} PROVE RobinLocals(q)'
  <2>1. RobinLocals(q)
    BY DEF RobinInv
  <2> QED
    BY <2>1 DEF OthersWait, RobinLocals
<1> QED
  BY <1>1 DEF RobinInv

\* No unit moves.
LEMMA UnitsKept ==
  ASSUME Booked, active' = active, guard' = guard
  PROVE  Booked'
BY DEF Booked, Guards

\* A unit is taken with a guard.
LEMMA UnitTaken ==
  ASSUME SelectConstants, RobinTypes, Booked, NEW r \in Requests, NEW n \in 0 .. N - 1, guard[r] = None,
         guard' = [guard EXCEPT ![r] = n], active' = [active EXCEPT ![n] = Balancing!RR!FetchAdd(@)]
  PROVE  Booked' /\ active' \in [0 .. N - 1 -> 0 .. UsizeMax]
<1>1. n # None
  BY DEF SelectConstants
<1>2. Guards(n)' = Guards(n) \cup {r} /\ r \notin Guards(n) /\ \A m \in 0 .. N - 1 : m # n => Guards(m)' = Guards(m)
  BY <1>1 DEF Guards, RobinTypes, SelectConstants
<1>3. active[n] = Cardinality(Guards(n)) /\ Guards(n) \in SUBSET Requests
  BY DEF Booked, Guards
<1>4. Cardinality(Guards(n)') = active[n] + 1 /\ active[n] \in 0 .. UsizeMax /\ active[n] < UsizeMax
  BY <1>2, <1>3, SomeRequests
<1>5. Balancing!RR!FetchAdd(active[n]) = active[n] + 1
  BY <1>4 DEF Balancing!RR!FetchAdd, SelectConstants
<1>6. active' = [active EXCEPT ![n] = active[n] + 1]
  BY <1>5
<1>7. active' \in [0 .. N - 1 -> 0 .. UsizeMax]
  BY <1>4, <1>6 DEF RobinTypes, SelectConstants
<1>8. ASSUME NEW m \in 0 .. N - 1 PROVE active'[m] = Cardinality(Guards(m)')
  <2>1. CASE m = n
    BY <1>4, <1>6, <2>1 DEF RobinTypes
  <2>2. CASE m # n
    BY <1>2, <1>6, <2>2 DEF RobinTypes, Booked
  <2> QED
    BY <2>1, <2>2
<1> QED
  BY <1>7, <1>8 DEF Booked

\* A unit is given back.
LEMMA UnitReturned ==
  ASSUME SelectConstants, RobinTypes, Booked, NEW r \in Requests, NEW n \in 0 .. N - 1, guard[r] = n,
         guard' = [guard EXCEPT ![r] = None], active' = [active EXCEPT ![n] = Balancing!RR!ReleaseSlot(@)]
  PROVE  Booked' /\ active' \in [0 .. N - 1 -> 0 .. UsizeMax]
<1>1. n # None
  BY DEF SelectConstants
<1>2. Guards(n)' = Guards(n) \ {r} /\ r \in Guards(n) /\ \A m \in 0 .. N - 1 : m # n => Guards(m)' = Guards(m)
  BY <1>1 DEF Guards, RobinTypes, SelectConstants
<1>3. active[n] = Cardinality(Guards(n)) /\ Guards(n) \in SUBSET Requests
  BY DEF Booked, Guards
<1>4. Cardinality(Guards(n)') = active[n] - 1 /\ active[n] \in 0 .. UsizeMax /\ active[n] > 0
  BY <1>2, <1>3, SomeRequests
<1>5. Balancing!RR!ReleaseSlot(active[n]) = active[n] - 1
  BY <1>4 DEF Balancing!RR!ReleaseSlot, Balancing!RR!FetchSub, SelectConstants
<1>6. active' = [active EXCEPT ![n] = active[n] - 1]
  BY <1>5
<1>7. active' \in [0 .. N - 1 -> 0 .. UsizeMax]
  BY <1>4, <1>6 DEF RobinTypes, SelectConstants
<1>8. ASSUME NEW m \in 0 .. N - 1 PROVE active'[m] = Cardinality(Guards(m)')
  <2>1. CASE m = n
    BY <1>4, <1>6, <2>1 DEF RobinTypes
  <2>2. CASE m # n
    BY <1>2, <1>6, <2>2 DEF RobinTypes, Booked
  <2> QED
    BY <2>1, <2>2
<1> QED
  BY <1>7, <1>8 DEF Booked

\* The visited node is a node of the group.
LEMMA VisitedNode ==
  ASSUME SelectConstants, RobinTypes, NEW r \in Requests
  PROVE  Balancing!RR!Visiting(r) \in 0 .. N - 1
<1>1. N \in Nat \ {0} /\ start[r] \in Nat /\ idx[r] \in Nat
  BY DEF SelectConstants, RobinTypes
<1>2. start[r] % N \in Nat
  BY <1>1
<1> QED
  BY <1>1, <1>2 DEF Balancing!RR!Visiting, Balancing!RR!candidate_order

\* select begins.
LEMMA BeginStep ==
  ASSUME SelectConstants, RobinInv, NEW r \in Requests, Balancing!RR!Begin(r)
  PROVE  RobinInv'
<1> USE DEF Balancing!RR!Begin, Balancing!RR!Walk, Balancing!RR!nodeVars
<1>1. counter' \in 0 .. UsizeMax
  BY NextTicket DEF RobinInv, RobinTypes
<1>2. RobinTypes'
  BY <1>1 DEF RobinInv, RobinTypes, Places, SelectConstants
<1>3. OthersWait(r)
  BY DEF OthersWait, RobinInv, RobinTypes
<1>4. RobinLocals(r)'
  BY DEF RobinLocals, RobinInv, RobinTypes, Balancing!RR!Serving
<1>5. Booked'
  BY UnitsKept DEF RobinInv
<1> QED
  BY <1>2, <1>3, <1>4, <1>5, RobinMoves

\* A visit reads the flag or the expiry.
LEMMA CheckStep ==
  ASSUME SelectConstants, RobinInv, NEW r \in Requests, Balancing!RR!Check(r)
  PROVE  RobinInv'
<1> USE DEF Balancing!RR!Check, Balancing!RR!LoadHealthy, Balancing!RR!ReadUntil, Balancing!RR!Visited, Balancing!RR!nodeVars
<1>0. active' = active /\ guard' = guard /\ place' = place /\ best' = best /\ counter' = counter /\ start' = start
  OBVIOUS
<1>1. idx[r] < N /\ N \in Nat
  BY DEF RobinInv, RobinLocals, SelectConstants
<1>2. RobinTypes'
  <2>a. idx' = idx \/ idx' = [idx EXCEPT ![r] = idx[r] + 1]
    OBVIOUS
  <2>b. idx[r] + 1 \in 0 .. N /\ idx \in [Requests -> 0 .. N]
    BY <1>1 DEF RobinInv, RobinTypes
  <2>1. idx' \in [Requests -> 0 .. N]
    BY ONLY <2>a, <2>b, r \in Requests
  <2>2. sub' \in [Requests -> {"health", "until", "act"}]
    BY DEF RobinInv, RobinTypes
  <2> QED
    BY <1>0, <2>1, <2>2 DEF RobinInv, RobinTypes
<1>3. OthersWait(r)
  BY DEF OthersWait, RobinInv, RobinTypes
<1>4. RobinLocals(r)'
  <2>1. place[r] = "walk" /\ (sub'[r] = "health" \/ idx'[r] = idx[r])
    BY DEF RobinInv, RobinTypes
  <2>2. "walk" \notin Balancing!RR!Serving
    BY DEF Balancing!RR!Serving
  <2>3. RobinLocals(r)
    BY DEF RobinInv
  <2> QED
    BY <1>0, <1>1, <2>1, <2>2, <2>3 DEF RobinLocals
<1>5. Booked'
  BY <1>0, UnitsKept DEF RobinInv
<1> QED
  BY <1>2, <1>3, <1>4, <1>5, RobinMoves

\* A guard is made.
LEMMA GuardStep ==
  ASSUME SelectConstants, RobinInv, NEW r \in Requests, NEW n \in 0 .. N - 1, place[r] \in {"walk", "fallback"},
         Balancing!RR!NewGuard(r, n), start' = [start EXCEPT ![r] = 0], counter' = counter
  PROVE  RobinInv'
<1> USE DEF Balancing!RR!NewGuard, Balancing!RR!FromClaimed
<1>1. guard[r] = None
  BY DEF RobinInv, RobinLocals
<1>2. Booked' /\ active' \in [0 .. N - 1 -> 0 .. UsizeMax]
  BY <1>1, UnitTaken DEF RobinInv
<1>3. RobinTypes'
  <2>1. RobinTypes /\ 0 \in 0 .. N /\ 0 \in 0 .. UsizeMax
    BY DEF RobinInv, SelectConstants
  <2>2. place' \in [Requests -> Places] /\ sub' \in [Requests -> {"health", "until", "act"}]
    BY <2>1 DEF RobinTypes, Places, Balancing!RR!Serving
  <2>3. idx' \in [Requests -> 0 .. N] /\ best' \in [Requests -> 0 .. N - 1 \cup {None}]
    BY <2>1 DEF RobinTypes
  <2>4. guard' \in [Requests -> 0 .. N - 1 \cup {None}] /\ start' \in [Requests -> 0 .. UsizeMax]
    BY <2>1 DEF RobinTypes
  <2> QED
    BY <1>2, <2>1, <2>2, <2>3, <2>4 DEF RobinTypes
<1>4. OthersWait(r)
  BY DEF OthersWait, RobinInv, RobinTypes
<1>5. RobinLocals(r)'
  BY DEF RobinLocals, RobinInv, RobinTypes, Balancing!RR!Serving
<1> QED
  BY <1>2, <1>3, <1>4, <1>5, RobinMoves

\* Claims, of the walk and of the fallback.
LEMMA ClaimStep ==
  ASSUME SelectConstants, RobinInv, NEW r \in Requests,
         \/ Balancing!RR!Claim(r)
         \/ Balancing!RR!FallbackClaim(r) /\ start' = [start EXCEPT ![r] = 0] /\ UNCHANGED counter
  PROVE  RobinInv'
<1>1. CASE Balancing!RR!Claim(r)
  <2>1. PICK n : n = Balancing!RR!Visiting(r)
    OBVIOUS
  <2>2. n \in 0 .. N - 1
    BY <2>1, VisitedNode DEF RobinInv
  <2>3. /\ place[r] = "walk" /\ Balancing!RR!NewGuard(r, n) /\ start' = [start EXCEPT ![r] = 0] /\ counter' = counter
    BY <1>1, <2>1 DEF Balancing!RR!Claim
  <2> QED
    BY <2>2, <2>3, GuardStep
<1>2. CASE Balancing!RR!FallbackClaim(r) /\ start' = [start EXCEPT ![r] = 0] /\ UNCHANGED counter
  <2>1. PICK n : n = best[r]
    OBVIOUS
  <2>3. /\ place[r] = "fallback" /\ idx[r] = N /\ Balancing!RR!NewGuard(r, n)
        /\ start' = [start EXCEPT ![r] = 0] /\ counter' = counter
    BY <1>2, <2>1 DEF Balancing!RR!FallbackClaim
  <2>2. n \in 0 .. N - 1
    BY <2>1, <2>3 DEF RobinInv, RobinLocals, SelectConstants
  <2> QED
    BY <2>2, <2>3, GuardStep
<1> QED
  BY <1>1, <1>2

\* The fallback begins, and visits a node.
LEMMA FallbackStep ==
  ASSUME SelectConstants, RobinInv, NEW r \in Requests,
         \/ Balancing!RR!AllCooled(r)
         \/ Balancing!RR!FallbackVisit(r) /\ UNCHANGED <<counter, start>>
  PROVE  RobinInv'
<1> USE DEF Balancing!RR!AllCooled, Balancing!RR!Walk, Balancing!RR!FallbackVisit, Balancing!RR!Visited, Balancing!RR!nodeVars
<1>0. active' = active /\ guard' = guard /\ counter' = counter /\ start' = start
  OBVIOUS
<1>1. N \in Nat \ {0} /\ idx[r] \in 0 .. N
  BY DEF RobinInv, RobinTypes, SelectConstants
<1>2. RobinTypes'
  <2>a. \/ idx' = [idx EXCEPT ![r] = 0]
        \/ idx' = [idx EXCEPT ![r] = idx[r] + 1] /\ idx[r] + 1 \in 0 .. N
    BY <1>1
  <2>b. idx \in [Requests -> 0 .. N] /\ 0 \in 0 .. N
    BY <1>1 DEF RobinInv, RobinTypes
  <2>1. idx' \in [Requests -> 0 .. N]
    BY ONLY <2>a, <2>b, r \in Requests
  <2>c. best' = best \/ (best' = [best EXCEPT ![r] = idx[r]] /\ idx[r] \in 0 .. N - 1)
    BY <1>1
  <2>2. sub' \in [Requests -> {"health", "until", "act"}]
    BY DEF RobinInv, RobinTypes
  <2>3. place' \in [Requests -> Places]
    BY DEF RobinInv, RobinTypes, Places
  <2>d. best \in [Requests -> 0 .. N - 1 \cup {None}]
    BY DEF RobinInv, RobinTypes
  <2>4. best' \in [Requests -> 0 .. N - 1 \cup {None}]
    BY ONLY <2>c, <2>d, r \in Requests
  <2> QED
    BY <1>0, <2>1, <2>2, <2>3, <2>4 DEF RobinInv, RobinTypes
<1>3. OthersWait(r)
  BY DEF OthersWait, RobinInv, RobinTypes
<1>4. RobinLocals(r)'
  <2>1. place'[r] = "fallback" /\ guard'[r] = None
    BY DEF RobinInv, RobinTypes, RobinLocals
  <2>2. idx'[r] = 0 \/ best'[r] \in 0 .. N - 1
    <3>1. CASE Balancing!RR!AllCooled(r)
      BY <3>1 DEF RobinInv, RobinTypes
    <3>2. CASE Balancing!RR!FallbackVisit(r) /\ idx[r] > 0
      <4>1. best[r] \in 0 .. N - 1
        BY <3>2 DEF RobinInv, RobinLocals
      <4> QED
        BY <1>1, <3>2, <4>1 DEF RobinInv, RobinTypes
    <3>3. CASE Balancing!RR!FallbackVisit(r) /\ idx[r] = 0
      <4>1. best' = [best EXCEPT ![r] = idx[r]]
        BY <3>3
      <4> QED
        BY <1>1, <3>3, <4>1 DEF RobinInv, RobinTypes
    <3> QED
      BY <1>1, <3>1, <3>2, <3>3
  <2> QED
    BY <1>1, <2>1, <2>2 DEF RobinLocals, Balancing!RR!Serving
<1>5. Booked'
  BY <1>0, UnitsKept DEF RobinInv
<1> QED
  BY <1>2, <1>3, <1>4, <1>5, RobinMoves

\* What the handler does with a guard it keeps.
LEMMA MarkStep ==
  ASSUME SelectConstants, RobinInv, NEW r \in Requests,
         \/ Balancing!RR!MarkHealthy(r) \/ Balancing!RR!MarkFailed(r)
         \/ Balancing!RR!MarkFailedExpiry(r) \/ Balancing!RR!MarkFailedFlag(r),
         UNCHANGED <<counter, start>>
  PROVE  RobinInv'
<1> USE DEF Balancing!RR!MarkHealthy, Balancing!RR!MarkFailed, Balancing!RR!MarkFailedExpiry, Balancing!RR!MarkFailedFlag,
            Balancing!RR!nodeVars, Balancing!RR!walkVars
<1>0. /\ active' = active /\ guard' = guard /\ counter' = counter /\ start' = start
      /\ sub' = sub /\ idx' = idx /\ best' = best
  OBVIOUS
<1>1. PICK p \in {"served", "failing", "locked"} : place' = [place EXCEPT ![r] = p]
  OBVIOUS
<1>2. place[r] \in Balancing!RR!Serving
  BY DEF Balancing!RR!Serving
<1>3. RobinTypes'
  BY <1>0, <1>1 DEF RobinInv, RobinTypes, Places, Balancing!RR!Serving
<1>4. OthersWait(r)
  BY <1>0, <1>1 DEF OthersWait, RobinInv, RobinTypes
<1>5. RobinLocals(r)'
  <2>1. place'[r] = p
    BY <1>1 DEF RobinInv, RobinTypes
  <2>2. guard[r] \in 0 .. N - 1
    BY <1>2 DEF RobinInv, RobinLocals
  <2> QED
    BY <1>0, <2>1, <2>2 DEF RobinLocals
<1>6. Booked'
  BY <1>0, UnitsKept DEF RobinInv
<1> QED
  BY <1>3, <1>4, <1>5, <1>6, RobinMoves

\* The last clone of the guard drops.
LEMMA DropStep ==
  ASSUME SelectConstants, RobinInv, NEW r \in Requests, Balancing!RR!DropGuard(r), UNCHANGED <<counter, start>>
  PROVE  RobinInv'
<1> USE DEF Balancing!RR!DropGuard, Balancing!RR!walkVars
<1>0. counter' = counter /\ start' = start /\ sub' = sub /\ idx' = idx /\ best' = best
  OBVIOUS
<1>1. PICK n : n = guard[r]
  OBVIOUS
<1>2. n \in 0 .. N - 1
  BY <1>1 DEF RobinInv, RobinLocals, Balancing!RR!Serving
<1>3. guard' = [guard EXCEPT ![r] = None] /\ active' = [active EXCEPT ![n] = Balancing!RR!ReleaseSlot(@)]
  BY <1>1
<1>4. Booked' /\ active' \in [0 .. N - 1 -> 0 .. UsizeMax]
  BY <1>1, <1>2, <1>3, UnitReturned DEF RobinInv
<1>5. RobinTypes'
  BY <1>0, <1>3, <1>4 DEF RobinInv, RobinTypes, Places
<1>6. OthersWait(r)
  BY <1>0, <1>3 DEF OthersWait, RobinInv, RobinTypes
<1>7. RobinLocals(r)'
  BY <1>0, <1>3 DEF RobinLocals, RobinInv, RobinTypes, Balancing!RR!Serving
<1> QED
  BY <1>4, <1>5, <1>6, <1>7, RobinMoves

\* Every step of a round-robin request.
LEMMA RobinStep ==
  ASSUME SelectConstants, RobinInv, NEW r \in Requests, Balancing!RR!Step(r)
  PROVE  RobinInv'
<1>1. \/ Balancing!RR!Begin(r) \/ Balancing!RR!Check(r) \/ Balancing!RR!Claim(r) \/ Balancing!RR!AllCooled(r)
      \/ Balancing!RR!FallbackVisit(r) /\ UNCHANGED <<counter, start>>
      \/ Balancing!RR!FallbackClaim(r) /\ start' = [start EXCEPT ![r] = 0] /\ UNCHANGED counter
      \/ /\ \/ Balancing!RR!MarkHealthy(r) \/ Balancing!RR!MarkFailed(r)
            \/ Balancing!RR!MarkFailedExpiry(r) \/ Balancing!RR!MarkFailedFlag(r)
         /\ UNCHANGED <<counter, start>>
      \/ Balancing!RR!DropGuard(r) /\ UNCHANGED <<counter, start>>
  BY DEF Balancing!RR!Step, Balancing!RR!Select, Balancing!RR!Serve
<1>2. CASE Balancing!RR!Begin(r)
  BY <1>2, BeginStep
<1>3. CASE Balancing!RR!Check(r)
  BY <1>3, CheckStep
<1>4. CASE \/ Balancing!RR!Claim(r)
           \/ Balancing!RR!FallbackClaim(r) /\ start' = [start EXCEPT ![r] = 0] /\ UNCHANGED counter
  BY <1>4, ClaimStep
<1>5. CASE \/ Balancing!RR!AllCooled(r)
           \/ Balancing!RR!FallbackVisit(r) /\ UNCHANGED <<counter, start>>
  BY <1>5, FallbackStep
<1>6. CASE /\ \/ Balancing!RR!MarkHealthy(r) \/ Balancing!RR!MarkFailed(r)
              \/ Balancing!RR!MarkFailedExpiry(r) \/ Balancing!RR!MarkFailedFlag(r)
           /\ UNCHANGED <<counter, start>>
  BY <1>6, MarkStep
<1>7. CASE Balancing!RR!DropGuard(r) /\ UNCHANGED <<counter, start>>
  BY <1>7, DropStep
<1> QED
  BY <1>1, <1>2, <1>3, <1>4, <1>5, <1>6, <1>7

\* The nodes that hold a ticket of a select in progress, and the ticket machine's position.
Waiting(n) == {r \in Requests : place[r] = "walk" /\ start[r] % N = n}
Passed(n) == IF n < counter % N THEN 1 ELSE 0
Due(n) == dispatched[n] + Cardinality(Waiting(n)) - Passed(n)

\* Selects that nothing makes fail: each claims the node of its ticket, so what every
\* node has won and is about to win is, up to the tickets of this round, the same.
Evenly ==
  /\ dispatched \in [0 .. N - 1 -> Nat]
  /\ healthy = [n \in 0 .. N - 1 |-> TRUE]
  /\ \A r \in Requests :
       /\ place[r] \in {"idle", "walk", "holding", "served"}
       /\ place[r] = "walk" => idx[r] = 0 /\ sub[r] \in {"health", "act"}
  /\ \A m, n \in 0 .. N - 1 : Due(m) = Due(n)

\* The difference that levelling takes off is the same for every node.
LEMMA Levelled ==
  ASSUME SelectConstants, NEW f \in [0 .. N - 1 -> Nat]
  PROVE  /\ Balancing!Level(f) \in [0 .. N - 1 -> Nat]
         /\ \E c \in Int : \A n \in 0 .. N - 1 : Balancing!Level(f)[n] = f[n] - c
<1> DEFINE S == {f[m] : m \in 0 .. N - 1}
           c == Balancing!Min(S)
<1>1. f[0] \in S /\ S \subseteq Nat
  BY DEF SelectConstants
<1>2. \E x \in S : \A y \in S : x <= y
  BY <1>1, LeastNatural
<1>3. c \in S /\ \A y \in S : c <= y
  BY <1>2 DEF Balancing!Min
<1>4. Balancing!Level(f) = [n \in 0 .. N - 1 |-> f[n] - c]
  BY DEF Balancing!Level, Balancing!Nodes
<1> HIDE DEF c
<1>5. c \in Nat /\ \A n \in 0 .. N - 1 : f[n] - c \in Nat
  <2>1. c \in Nat
    BY <1>1, <1>3
  <2>2. ASSUME NEW n \in 0 .. N - 1 PROVE f[n] - c \in Nat
    <3>1. f[n] \in S /\ f[n] \in Nat
      OBVIOUS
    <3>2. c <= f[n]
      BY <1>3, <3>1
    <3> QED
      BY <2>1, <3>1, <3>2
  <2> QED
    BY <2>1, <2>2
<1> QED
  BY <1>4, <1>5

\* The selects in progress are finitely many.
LEMMA WaitingCount ==
  ASSUME SelectConstants
  PROVE  \A n \in 0 .. N - 1 : Cardinality(Waiting(n)) \in Nat
<1> TAKE n \in 0 .. N - 1
<1>1. IsFiniteSet(Waiting(n))
  BY FS_Subset DEF Waiting, SelectConstants
<1> QED
  BY <1>1, FS_CardinalityType

\* What one step adds to every node alike, the levelling included, keeps the nodes even.
LEMMA EvenlyAdded ==
  ASSUME SelectConstants, \A m, n \in 0 .. N - 1 : Due(m) = Due(n), dispatched \in [0 .. N - 1 -> Nat],
         counter \in 0 .. UsizeMax, counter' \in 0 .. UsizeMax,
         NEW g \in [0 .. N - 1 -> Nat], dispatched' = Balancing!Level(g),
         NEW d \in Int, \A n \in 0 .. N - 1 : g[n] + Cardinality(Waiting(n)') - Passed(n)' = Due(n) + d
  PROVE  dispatched' \in [0 .. N - 1 -> Nat] /\ (\A m, n \in 0 .. N - 1 : Due(m) = Due(n))'
<1>1. PICK c \in Int : \A n \in 0 .. N - 1 : dispatched'[n] = g[n] - c
  BY Levelled
<1>2. dispatched' \in [0 .. N - 1 -> Nat]
  BY Levelled
<1>3. ASSUME NEW n \in 0 .. N - 1 PROVE Due(n)' = Due(n) + d - c
  <2>1. Cardinality(Waiting(n)) \in Nat
    BY WaitingCount
  <2>2. IsFiniteSet(Waiting(n)')
    BY FS_Subset DEF Waiting, SelectConstants
  <2>3. Cardinality(Waiting(n)') \in Nat
    BY <2>2, FS_CardinalityType
  <2>4. Passed(n) \in Nat /\ Passed(n)' \in Nat
    BY DEF Passed
  <2>5. Due(n) \in Int
    BY <2>1, <2>4 DEF Due
  <2>6. Due(n)' = dispatched'[n] + Cardinality(Waiting(n)') - Passed(n)'
    BY DEF Due
  <2>7. g[n] + Cardinality(Waiting(n)') - Passed(n)' = Due(n) + d /\ dispatched'[n] = g[n] - c /\ g[n] \in Nat
    BY <1>1
  <2>8. PICK a \in Int, w \in Int, q \in Int, u \in Int :
           a = g[n] /\ w = Cardinality(Waiting(n)') /\ q = Passed(n)' /\ u = Due(n)
    BY <2>3, <2>4, <2>5, <2>7
  <2>9. a + w - q = u + d /\ Due(n)' = (a - c) + w - q
    BY <2>6, <2>7, <2>8
  <2>10. (a - c) + w - q = u + d - c
    BY <2>9
  <2> QED
    BY <2>8, <2>9, <2>10
<1> QED
  BY <1>2, <1>3

\* A step that wins nothing and moves neither a ticket nor a walk.
LEMMA EvenlyKept ==
  ASSUME SelectConstants, RobinTypes, Evenly, counter' = counter,
         \A n \in 0 .. N - 1 : Waiting(n)' = Waiting(n),
         dispatched' = Balancing!Level([n \in 0 .. N - 1 |-> dispatched[n]])
  PROVE  dispatched' \in [0 .. N - 1 -> Nat] /\ (\A m, n \in 0 .. N - 1 : Due(m) = Due(n))'
<1> DEFINE g == [n \in 0 .. N - 1 |-> dispatched[n]]
<1>1. g \in [0 .. N - 1 -> Nat]
  BY DEF Evenly
<1>2. ASSUME NEW n \in 0 .. N - 1 PROVE g[n] + Cardinality(Waiting(n)') - Passed(n)' = Due(n) + 0
  <2>1. Cardinality(Waiting(n)) \in Nat
    BY WaitingCount
  <2>2. Passed(n)' = Passed(n) /\ Passed(n) \in Nat
    BY DEF Passed
  <2>3. Waiting(n)' = Waiting(n)
    OBVIOUS
  <2>4. g[n] = dispatched[n] /\ dispatched[n] \in Nat
    BY DEF Evenly
  <2> HIDE DEF g
  <2> QED
    BY <2>1, <2>2, <2>3, <2>4 DEF Due
<1>3. /\ \A m, n \in 0 .. N - 1 : Due(m) = Due(n)
      /\ dispatched \in [0 .. N - 1 -> Nat] /\ counter \in 0 .. UsizeMax /\ dispatched' = Balancing!Level(g)
  BY DEF Evenly, RobinTypes
<1> HIDE DEF g
<1>4. PICK d \in Int : d = 0
  OBVIOUS
<1>5. \A n \in 0 .. N - 1 : g[n] + Cardinality(Waiting(n)') - Passed(n)' = Due(n) + d
  BY <1>2, <1>4
<1> QED
  BY <1>1, <1>3, <1>5, EvenlyAdded

\* A ticket is taken: its node waits for one more, or the round is over.
LEMMA TicketTaken ==
  ASSUME SelectConstants, RobinTypes, Evenly, NEW r \in Requests, place[r] # "walk",
         place' = [place EXCEPT ![r] = "walk"], start' = [start EXCEPT ![r] = counter],
         counter' = Balancing!RR!FetchAdd(counter),
         dispatched' = Balancing!Level([n \in 0 .. N - 1 |-> dispatched[n]])
  PROVE  dispatched' \in [0 .. N - 1 -> Nat] /\ (\A m, n \in 0 .. N - 1 : Due(m) = Due(n))'
<1> DEFINE g == [n \in 0 .. N - 1 |-> dispatched[n]]
<1>1. g \in [0 .. N - 1 -> Nat]
  BY DEF Evenly
<1>2. PICK k : k = counter % N
  OBVIOUS
<1>3. /\ k \in 0 .. N - 1 /\ counter' \in 0 .. UsizeMax
      /\ counter' % N = IF k = N - 1 THEN 0 ELSE k + 1
  BY <1>2, NextTicket DEF RobinTypes
<1>4. PICK d \in Int : d = IF k = N - 1 THEN 1 ELSE 0
  OBVIOUS
<1>5. ASSUME NEW n \in 0 .. N - 1 PROVE g[n] + Cardinality(Waiting(n)') - Passed(n)' = Due(n) + d
  <2>1. Cardinality(Waiting(n)) \in Nat
    BY WaitingCount
  <2>2. g[n] = dispatched[n] /\ dispatched[n] \in Nat
    BY DEF Evenly
  <2>3. Passed(n) = (IF n < k THEN 1 ELSE 0) /\ Passed(n)' = (IF n < counter' % N THEN 1 ELSE 0)
    BY <1>2 DEF Passed
  <2>4. Waiting(n)' = IF n = k THEN Waiting(n) \cup {r} ELSE Waiting(n)
    BY <1>2 DEF Waiting, RobinTypes
  <2>5. r \notin Waiting(n) /\ Waiting(n) \in SUBSET Requests
    BY DEF Waiting
  <2>6. Cardinality(Waiting(n) \cup {r}) = Cardinality(Waiting(n)) + 1
    BY <2>5, SomeRequests
  <2>7. Cardinality(Waiting(n)') = Cardinality(Waiting(n)) + (IF n = k THEN 1 ELSE 0)
    BY <2>1, <2>4, <2>6
  <2>8. (IF n = k THEN 1 ELSE 0) - Passed(n)' = d - Passed(n) /\ Passed(n) \in Nat /\ Passed(n)' \in Nat
    BY <1>3, <1>4, <2>3 DEF SelectConstants
  <2> DEFINE c == IF n = k THEN 1 ELSE 0
             w == Cardinality(Waiting(n))
  <2>9. c \in Int /\ c - Passed(n)' = d - Passed(n)
    BY <2>8
  <2> HIDE DEF g, c, w
  <2>10. dispatched[n] + (w + c) - Passed(n)' = dispatched[n] + w - Passed(n) + d
    <3>1. PICK a \in Int, p \in Int, q \in Int, v \in Int :
             a = dispatched[n] /\ p = Passed(n) /\ q = Passed(n)' /\ v = w
      BY <2>1, <2>2, <2>8 DEF w
    <3>2. c \in Int /\ c - q = d - p
      BY <2>9, <3>1
    <3>3. a + (v + c) - q = a + v - p + d
      BY <3>2
    <3> QED
      BY <3>1, <3>3
  <2>11. Due(n) = dispatched[n] + w - Passed(n)
    BY DEF Due, w
  <2>12. Cardinality(Waiting(n)') = w + c
    BY <2>7 DEF c, w
  <2>13. g[n] + Cardinality(Waiting(n)') - Passed(n)' = dispatched[n] + (w + c) - Passed(n)'
    BY <2>2, <2>12
  <2> HIDE DEF Due
  <2> QED
    BY <2>10, <2>11, <2>13
<1>6. /\ \A m, n \in 0 .. N - 1 : Due(m) = Due(n)
      /\ dispatched \in [0 .. N - 1 -> Nat] /\ counter \in 0 .. UsizeMax /\ dispatched' = Balancing!Level(g)
  BY DEF Evenly, RobinTypes
<1> HIDE DEF g
<1> QED
  BY <1>1, <1>3, <1>5, <1>6, EvenlyAdded

\* A claim: the node of the ticket waits for one less and has won one more.
LEMMA TicketSpent ==
  ASSUME SelectConstants, RobinTypes, Evenly, NEW r \in Requests, NEW k \in 0 .. N - 1,
         place[r] = "walk", start[r] % N = k,
         place' = [place EXCEPT ![r] = "holding"], start' = [start EXCEPT ![r] = 0], counter' = counter,
         dispatched' = Balancing!Level([n \in 0 .. N - 1 |-> dispatched[n] + (IF n = k THEN 1 ELSE 0)])
  PROVE  dispatched' \in [0 .. N - 1 -> Nat] /\ (\A m, n \in 0 .. N - 1 : Due(m) = Due(n))'
<1> DEFINE g == [n \in 0 .. N - 1 |-> dispatched[n] + (IF n = k THEN 1 ELSE 0)]
<1>1. g \in [0 .. N - 1 -> Nat]
  BY DEF Evenly
<1>4. PICK d \in Int : d = 0
  OBVIOUS
<1>5. ASSUME NEW n \in 0 .. N - 1 PROVE g[n] + Cardinality(Waiting(n)') - Passed(n)' = Due(n) + d
  <2>1. Cardinality(Waiting(n)) \in Nat
    BY WaitingCount
  <2>2. g[n] = dispatched[n] + (IF n = k THEN 1 ELSE 0) /\ dispatched[n] \in Nat
    BY DEF Evenly
  <2>3. Passed(n)' = Passed(n) /\ Passed(n) \in Nat
    BY DEF Passed
  <2>4. Waiting(n)' = IF n = k THEN Waiting(n) \ {r} ELSE Waiting(n)
    BY DEF Waiting, RobinTypes
  <2>5. (n = k => r \in Waiting(n)) /\ Waiting(n) \in SUBSET Requests
    BY DEF Waiting
  <2>6. n = k => Cardinality(Waiting(n) \ {r}) = Cardinality(Waiting(n)) - 1
    BY <2>5, SomeRequests
  <2>7. Cardinality(Waiting(n)') = Cardinality(Waiting(n)) - (IF n = k THEN 1 ELSE 0)
    BY <2>1, <2>4, <2>6
  <2> HIDE DEF g
  <2> QED
    BY <1>4, <2>1, <2>2, <2>3, <2>7 DEF Due
<1>6. /\ \A m, n \in 0 .. N - 1 : Due(m) = Due(n)
      /\ dispatched \in [0 .. N - 1 -> Nat] /\ counter \in 0 .. UsizeMax /\ counter' \in 0 .. UsizeMax
      /\ dispatched' = Balancing!Level(g)
  BY DEF Evenly, RobinTypes
<1> HIDE DEF g
<1> QED
  BY <1>1, <1>5, <1>6, EvenlyAdded

\* The nodes' wins when nobody's select returns, and when one does.
LEMMA NothingWon ==
  ASSUME NEW r \in Requests, dispatched \in [0 .. N - 1 -> Nat],
         ~(place[r] \in {"walk", "fallback", "free", "busy", "release"} /\ place'[r] = "holding"),
         dispatched' = Balancing!Level([n \in Balancing!Nodes |-> dispatched[n] + (IF Balancing!Wins(r, n) THEN 1 ELSE 0)])
  PROVE  dispatched' = Balancing!Level([n \in 0 .. N - 1 |-> dispatched[n]])
<1>1. ASSUME NEW n PROVE ~ Balancing!Wins(r, n)
  BY DEF Balancing!Wins, Balancing!Selecting, Balancing!PF!Selecting, Balancing!RR!Selecting
<1>2. ASSUME NEW n \in 0 .. N - 1 PROVE dispatched[n] + (IF Balancing!Wins(r, n) THEN 1 ELSE 0) = dispatched[n]
  BY <1>1
<1>3. [n \in Balancing!Nodes |-> dispatched[n] + (IF Balancing!Wins(r, n) THEN 1 ELSE 0)] = [n \in 0 .. N - 1 |-> dispatched[n]]
  BY <1>2 DEF Balancing!Nodes
<1> QED
  BY <1>3

\* A select returns the node k.
LEMMA SelectWon ==
  ASSUME NEW r \in Requests, NEW k \in 0 .. N - 1,
         place[r] = "walk", place'[r] = "holding", guard'[r] = k,
         dispatched' = Balancing!Level([n \in Balancing!Nodes |-> dispatched[n] + (IF Balancing!Wins(r, n) THEN 1 ELSE 0)])
  PROVE  dispatched' = Balancing!Level([n \in 0 .. N - 1 |-> dispatched[n] + (IF n = k THEN 1 ELSE 0)])
<1>1. ASSUME NEW n PROVE Balancing!Wins(r, n) <=> n = k
  BY DEF Balancing!Wins, Balancing!Selecting, Balancing!RR!Selecting
<1>3. [n \in Balancing!Nodes |-> dispatched[n] + (IF Balancing!Wins(r, n) THEN 1 ELSE 0)]
        = [n \in 0 .. N - 1 |-> dispatched[n] + (IF n = k THEN 1 ELSE 0)]
  BY <1>1 DEF Balancing!Nodes
<1> QED
  BY <1>3

\* The locals of the request that moves, when no node fails.
Smoothly(r) ==
  /\ place[r] \in {"idle", "walk", "holding", "served"}
  /\ place[r] = "walk" => idx[r] = 0 /\ sub[r] \in {"health", "act"}

\* The nodes stay even when the request that moves keeps to the walk and the sums agree.
LEMMA EvenlyMoves ==
  ASSUME Evenly, NEW r \in Requests, OthersWait(r), Smoothly(r)', healthy' = [n \in 0 .. N - 1 |-> TRUE],
         dispatched' \in [0 .. N - 1 -> Nat], (\A m, n \in 0 .. N - 1 : Due(m) = Due(n))'
  PROVE  Evenly'
<1>1. ASSUME NEW q \in Requests PROVE Smoothly(q)'
  <2>1. Smoothly(q)
    BY DEF Evenly, Smoothly
  <2> QED
    BY <2>1 DEF OthersWait, Smoothly
<1> QED
  BY <1>1 DEF Evenly, Smoothly

\* The steps that interleave when no node fails.
LEMMA EvenStep ==
  ASSUME SelectConstants, RobinInv, Evenly, NEW r \in Requests, Balancing!RR!Step(r), place'[r] # "failing",
         dispatched' = Balancing!Level([n \in Balancing!Nodes |-> dispatched[n] + (IF Balancing!Wins(r, n) THEN 1 ELSE 0)])
  PROVE  Evenly'
<1>0. /\ RobinTypes /\ Smoothly(r) /\ dispatched \in [0 .. N - 1 -> Nat] /\ healthy = [n \in 0 .. N - 1 |-> TRUE]
      /\ N \in Nat \ {0}
  BY DEF RobinInv, Evenly, Smoothly, SelectConstants
<1>1. CASE Balancing!RR!Begin(r)
  <2> USE <1>1 DEF Balancing!RR!Begin, Balancing!RR!Walk, Balancing!RR!nodeVars
  <2>1. dispatched' = Balancing!Level([n \in 0 .. N - 1 |-> dispatched[n]])
    BY <1>0, NothingWon
  <2>2. dispatched' \in [0 .. N - 1 -> Nat] /\ (\A m, n \in 0 .. N - 1 : Due(m) = Due(n))'
    BY <1>0, <2>1, TicketTaken
  <2>3. OthersWait(r) /\ Smoothly(r)' /\ healthy' = healthy
    BY <1>0 DEF OthersWait, RobinTypes, Smoothly
  <2> QED
    BY <1>0, <2>2, <2>3, EvenlyMoves
<1>2. CASE Balancing!RR!Check(r)
  <2>1. PICK n : n = Balancing!RR!Visiting(r)
    OBVIOUS
  <2>2. n \in 0 .. N - 1
    BY <1>0, <2>1, VisitedNode
  <2>3. sub[r] # "until" /\ place[r] = "walk"
    BY <1>0, <1>2 DEF Smoothly, Balancing!RR!Check, Balancing!RR!LoadHealthy, Balancing!RR!ReadUntil
  <2>4. /\ sub' = [sub EXCEPT ![r] = IF healthy[n] THEN "act" ELSE "until"]
        /\ UNCHANGED <<active, healthy, place, idx, best, guard, counter, start>>
    BY <1>2, <2>1, <2>3 DEF Balancing!RR!Check, Balancing!RR!LoadHealthy, Balancing!RR!ReadUntil, Balancing!RR!nodeVars
  <2>5. sub' = [sub EXCEPT ![r] = "act"]
    BY <1>0, <2>2, <2>4
  <2>6. dispatched' = Balancing!Level([m \in 0 .. N - 1 |-> dispatched[m]])
    BY <1>0, <2>3, <2>4, NothingWon
  <2>7. \A m \in 0 .. N - 1 : Waiting(m)' = Waiting(m)
    BY <2>4 DEF Waiting
  <2>8. dispatched' \in [0 .. N - 1 -> Nat] /\ (\A m, p \in 0 .. N - 1 : Due(m) = Due(p))'
    BY <1>0, <2>4, <2>6, <2>7, EvenlyKept
  <2>9. OthersWait(r) /\ Smoothly(r)' /\ healthy' = healthy
    BY <1>0, <2>4, <2>5 DEF OthersWait, RobinTypes, Smoothly
  <2> QED
    BY <1>0, <2>8, <2>9, EvenlyMoves
<1>3. CASE Balancing!RR!Claim(r)
  <2>1. PICK k : k = Balancing!RR!Visiting(r)
    OBVIOUS
  <2>2. k \in 0 .. N - 1
    BY <1>0, <2>1, VisitedNode
  <2>3. /\ place[r] = "walk" /\ place' = [place EXCEPT ![r] = "holding"] /\ start' = [start EXCEPT ![r] = 0]
        /\ counter' = counter /\ guard' = [guard EXCEPT ![r] = k] /\ healthy' = healthy
        /\ sub' = [sub EXCEPT ![r] = "health"] /\ idx' = [idx EXCEPT ![r] = 0] /\ best' = [best EXCEPT ![r] = None]
    BY <1>3, <2>1 DEF Balancing!RR!Claim, Balancing!RR!NewGuard, Balancing!RR!FromClaimed
  <2>4. start[r] % N = k
    <3>1. idx[r] = 0 /\ start[r] \in Nat
      BY <1>0, <2>3 DEF Smoothly, RobinTypes
    <3>2. start[r] % N \in 0 .. N - 1
      BY <1>0, <3>1
    <3>3. ((start[r] % N) + 0) % N = start[r] % N
      BY <1>0, <3>2, SmallRemainder
    <3> QED
      BY <2>1, <3>1, <3>3 DEF Balancing!RR!Visiting, Balancing!RR!candidate_order
  <2>5. place'[r] = "holding" /\ guard'[r] = k
    BY <1>0, <2>3 DEF RobinTypes
  <2>6. dispatched' = Balancing!Level([n \in 0 .. N - 1 |-> dispatched[n] + (IF n = k THEN 1 ELSE 0)])
    BY <2>2, <2>3, <2>5, SelectWon
  <2>7. dispatched' \in [0 .. N - 1 -> Nat] /\ (\A m, n \in 0 .. N - 1 : Due(m) = Due(n))'
    BY <1>0, <2>2, <2>3, <2>4, <2>6, TicketSpent
  <2>8. OthersWait(r) /\ Smoothly(r)'
    BY <1>0, <2>3 DEF OthersWait, RobinTypes, Smoothly
  <2> QED
    BY <1>0, <2>3, <2>7, <2>8, EvenlyMoves
<1>4. CASE \/ Balancing!RR!AllCooled(r) \/ Balancing!RR!FallbackVisit(r) \/ Balancing!RR!FallbackClaim(r)
           \/ Balancing!RR!MarkFailed(r) \/ Balancing!RR!MarkFailedExpiry(r) \/ Balancing!RR!MarkFailedFlag(r)
  BY <1>0, <1>4 DEF Smoothly, RobinTypes, Balancing!RR!AllCooled, Balancing!RR!FallbackVisit, Balancing!RR!FallbackClaim,
     Balancing!RR!MarkFailed, Balancing!RR!MarkFailedExpiry, Balancing!RR!MarkFailedFlag
<1>5. CASE (Balancing!RR!MarkHealthy(r) \/ Balancing!RR!DropGuard(r)) /\ UNCHANGED <<counter, start>>
  <2>1. /\ place[r] \in {"holding", "served"} /\ counter' = counter /\ start' = start
        /\ sub' = sub /\ idx' = idx /\ best' = best
    BY <1>5 DEF Balancing!RR!MarkHealthy, Balancing!RR!DropGuard, Balancing!RR!walkVars
  <2>2. PICK p \in {"served", "idle"} : place' = [place EXCEPT ![r] = p]
    BY <1>5 DEF Balancing!RR!MarkHealthy, Balancing!RR!DropGuard
  <2>3. place'[r] = p
    BY <1>0, <2>2 DEF RobinTypes
  <2>4. guard' = guard \/ guard' = [guard EXCEPT ![r] = None]
    BY <1>5 DEF Balancing!RR!MarkHealthy, Balancing!RR!DropGuard
  <2>5. healthy' = [n \in 0 .. N - 1 |-> TRUE]
    BY <1>0, <1>5 DEF Balancing!RR!MarkHealthy, Balancing!RR!DropGuard
  <2>6. dispatched' = Balancing!Level([m \in 0 .. N - 1 |-> dispatched[m]])
    BY <1>0, <2>1, <2>3, NothingWon
  <2>7. \A m \in 0 .. N - 1 : Waiting(m)' = Waiting(m)
    BY <1>0, <2>1, <2>2 DEF Waiting, RobinTypes
  <2>8. dispatched' \in [0 .. N - 1 -> Nat] /\ (\A m, n \in 0 .. N - 1 : Due(m) = Due(n))'
    BY <1>0, <2>1, <2>6, <2>7, EvenlyKept
  <2>9. OthersWait(r) /\ Smoothly(r)'
    BY <1>0, <2>1, <2>2, <2>3, <2>4 DEF OthersWait, RobinTypes, Smoothly
  <2> QED
    BY <1>0, <2>5, <2>8, <2>9, EvenlyMoves
<1> QED
  BY <1>1, <1>2, <1>3, <1>4, <1>5 DEF Balancing!RR!Step, Balancing!RR!Select, Balancing!RR!Serve

\* The inductive invariant of node selection, as far as fairness and the counters go.
ShareInv ==
  /\ strategy = "round_robin" => RobinInv
  /\ discipline = "alone" => dispatched = [n \in 0 .. N - 1 |-> 0]
  /\ discipline # "alone" => discipline = "together" /\ strategy = "round_robin" /\ Evenly

\* What the invariant is about stays as it is.
LEMMA ShareKept ==
  ASSUME UNCHANGED <<active, healthy, place, sub, idx, best, guard, counter, start, dispatched>>
  PROVE  (RobinInv => RobinInv') /\ (Evenly => Evenly')
<1>1. RobinTypes => RobinTypes'
  BY DEF RobinTypes
<1>2. Booked => Booked'
  BY DEF Booked, Guards
<1>3. (\A r \in Requests : RobinLocals(r)) => (\A r \in Requests : RobinLocals(r))'
  BY DEF RobinLocals
<1>4. Evenly => Evenly'
  <2>1. ASSUME NEW n PROVE Due(n)' = Due(n)
    BY DEF Due, Waiting, Passed
  <2> QED
    BY <2>1 DEF Evenly
<1> QED
  BY <1>1, <1>2, <1>3, <1>4 DEF RobinInv

\* Nothing has been selected.
LEMMA ShareInitially ==
  ASSUME SelectConstants, Balancing!Init
  PROVE  ShareInv
<1> USE DEF Balancing!Init, Balancing!RR!Init, Balancing!RR!NodeInit, Balancing!RR!Nodes, Balancing!Nodes
<1>1. RobinTypes
  BY DEF RobinTypes, SelectConstants, Places
<1>2. \A r \in Requests : RobinLocals(r)
  BY DEF RobinLocals, SelectConstants, Balancing!RR!Serving
<1>3. Booked
  <2>1. ASSUME NEW n \in 0 .. N - 1 PROVE Guards(n) = {}
    BY DEF Guards, SelectConstants
  <2> QED
    BY <2>1, FS_EmptySet DEF Booked
<1>4. Evenly
  <2>1. ASSUME NEW n \in 0 .. N - 1 PROVE Waiting(n) = {}
    BY DEF Waiting
  <2>a. N \in Nat \ {0} /\ 0 \in 0 .. N - 1 /\ counter = 0
    BY DEF SelectConstants
  <2>b. 0 % N = 0
    BY <2>a, SmallRemainder
  <2>2. counter % N = 0
    BY <2>a, <2>b
  <2>3. ASSUME NEW n \in 0 .. N - 1 PROVE Passed(n) = 0
    BY <2>2 DEF Passed, SelectConstants
  <2>4. ASSUME NEW n \in 0 .. N - 1 PROVE Due(n) = 0
    <3>1. Waiting(n) = {} /\ Passed(n) = 0 /\ dispatched[n] = 0
      BY <2>1, <2>3
    <3>2. Cardinality(Waiting(n)) = 0
      BY <3>1, FS_EmptySet
    <3> QED
      BY ONLY <3>1, <3>2 DEF Due
  <2> QED
    BY <2>4 DEF Evenly
<1> QED
  BY <1>1, <1>2, <1>3, <1>4 DEF ShareInv, RobinInv

\* One step of the group.
LEMMA ShareStep ==
  ASSUME SelectConstants, ShareInv, Balancing!Next
  PROVE  ShareInv'
<1>0. strategy' = strategy /\ discipline' = discipline
  BY DEF Balancing!Next
<1>1. CASE \E r \in Requests : Balancing!StepAlone(r)
  <2>1. PICK r \in Requests : Balancing!StepAlone(r)
    BY <1>1
  <2>2. discipline = "alone" /\ dispatched' = dispatched
    BY <2>1 DEF Balancing!StepAlone
  <2>3. strategy = "round_robin" => RobinInv'
    BY <2>1, RobinStep DEF Balancing!StepAlone, ShareInv
  <2> QED
    BY <1>0, <2>2, <2>3 DEF ShareInv
<1>2. CASE \E r \in Requests : Balancing!StepTogether(r)
  <2>1. PICK r \in Requests : Balancing!StepTogether(r)
    BY <1>2
  <2>2. /\ discipline = "together" /\ Balancing!RR!Step(r) /\ place'[r] # "failing"
        /\ dispatched' = Balancing!Level([n \in Balancing!Nodes |-> dispatched[n] + (IF Balancing!Wins(r, n) THEN 1 ELSE 0)])
    BY <2>1 DEF Balancing!StepTogether
  <2>3. strategy = "round_robin" /\ RobinInv /\ Evenly
    BY <2>2 DEF ShareInv
  <2>4. RobinInv'
    BY <2>2, <2>3, RobinStep
  <2>5. Evenly'
    BY <2>2, <2>3, EvenStep
  <2> QED
    BY <1>0, <2>2, <2>3, <2>4, <2>5 DEF ShareInv
<1>3. CASE Balancing!Tick /\ UNCHANGED <<reserved, counter, start, dispatched>>
  <2>1. UNCHANGED <<active, healthy, place, sub, idx, best, guard, counter, start, dispatched>>
    BY <1>3 DEF Balancing!Tick, Balancing!nodeVars, Balancing!walkVars
  <2> QED
    BY <1>0, <2>1, ShareKept DEF ShareInv
<1> QED
  BY <1>1, <1>2, <1>3 DEF Balancing!Next

\* A set counted in an instance is counted as anywhere.
LEMMA CountedAlike ==
  ASSUME NEW S
  PROVE  Balancing!Cardinality(S) = Cardinality(S) /\ Balancing!RR!Cardinality(S) = Cardinality(S)
<1>1. Balancing!Cardinality(S) = Cardinality(S)
  BY DEF Balancing!Cardinality, Balancing!IsFiniteSet, Cardinality, IsFiniteSet
<1>2. Balancing!RR!Cardinality(S) = Cardinality(S)
  BY DEF Balancing!RR!Cardinality, Balancing!RR!IsFiniteSet, Cardinality, IsFiniteSet
<1> QED
  BY <1>1, <1>2

\* What the invariant says of two nodes.
LEMMA SharesAreFair ==
  ASSUME SelectConstants, ShareInv
  PROVE  FairShare
<1> DEFINE Selecting == {r \in Requests : place[r] \in Balancing!Selecting}
<1>1. IsFiniteSet(Selecting) /\ Cardinality(Selecting) \in Nat
  BY FS_Subset, FS_CardinalityType DEF SelectConstants
<1>2. ASSUME NEW m \in 0 .. N - 1, NEW n \in 0 .. N - 1 PROVE dispatched[n] - dispatched[m] <= 1 + Cardinality(Selecting)
  <2>1. CASE discipline = "alone"
    <3>1. dispatched[n] = 0 /\ dispatched[m] = 0
      BY <2>1 DEF ShareInv
    <3> QED
      BY <1>1, <3>1
  <2>2. CASE discipline # "alone"
    <3>1. Evenly
      BY <2>2 DEF ShareInv
    <3>2. Waiting(m) \subseteq Selecting
      BY DEF Waiting, Balancing!Selecting, Balancing!RR!Selecting
    <3>3. Cardinality(Waiting(m)) <= Cardinality(Selecting) /\ Cardinality(Waiting(m)) \in Nat
      BY <1>1, <3>2, WaitingCount, FS_Subset
    <3>4. Cardinality(Waiting(n)) \in Nat
      BY WaitingCount
    <3>5. Passed(m) \in {0, 1} /\ Passed(n) \in {0, 1}
      BY DEF Passed
    <3>6. dispatched[m] \in Nat /\ dispatched[n] \in Nat /\ Due(m) = Due(n)
      BY <3>1 DEF Evenly
    <3> HIDE DEF Selecting
    <3> QED
      BY <1>1, <3>3, <3>4, <3>5, <3>6 DEF Due
  <2> QED
    BY <2>1, <2>2
<1>3. strategy = "round_robin" => Balancing!RR!Conservation
  BY CountedAlike DEF ShareInv, RobinInv, Booked, Guards, Balancing!RR!Conservation, Balancing!RR!Nodes
<1> QED
  BY <1>2, <1>3, CountedAlike DEF FairShare, Balancing!FairShare, Balancing!Nodes

\* round_robin.rs, "Cycles through the nodes in order": for every number of requests, and of
\* nodes that the wrap of the ticket counter is a multiple of, as long as no node fails, the
\* numbers of requests two nodes have won differ by at most one plus the selects in progress,
\* however they interleave; and a node's busy counter is, failures and fallbacks included, the
\* number of guards on it.
THEOREM NodesShareEvenly ==
  ASSUME SelectConstants
  PROVE  Spec => []FairShare
<1>1. Init => ShareInv
  BY ShareInitially DEF Init
<1>2. ShareInv /\ [Next]_vars => ShareInv'
  <2> SUFFICES ASSUME ShareInv, [Next]_vars PROVE ShareInv'
    OBVIOUS
  <2>1. CASE Balancing!Next
    BY <2>1, ShareStep
  <2>2. CASE UNCHANGED strategyVars
    <3>1. UNCHANGED <<active, healthy, place, sub, idx, best, guard, strategy, discipline, counter, start, dispatched>>
      BY <2>2 DEF strategyVars
    <3> QED
      BY <3>1, ShareKept DEF ShareInv
  <2> QED
    BY <2>1, <2>2 DEF Next, vars
<1>3. ShareInv => FairShare
  BY SharesAreFair
<1> QED
  BY <1>1, <1>2, <1>3, PTL DEF Spec

---------------------------------------------------------------------------
(* Strategies: an undisturbed select against its reference.                *)

\* Some nodes, and no more requests than a counter can count.
NodeConstants ==
  /\ N \in Nat \ {0} /\ UsizeMax \in Nat /\ IsFiniteSet(Requests) /\ Cardinality(Requests) <= UsizeMax
  /\ None \notin 0 .. N - 1 /\ Cooldown \in Nat

\* Where a select is at work, and where a request disturbs another.
Searching == {"free", "busy", "release", "fallback", "walk"}
Working == Searching \cup {"failing", "locked"}

\* The types of what a select reads and writes.
SearchTypes ==
  /\ active \in [0 .. N - 1 -> Nat] /\ healthy \in [0 .. N - 1 -> BOOLEAN]
  /\ cooldown_until \in [0 .. N - 1 -> Nat] /\ clock \in Nat
  /\ place \in [Requests -> Working \cup {"idle", "holding", "served"}]
  /\ sub \in [Requests -> {"health", "until", "act"}]
  /\ now \in [Requests -> Nat] /\ idx \in [Requests -> 0 .. N]
  /\ best \in [Requests -> 0 .. N - 1 \cup {None}] /\ key \in [Requests -> Nat]
  /\ guard \in [Requests -> 0 .. N - 1 \cup {None}] /\ reserved \in [Requests -> SUBSET (0 .. N - 1)]
  /\ counter \in Nat /\ start \in [Requests -> Nat]

\* Nobody but r is at work.
Alone(r) == \A q \in Requests \ {r} : place[q] \notin Working

\* in_cooldown, and the nodes a select of r may return.
Chilled(n, t) == ~healthy[n] /\ t < cooldown_until[n]
Opened(r) == {n \in 0 .. N - 1 : ~Chilled(n, now[r])}

\* The load of the nodes without r's own reservations.
Loads(r) == [n \in 0 .. N - 1 |-> active[n] - (IF n \in reserved[r] THEN 1 ELSE 0)]

\* The first of the smallest.
First(b, S, f) == b \in S /\ \A k \in S : f[b] < f[k] \/ (f[b] = f[k] /\ b <= k)

\* The visit of node n: what its first read has shown.
Looks(r, n) ==
  /\ sub[r] = "act" => idx[r] < N /\ ~Chilled(n, now[r])
  /\ sub[r] = "until" => idx[r] < N /\ ~healthy[n]

\* The minimum of the expiries read so far.
Fell(r) ==
  idx[r] > 0 => First(best[r], 0 .. idx[r] - 1, cooldown_until) /\ key[r] = cooldown_until[best[r]]

\* The k-th node from r's ticket on.
Spot(r, k) == ((start[r] % N) + k) % N

\* What a request owns.
Owns(r) ==
  /\ place[r] \in Searching \cup {"idle"} => guard[r] = None
  /\ place[r] \notin Searching \cup {"idle"} => guard[r] \in 0 .. N - 1
  /\ place[r] \notin {"busy", "release"} => reserved[r] = {}
  /\ place[r] \notin Searching => best[r] = None

\* What the walks of priority_free know.
FreeKnows(r) ==
  /\ place[r] # "walk"
  /\ place[r] = "free" =>
       /\ best[r] = None /\ Looks(r, idx[r])
       /\ \A n \in 0 .. N - 1 : n < idx[r] => Chilled(n, now[r]) \/ active[n] # 0
  /\ place[r] = "busy" =>
       /\ Looks(r, idx[r]) /\ reserved[r] = {n \in Opened(r) : n < idx[r]}
       /\ reserved[r] = {} => best[r] = None /\ key[r] = UsizeMax
       /\ reserved[r] # {} => First(best[r], reserved[r], Loads(r)) /\ key[r] = Loads(r)[best[r]]
  /\ place[r] = "release" => best[r] \in reserved[r] /\ First(best[r], Opened(r), Loads(r))
  /\ place[r] = "fallback" => Opened(r) = {} /\ Fell(r)

\* What the walk of round_robin knows.
WalkKnows(r) ==
  /\ place[r] \notin {"free", "busy", "release"}
  /\ place[r] = "walk" =>
       /\ Looks(r, Spot(r, idx[r]))
       /\ \A k \in 0 .. N - 1 : k < idx[r] => Chilled(Spot(r, k), now[r])
  /\ place[r] = "fallback" => Fell(r) /\ \A k \in 0 .. N - 1 : Chilled(Spot(r, k), now[r])

\* What a select knows, whichever the strategy.
Knows(r) ==
  /\ strategy = "priority_free" => FreeKnows(r)
  /\ strategy # "priority_free" => WalkKnows(r)

\* Who owns a unit of a counter; nobody else does.
Holders(n) == {r \in Requests : guard[r] = n \/ n \in reserved[r]}
Tally == \A n \in 0 .. N - 1 : active[n] = Cardinality(Holders(n))

\* Whoever is at work is alone, and knows what its visits have shown.
SearchInv ==
  /\ SearchTypes /\ Tally
  /\ \A r \in Requests : (place[r] \in Working => Alone(r)) /\ Owns(r) /\ Knows(r)

\* The other discipline is not about one select.
AloneInv == discipline = "alone" => SearchInv

\* A remainder of a sum.
LEMMA SumRemainder ==
  ASSUME NEW n \in Nat \ {0}, NEW a \in Nat, NEW k \in Nat
  PROVE  ((a % n) + k) % n = (a + k) % n /\ (a + k) % n \in 0 .. n - 1
<1> DEFINE q == a \div n
           e == a % n
<1>1. q \in Nat /\ e \in 0 .. n - 1 /\ a = n * q + e
  OBVIOUS
<1> HIDE DEF q, e
<1> DEFINE p == (e + k) \div n
           j == (e + k) % n
<1>2. e + k \in Nat
  BY <1>1
<1>3. p \in Nat /\ j \in 0 .. n - 1 /\ e + k = n * p + j
  BY <1>2
<1> HIDE DEF p
<1>4. n * (q + p) = n * q + n * p /\ n * q \in Nat /\ n * p \in Nat
  BY <1>1, <1>3
<1>5. PICK i : i = j
  OBVIOUS
<1>6. i \in 0 .. n - 1 /\ e + k = n * p + i
  BY <1>3, <1>5
<1>7. a + k = n * (q + p) + i /\ q + p \in Nat /\ a + k \in Nat
  BY <1>1, <1>3, <1>4, <1>6
<1>8. (a + k) % n = i
  <2>1. PICK t \in Nat : t = q + p /\ a + k = n * t + i
    BY <1>7
  <2>2. PICK s \in Nat : s = a + k
    BY <1>7
  <2>3. s = n * t + i /\ i \in 0 .. n - 1
    BY <1>6, <2>1, <2>2
  <2>4. s % n = i
    BY <2>3, RemainderIs
  <2> QED
    BY <2>2, <2>4
<1> QED
  BY <1>5, <1>6, <1>8 DEF e

\* priority_free visits the nodes in their order, round_robin from its ticket on.
LEMMA VisitsInOrder ==
  ASSUME NodeConstants, SearchTypes, NEW r \in Requests
  PROVE  /\ idx[r] < N => Balancing!PF!Visiting(r) = idx[r]
         /\ Balancing!RR!Visiting(r) = Spot(r, idx[r])
         /\ \A k \in 0 .. N : Spot(r, k) = (start[r] + k) % N /\ Spot(r, k) \in 0 .. N - 1
<1>1. N \in Nat \ {0} /\ idx[r] \in 0 .. N /\ start[r] \in Nat
  BY DEF NodeConstants, SearchTypes
<1>2. ASSUME idx[r] < N PROVE Balancing!PF!Visiting(r) = idx[r]
  <2>1. PICK k \in 0 .. N - 1 : k = idx[r]
    BY <1>1, <1>2
  <2>2. (k + 0) % N = k /\ 0 % N = 0
    BY <1>1, SmallRemainder
  <2>3. ((0 % N) + k) % N = k
    BY <1>1, <2>2
  <2> QED
    BY <2>1, <2>3 DEF Balancing!PF!Visiting, Balancing!PF!candidate_order
<1>3. Balancing!RR!Visiting(r) = Spot(r, idx[r])
  BY DEF Balancing!RR!Visiting, Balancing!RR!candidate_order, Spot
<1>4. ASSUME NEW k \in 0 .. N PROVE Spot(r, k) = (start[r] + k) % N /\ Spot(r, k) \in 0 .. N - 1
  <2>1. k \in Nat
    BY <1>1
  <2>2. PICK a \in Nat : a = start[r]
    BY <1>1
  <2>3. ((a % N) + k) % N = (a + k) % N /\ (a + k) % N \in 0 .. N - 1
    BY <1>1, <2>1, SumRemainder
  <2> QED
    BY <2>2, <2>3 DEF Spot
<1> QED
  BY <1>2, <1>3, <1>4

\* The first of the smallest is the one FirstMin chooses.
LEMMA FirstIsChosen ==
  ASSUME NEW S, S \subseteq Nat, NEW f, \A k \in S : f[k] \in Int, NEW b, First(b, S, f)
  PROVE  Balancing!FirstMin(S, f) = b
<1> DEFINE P(n) == \A k \in S : f[n] < f[k] \/ (f[n] = f[k] /\ n <= k)
<1>1. Balancing!FirstMin(S, f) = CHOOSE n \in S : P(n)
  BY DEF Balancing!FirstMin
<1>2. b \in S /\ P(b)
  BY DEF First
<1>3. ASSUME NEW n \in S, P(n) PROVE n = b
  <2>1. f[n] \in Int /\ f[b] \in Int /\ n \in Nat /\ b \in Nat
    BY <1>2
  <2>2. (f[n] < f[b] \/ (f[n] = f[b] /\ n <= b)) /\ (f[b] < f[n] \/ (f[b] = f[n] /\ b <= n))
    BY <1>2, <1>3
  <2> QED
    BY <2>1, <2>2
<1> HIDE DEF P
<1> QED
  BY <1>1, <1>2, <1>3

\* Room for a unit, and a unit to give back.
LEMMA RoomInTheCounter ==
  ASSUME NodeConstants, Tally, NEW r \in Requests, NEW n \in 0 .. N - 1
  PROVE  /\ active[n] \in Nat
         /\ r \notin Holders(n) => active[n] < UsizeMax /\ Cardinality(Holders(n) \cup {r}) = active[n] + 1
         /\ r \in Holders(n) => active[n] > 0 /\ Cardinality(Holders(n) \ {r}) = active[n] - 1
<1> DEFINE S == Holders(n)
<1>1. S \subseteq Requests /\ active[n] = Cardinality(S)
  BY DEF Tally, Holders
<1> HIDE DEF S
<1>2. IsFiniteSet(S) /\ IsFiniteSet(S \cup {r}) /\ IsFiniteSet(Requests)
  BY <1>1, FS_Subset DEF NodeConstants
<1>3. /\ Cardinality(S) \in Nat /\ Cardinality(S \cup {r}) \in Nat /\ Cardinality(Requests) \in Nat
      /\ Cardinality(S \cup {r}) <= Cardinality(Requests)
  BY <1>1, <1>2, FS_Subset, FS_CardinalityType
<1>4. r \notin S => Cardinality(S \cup {r}) = Cardinality(S) + 1
  BY <1>2, FS_AddElement
<1>5. r \in S => Cardinality(S \ {r}) = Cardinality(S) - 1 /\ Cardinality(S) # 0
  BY <1>2, FS_RemoveElement, FS_EmptySet
<1>6. /\ active[n] \in Nat
      /\ r \notin S => active[n] < UsizeMax /\ Cardinality(S \cup {r}) = active[n] + 1
      /\ r \in S => active[n] > 0 /\ Cardinality(S \ {r}) = active[n] - 1
  BY <1>1, <1>3, <1>4, <1>5 DEF NodeConstants
<1> QED
  BY <1>6 DEF S

\* The counter follows its holders.
LEMMA TallyMoves ==
  ASSUME SearchTypes, Tally, NEW n \in 0 .. N - 1, NEW a, active' = [active EXCEPT ![n] = a],
         a = Cardinality(Holders(n)'), \A m \in 0 .. N - 1 : m # n => Holders(m)' = Holders(m)
  PROVE  Tally'
<1> SUFFICES ASSUME NEW m \in 0 .. N - 1 PROVE active'[m] = Cardinality(Holders(m)')
  BY DEF Tally
<1>1. CASE m = n
  BY <1>1 DEF SearchTypes
<1>2. CASE m # n
  BY <1>2 DEF SearchTypes, Tally
<1> QED
  BY <1>1, <1>2

\* The other requests stay where they are.
OthersStay(r) ==
  \A q \in Requests \ {r} :
    place'[q] = place[q] /\ best'[q] = best[q] /\ guard'[q] = guard[q] /\ reserved'[q] = reserved[q]

\* As they are not at work, what they know is not touched.
LEMMA SearchMoves ==
  ASSUME SearchInv, NEW r \in Requests, Alone(r), OthersStay(r), strategy' = strategy,
         SearchTypes', Tally', Owns(r)', Knows(r)'
  PROVE  SearchInv'
<1>1. ASSUME NEW q \in Requests \ {r} PROVE place'[q] \notin Working /\ Owns(q)' /\ Knows(q)'
  <2>1. Owns(q) /\ Knows(q) /\ place[q] \notin Working /\ place'[q] = place[q]
    BY DEF SearchInv, Alone, OthersStay
  <2>2. Owns(q)'
    BY <2>1 DEF Owns, OthersStay
  <2>3. Knows(q)'
    BY <2>1 DEF Knows, FreeKnows, WalkKnows, Working, Searching
  <2> QED
    BY <2>1, <2>2, <2>3
<1>2. Alone(r)'
  BY <1>1 DEF Alone
<1>3. ASSUME NEW q \in Requests PROVE (place'[q] \in Working => Alone(q)') /\ Owns(q)' /\ Knows(q)'
  BY <1>1, <1>2
<1> QED
  BY <1>3 DEF SearchInv

\* A select begins.
LEMMA BeginSearch ==
  ASSUME NodeConstants, SearchInv, NEW r \in Requests, Alone(r), strategy' = strategy,
         \/ strategy = "priority_free" /\ Balancing!PF!Begin(r) /\ UNCHANGED <<counter, start>>
         \/ strategy # "priority_free" /\ Balancing!RR!Begin(r) /\ UNCHANGED reserved
  PROVE  SearchInv'
<1> USE DEF Balancing!PF!Begin, Balancing!RR!Begin, Balancing!PF!Walk, Balancing!RR!Walk, Balancing!PF!nodeVars,
            Balancing!RR!nodeVars
<1>1. /\ place[r] = "idle" /\ now' = [now EXCEPT ![r] = clock] /\ idx' = [idx EXCEPT ![r] = 0]
      /\ sub' = [sub EXCEPT ![r] = "health"]
      /\ UNCHANGED <<active, healthy, cooldown_until, clock, best, key, guard, reserved>>
  OBVIOUS
<1>2. \/ strategy = "priority_free" /\ place' = [place EXCEPT ![r] = "free"] /\ UNCHANGED <<counter, start>>
      \/ /\ strategy # "priority_free" /\ place' = [place EXCEPT ![r] = "walk"]
         /\ start' = [start EXCEPT ![r] = counter] /\ counter' \in Nat
  <2>1. CASE strategy = "priority_free"
    BY <2>1
  <2>2. CASE strategy # "priority_free"
    <3>1. start' = [start EXCEPT ![r] = counter] /\ counter' = Balancing!RR!FetchAdd(counter)
          /\ place' = [place EXCEPT ![r] = "walk"]
      BY <2>2
    <3>2. counter \in Nat
      BY DEF SearchInv, SearchTypes
    <3>3. counter' \in Nat
      BY <3>1, <3>2 DEF Balancing!RR!FetchAdd
    <3> QED
      BY <2>2, <3>1, <3>3
  <2> QED
    BY <2>1, <2>2
<1>3. SearchTypes'
  <2>1. SearchTypes
    BY DEF SearchInv
  <2>2. 0 \in 0 .. N /\ {"free", "walk"} \subseteq Working
    BY DEF Working, Searching, NodeConstants
  <2>3. /\ place' \in [Requests -> Working \cup {"idle", "holding", "served"}] /\ start' \in [Requests -> Nat]
        /\ counter' \in Nat
    <3> DEFINE places == Working \cup {"idle", "holding", "served"}
    <3>1. /\ place \in [Requests -> places] /\ start \in [Requests -> Nat] /\ counter \in Nat
          /\ "free" \in places /\ "walk" \in places
      BY <2>1, <2>2 DEF SearchTypes
    <3> HIDE DEF places
    <3>2. place' \in [Requests -> places]
      BY <1>2, <3>1
    <3>3. start' \in [Requests -> Nat]
      BY <1>2, <3>1
    <3>4. counter' \in Nat
      BY <1>2, <3>1
    <3> QED
      BY <3>2, <3>3, <3>4 DEF places
  <2>4. now' \in [Requests -> Nat] /\ idx' \in [Requests -> 0 .. N] /\ sub' \in [Requests -> {"health", "until", "act"}]
    BY <1>1, <2>1, <2>2 DEF SearchTypes
  <2> QED
    BY <1>1, <2>1, <2>3, <2>4 DEF SearchTypes
<1>4. Tally'
  BY <1>1 DEF SearchInv, Tally, Holders
<1>5. Owns(r)' /\ OthersStay(r)
  BY <1>1, <1>2 DEF SearchInv, SearchTypes, Owns, OthersStay, Searching
<1>6. /\ sub'[r] = "health" /\ idx'[r] = 0 /\ best'[r] = None
      /\ place'[r] = IF strategy = "priority_free" THEN "free" ELSE "walk"
  BY <1>1, <1>2 DEF SearchInv, SearchTypes, Owns, Searching
<1>7. Knows(r)'
  <2>1. CASE strategy = "priority_free"
    BY <1>6, <2>1 DEF Knows, FreeKnows, Looks
  <2>2. CASE strategy # "priority_free"
    BY <1>6, <2>2 DEF Knows, WalkKnows, Looks
  <2> QED
    BY <2>1, <2>2
<1> QED
  BY <1>3, <1>4, <1>5, <1>7, SearchMoves

\* The two reads of a visit.
LEMMA CheckSearch ==
  ASSUME NodeConstants, SearchInv, NEW r \in Requests, Alone(r), strategy' = strategy,
         \/ strategy = "priority_free" /\ Balancing!PF!Check(r) /\ UNCHANGED <<counter, start>>
         \/ strategy # "priority_free" /\ Balancing!RR!Check(r) /\ UNCHANGED reserved
  PROVE  SearchInv'
<1> DEFINE n == IF strategy = "priority_free" THEN idx[r] ELSE Spot(r, idx[r])
<1>0. SearchTypes /\ Owns(r) /\ Knows(r)
  BY DEF SearchInv
<1>1. /\ UNCHANGED <<active, healthy, cooldown_until, clock, place, now, best, key, guard, reserved, counter, start>>
      /\ place[r] \in IF strategy = "priority_free" THEN {"free", "busy"} ELSE {"walk"}
  BY DEF Balancing!PF!Check, Balancing!RR!Check, Balancing!PF!LoadHealthy, Balancing!RR!LoadHealthy,
         Balancing!PF!ReadUntil, Balancing!RR!ReadUntil, Balancing!PF!nodeVars, Balancing!RR!nodeVars
<1>2. Looks(r, n)
  BY <1>0, <1>1 DEF Knows, FreeKnows, WalkKnows
<1>3. idx[r] < N
  BY <1>2 DEF Looks, Balancing!PF!Check, Balancing!RR!Check, Balancing!PF!LoadHealthy, Balancing!RR!LoadHealthy,
         Balancing!PF!ReadUntil, Balancing!RR!ReadUntil
<1>4. /\ strategy = "priority_free" => Balancing!PF!Visiting(r) = n
      /\ strategy # "priority_free" => Balancing!RR!Visiting(r) = n
      /\ n \in 0 .. N - 1 /\ idx[r] \in 0 .. N - 1 /\ N \in Nat
  <2>1. idx[r] \in 0 .. N /\ N \in Nat \ {0}
    BY <1>0 DEF SearchTypes, NodeConstants
  <2>2. idx[r] \in 0 .. N - 1
    BY <1>3, <2>1
  <2>3. /\ Balancing!PF!Visiting(r) = idx[r] /\ Balancing!RR!Visiting(r) = Spot(r, idx[r])
        /\ Spot(r, idx[r]) \in 0 .. N - 1
    BY <1>0, <1>3, <2>1, VisitsInOrder
  <2> QED
    BY <2>1, <2>2, <2>3
<1> HIDE DEF n
<1>5. \/ /\ sub[r] = "health" /\ idx' = idx
         /\ sub' = [sub EXCEPT ![r] = IF healthy[n] THEN "act" ELSE "until"]
      \/ /\ sub[r] = "until" /\ now[r] < cooldown_until[n]
         /\ idx' = [idx EXCEPT ![r] = idx[r] + 1] /\ sub' = [sub EXCEPT ![r] = "health"]
      \/ /\ sub[r] = "until" /\ ~(now[r] < cooldown_until[n]) /\ idx' = idx /\ sub' = [sub EXCEPT ![r] = "act"]
  <2>1. CASE strategy = "priority_free"
    <3>1. Balancing!PF!Visiting(r) = n
      BY <1>4, <2>1
    <3>2. PICK phase \in {"free", "busy"} : Balancing!PF!LoadHealthy(r, phase, n) \/ Balancing!PF!ReadUntil(r, phase, n)
      BY <2>1, <3>1 DEF Balancing!PF!Check
    <3> QED
      BY <3>2 DEF Balancing!PF!LoadHealthy, Balancing!PF!ReadUntil, Balancing!PF!Visited
  <2>2. CASE strategy # "priority_free"
    <3>1. Balancing!RR!Visiting(r) = n
      BY <1>4, <2>2
    <3>2. Balancing!RR!LoadHealthy(r, "walk", n) \/ Balancing!RR!ReadUntil(r, "walk", n)
      BY <2>2, <3>1 DEF Balancing!RR!Check
    <3> QED
      BY <3>2 DEF Balancing!RR!LoadHealthy, Balancing!RR!ReadUntil, Balancing!RR!Visited
  <2> QED
    BY <2>1, <2>2
<1>6. SearchTypes'
  <2>1. idx[r] + 1 \in 0 .. N
    BY <1>4
  <2>2. idx' \in [Requests -> 0 .. N]
    BY <1>0, <1>5, <2>1 DEF SearchTypes
  <2>3. sub' \in [Requests -> {"health", "until", "act"}]
    BY <1>0, <1>5 DEF SearchTypes
  <2> QED
    BY <1>0, <1>1, <2>2, <2>3 DEF SearchTypes
<1>7. Tally' /\ Owns(r)' /\ OthersStay(r)
  BY <1>0, <1>1 DEF SearchInv, Tally, Holders, Owns, OthersStay
<1>8. Opened(r)' = Opened(r) /\ Loads(r)' = Loads(r) /\ \A k : Spot(r, k)' = Spot(r, k)
  BY <1>1 DEF Opened, Loads, Spot, Chilled
<1>9. CASE idx' = idx
  <2>1. Looks(r, n)'
    BY <1>0, <1>2, <1>3, <1>5, <1>9, <1>1 DEF Looks, Chilled, SearchTypes, n, Spot
  <2>2. Knows(r)'
    <3>1. CASE strategy = "priority_free"
      BY <1>0, <1>1, <1>8, <1>9, <2>1, <3>1 DEF Knows, FreeKnows, n, Chilled
    <3>2. CASE strategy # "priority_free"
      BY <1>0, <1>1, <1>8, <1>9, <2>1, <3>2 DEF Knows, WalkKnows, n, Chilled
    <3> QED
      BY <3>1, <3>2
  <2> QED
    BY <1>6, <1>7, <2>2, SearchMoves
<1>10. CASE idx' # idx
  <2>1. /\ Chilled(n, now[r]) /\ idx'[r] = idx[r] + 1 /\ sub'[r] = "health"
    BY <1>0, <1>2, <1>5, <1>10 DEF Looks, Chilled, SearchTypes
  <2>2. ASSUME NEW k \in 0 .. N - 1 PROVE k < idx'[r] <=> k < idx[r] \/ k = idx[r]
    BY <1>4, <2>1
  <2>3. \A m \in 0 .. N - 1 : Chilled(m, now[r])' <=> Chilled(m, now[r])
    BY <1>1 DEF Chilled
  <2>4. Knows(r)'
    <3>1. CASE strategy = "priority_free"
      <4>1. n = idx[r]
        BY <3>1 DEF n
      <4>2. {m \in Opened(r) : m < idx'[r]} = {m \in Opened(r) : m < idx[r]}
        BY <2>1, <2>2, <4>1 DEF Opened
      <4>3. Looks(r, idx[r])'
        BY <2>1 DEF Looks
      <4> QED
        BY <1>0, <1>1, <1>8, <2>1, <2>2, <2>3, <3>1, <4>1, <4>2, <4>3 DEF Knows, FreeKnows
    <3>2. CASE strategy # "priority_free"
      <4>1. n = Spot(r, idx[r])
        BY <3>2 DEF n
      <4>2. \A k \in 0 .. N - 1 : k < idx'[r] => Chilled(Spot(r, k), now[r])
        BY <1>0, <1>1, <2>1, <2>2, <3>2, <4>1 DEF Knows, WalkKnows
      <4>3. \A k \in 0 .. N - 1 : Spot(r, k) \in 0 .. N - 1 /\ Spot(r, k)' = Spot(r, k)
        BY <1>0, <1>1, <1>4, VisitsInOrder DEF Spot
      <4>4. \A k \in 0 .. N - 1 : k < idx'[r] => Chilled(Spot(r, k), now[r])'
        BY <1>1, <4>2, <4>3 DEF Chilled
      <4> QED
        BY <1>1, <2>1, <3>2, <4>4 DEF Knows, WalkKnows, Looks
    <3> QED
      BY <3>1, <3>2
  <2> QED
    BY <1>6, <1>7, <2>4, SearchMoves
<1> QED
  BY <1>9, <1>10

\* What a guard's answer is made of, whichever way it was found.
Answered(r, n) ==
  /\ place' = [place EXCEPT ![r] = "holding"] /\ guard' = [guard EXCEPT ![r] = n]
  /\ sub' = [sub EXCEPT ![r] = "health"] /\ now' = [now EXCEPT ![r] = 0] /\ idx' = [idx EXCEPT ![r] = 0]
  /\ best' = [best EXCEPT ![r] = None] /\ key' = [key EXCEPT ![r] = 0]
  /\ UNCHANGED <<healthy, cooldown_until, clock, counter>>

\* A select that takes one more unit and returns.
LEMMA AnswerTaken ==
  ASSUME NodeConstants, SearchInv, NEW r \in Requests, Alone(r), strategy' = strategy, NEW n \in 0 .. N - 1,
         place[r] \in Searching \ {"busy", "release"}, Answered(r, n), reserved' = reserved,
         active' = [active EXCEPT ![n] = IF active[n] = UsizeMax THEN 0 ELSE active[n] + 1],
         start' \in [Requests -> Nat]
  PROVE  SearchInv'
<1>0. SearchTypes /\ Owns(r) /\ Tally
  BY DEF SearchInv
<1>1. guard[r] = None /\ reserved[r] = {} /\ n # None
  BY <1>0 DEF Owns, NodeConstants
<1>2. /\ r \notin Holders(n) /\ Holders(n)' = Holders(n) \cup {r}
      /\ \A m \in 0 .. N - 1 : m # n => Holders(m)' = Holders(m)
  <2>1. guard'[r] = n /\ \A q \in Requests : q # r => guard'[q] = guard[q]
    BY <1>0 DEF Answered, SearchTypes
  <2>2. None \notin 0 .. N - 1
    BY DEF NodeConstants
  <2>3. \A m \in 0 .. N - 1 : r \notin Holders(m)
    BY <1>1, <2>2 DEF Holders
  <2>4. \A m \in 0 .. N - 1, q \in Requests : q # r => (q \in Holders(m)' <=> q \in Holders(m))
    BY <2>1 DEF Holders
  <2>5. \A m \in 0 .. N - 1 : r \in Holders(m)' <=> m = n
    BY <1>1, <2>1 DEF Holders
  <2>6. \A m \in 0 .. N - 1 : Holders(m)' \subseteq Requests /\ Holders(m) \subseteq Requests
    BY DEF Holders
  <2>7. Holders(n)' = Holders(n) \cup {r}
    BY <2>4, <2>5, <2>6
  <2>8. ASSUME NEW m \in 0 .. N - 1, m # n PROVE Holders(m)' = Holders(m)
    <3>1. r \notin Holders(m)' /\ r \notin Holders(m) /\ Holders(m)' \subseteq Requests /\ Holders(m) \subseteq Requests
      BY <2>3, <2>5, <2>6, <2>8
    <3>2. \A q \in Requests : q \in Holders(m)' <=> q \in Holders(m)
      BY <2>4, <3>1
    <3> QED
      BY <3>1, <3>2
  <2> QED
    BY <2>3, <2>7, <2>8
<1>3. active[n] \in Nat /\ active[n] < UsizeMax /\ Cardinality(Holders(n) \cup {r}) = active[n] + 1
  BY <1>0, <1>2, RoomInTheCounter
<1>4. active' = [active EXCEPT ![n] = active[n] + 1] /\ active[n] + 1 \in Nat
  <2>1. active[n] # UsizeMax /\ active[n] + 1 \in Nat
    BY <1>3 DEF NodeConstants
  <2> QED
    BY <2>1
<1>5. Tally'
  BY <1>0, <1>2, <1>3, <1>4, TallyMoves
<1>6. SearchTypes'
  <2>1. active \in [0 .. N - 1 -> Nat]
    BY <1>0 DEF SearchTypes
  <2>2. active' \in [0 .. N - 1 -> Nat]
    BY <1>4, <2>1
  <2>3. 0 \in 0 .. N
    BY DEF NodeConstants
  <2> QED
    BY <1>0, <2>2, <2>3 DEF SearchTypes, Answered
<1>7. Owns(r)' /\ OthersStay(r) /\ Knows(r)'
  BY <1>0, <1>1 DEF SearchTypes, Answered, Owns, OthersStay, Searching, Knows, FreeKnows, WalkKnows
<1> QED
  BY <1>5, <1>6, <1>7, SearchMoves

\* What a select of r must return.
Reference(r) ==
  IF strategy = "priority_free"
  THEN IF Opened(r) # {} THEN Balancing!FirstMin(Opened(r), Loads(r)) ELSE Balancing!FirstMin(0 .. N - 1, cooldown_until)
  ELSE LET rank == {k \in 0 .. N - 1 : (start[r] + k) % N \in Opened(r)}
       IN  IF rank # {} THEN (start[r] + Balancing!Min(rank)) % N ELSE Balancing!FirstMin(0 .. N - 1, cooldown_until)

\* Loads are integers, and counters where nothing is reserved.
LEMMA LoadsAre ==
  ASSUME NodeConstants, SearchTypes, NEW r \in Requests
  PROVE  /\ \A n \in 0 .. N - 1 : Loads(r)[n] = active[n] - (IF n \in reserved[r] THEN 1 ELSE 0) /\ Loads(r)[n] \in Int
         /\ reserved[r] = {} => \A n \in 0 .. N - 1 : Loads(r)[n] = active[n]
         /\ Opened(r) \subseteq Nat /\ Opened(r) \subseteq 0 .. N - 1
<1>1. Opened(r) \subseteq 0 .. N - 1 /\ 0 .. N - 1 \subseteq Nat
  <2>1. N \in Nat
    BY DEF NodeConstants
  <2> QED
    BY <2>1 DEF Opened
<1>2. ASSUME NEW n \in 0 .. N - 1
      PROVE  /\ Loads(r)[n] = active[n] - (IF n \in reserved[r] THEN 1 ELSE 0) /\ Loads(r)[n] \in Int
             /\ reserved[r] = {} => Loads(r)[n] = active[n]
  <2>1. active[n] \in Nat
    BY DEF SearchTypes
  <2>2. Loads(r)[n] = active[n] - (IF n \in reserved[r] THEN 1 ELSE 0)
    BY DEF Loads
  <2> QED
    BY <2>1, <2>2
<1> QED
  BY <1>1, <1>2

\* The first walk claims an idle node.
LEMMA FreeClaimStep ==
  ASSUME NodeConstants, SearchInv, NEW r \in Requests, Alone(r), strategy' = strategy, strategy = "priority_free",
         Balancing!PF!FreeClaim(r), UNCHANGED <<counter, start>>
  PROVE  SearchInv' /\ (place'[r] = "holding" => guard'[r] = Reference(r))
<1> USE DEF Balancing!PF!FreeClaim
<1>0. SearchTypes /\ Owns(r) /\ Knows(r) /\ Tally
  BY DEF SearchInv
<1>1. place[r] = "free" /\ sub[r] = "act" /\ Looks(r, idx[r]) /\ best[r] = None
      /\ \A n \in 0 .. N - 1 : n < idx[r] => Chilled(n, now[r]) \/ active[n] # 0
  BY <1>0 DEF Knows, FreeKnows
<1>2. idx[r] < N /\ ~Chilled(idx[r], now[r]) /\ N \in Nat \ {0} /\ idx[r] \in 0 .. N
  BY <1>0, <1>1 DEF Looks, SearchTypes, NodeConstants
<1>3. PICK n \in 0 .. N - 1 : n = idx[r] /\ Balancing!PF!Visiting(r) = n
  <2>1. idx[r] \in 0 .. N - 1
    BY <1>2
  <2> QED
    BY <1>0, <1>2, <2>1, VisitsInOrder
<1>4. UNCHANGED <<healthy, cooldown_until, clock, reserved, counter, start>>
  OBVIOUS
<1>5. CASE active[n] = 0
  <2>1. active' = [active EXCEPT ![n] = 1] /\ Answered(r, n)
    BY <1>3, <1>4, <1>5 DEF Answered, Balancing!PF!FromClaimed
  <2>2. active' = [active EXCEPT ![n] = IF active[n] = UsizeMax THEN 0 ELSE active[n] + 1]
    <3>1. r \notin Holders(n)
      BY <1>0, <1>1 DEF Holders, Owns, NodeConstants, Searching
    <3>2. active[n] < UsizeMax
      BY <1>0, <3>1, RoomInTheCounter
    <3>3. (IF active[n] = UsizeMax THEN 0 ELSE active[n] + 1) = 1
      BY <1>5, <3>2 DEF NodeConstants
    <3> QED
      BY <2>1, <3>3
  <2>3. SearchInv'
    <3>1. place[r] \in Searching \ {"busy", "release"} /\ start' \in [Requests -> Nat]
      BY <1>0, <1>1, <1>4 DEF Searching, SearchTypes
    <3> QED
      BY <1>4, <2>1, <2>2, <3>1, AnswerTaken
  <2>4. First(n, Opened(r), Loads(r))
    <3>1. n \in Opened(r) /\ reserved[r] = {}
      BY <1>0, <1>1, <1>2, <1>3 DEF Opened, Owns
    <3>2. Loads(r)[n] = 0 /\ \A k \in 0 .. N - 1 : Loads(r)[k] = active[k] /\ active[k] \in Nat
      BY <1>0, <1>5, <3>1, LoadsAre DEF SearchTypes
    <3>3. ASSUME NEW k \in Opened(r) PROVE Loads(r)[n] < Loads(r)[k] \/ (Loads(r)[n] = Loads(r)[k] /\ n <= k)
      <4>1. k \in 0 .. N - 1 /\ ~Chilled(k, now[r])
        BY DEF Opened
      <4>2. CASE active[k] = 0
        <5>1. ~(k < idx[r])
          BY <1>1, <4>1, <4>2
        <5> QED
          BY <1>3, <3>2, <4>1, <4>2, <5>1
      <4>3. CASE active[k] # 0
        BY <3>2, <4>1, <4>3
      <4> QED
        BY <4>2, <4>3
    <3> QED
      BY <3>1, <3>3 DEF First
  <2>5. Balancing!FirstMin(Opened(r), Loads(r)) = n
    <3>1. \A k \in Opened(r) : Loads(r)[k] \in Int
      BY <1>0, LoadsAre
    <3>2. Opened(r) \subseteq Nat
      BY <1>0, LoadsAre
    <3> QED
      BY <2>4, <3>1, <3>2, FirstIsChosen
  <2>6. guard'[r] = n /\ Opened(r) # {}
    BY <1>0, <2>1, <2>4 DEF Answered, SearchTypes, First
  <2> QED
    BY <2>3, <2>5, <2>6 DEF Reference
<1>6. CASE active[n] # 0
  <2>1. /\ idx' = [idx EXCEPT ![r] = idx[r] + 1] /\ sub' = [sub EXCEPT ![r] = "health"]
        /\ UNCHANGED <<active, guard, place, now, best, key>>
    BY <1>3, <1>6 DEF Balancing!PF!Visited
  <2>2. SearchTypes'
    <3>1. idx[r] + 1 \in 0 .. N
      BY <1>2
    <3>2. idx' \in [Requests -> 0 .. N] /\ sub' \in [Requests -> {"health", "until", "act"}]
      BY <1>0, <2>1, <3>1 DEF SearchTypes
    <3> QED
      BY <1>0, <1>4, <2>1, <3>2 DEF SearchTypes
  <2>3. Tally' /\ Owns(r)' /\ OthersStay(r)
    BY <1>0, <1>4, <2>1 DEF Tally, Holders, Owns, OthersStay
  <2>4. Knows(r)'
    <3>1. idx'[r] = idx[r] + 1 /\ sub'[r] = "health" /\ place'[r] = "free" /\ best'[r] = None
      BY <1>0, <1>1, <2>1 DEF SearchTypes
    <3>2. ASSUME NEW m \in 0 .. N - 1, m < idx'[r] PROVE Chilled(m, now[r])' \/ active'[m] # 0
      <4>1. m < idx[r] \/ m = n
        BY <1>2, <1>3, <3>1, <3>2
      <4>2. Chilled(m, now[r]) \/ active[m] # 0
        BY <1>1, <1>6, <4>1
      <4> QED
        BY <1>4, <2>1, <4>2 DEF Chilled
    <3> QED
      BY <3>1, <3>2 DEF Knows, FreeKnows, Looks
  <2>5. place'[r] # "holding"
    BY <1>1, <2>1
  <2> QED
    BY <2>2, <2>3, <2>4, <2>5, SearchMoves
<1> QED
  BY <1>5, <1>6

\* The first walk found none.
LEMMA FreeExhaustedStep ==
  ASSUME NodeConstants, SearchInv, NEW r \in Requests, Alone(r), strategy' = strategy, strategy = "priority_free",
         Balancing!PF!FreeExhausted(r), UNCHANGED <<counter, start>>
  PROVE  SearchInv' /\ place'[r] # "holding"
<1>0. SearchTypes /\ Owns(r) /\ Knows(r) /\ Tally
  BY DEF SearchInv
<1>1. /\ place[r] = "free" /\ place' = [place EXCEPT ![r] = "busy"] /\ idx' = [idx EXCEPT ![r] = 0]
      /\ sub' = [sub EXCEPT ![r] = "health"] /\ key' = [key EXCEPT ![r] = UsizeMax]
      /\ UNCHANGED <<active, healthy, cooldown_until, clock, now, best, guard, reserved, counter, start>>
  BY DEF Balancing!PF!FreeExhausted, Balancing!PF!Walk, Balancing!PF!nodeVars
<1>2. best[r] = None /\ reserved[r] = {} /\ guard[r] = None
  BY <1>0, <1>1 DEF Owns, Knows, FreeKnows, Searching
<1>3. SearchTypes'
  <2>1. 0 \in 0 .. N /\ UsizeMax \in Nat /\ "busy" \in Working
    BY DEF NodeConstants, Working, Searching
  <2>2. /\ place' \in [Requests -> Working \cup {"idle", "holding", "served"}] /\ idx' \in [Requests -> 0 .. N]
        /\ sub' \in [Requests -> {"health", "until", "act"}] /\ key' \in [Requests -> Nat]
    BY <1>0, <1>1, <2>1 DEF SearchTypes
  <2> QED
    BY <1>0, <1>1, <2>2 DEF SearchTypes
<1>4. Tally' /\ OthersStay(r)
  BY <1>0, <1>1 DEF Tally, Holders, OthersStay, SearchTypes
<1>5. /\ place'[r] = "busy" /\ idx'[r] = 0 /\ sub'[r] = "health" /\ key'[r] = UsizeMax
      /\ best'[r] = None /\ reserved'[r] = {} /\ guard'[r] = None
  BY <1>0, <1>1, <1>2 DEF SearchTypes
<1>6. Owns(r)'
  BY <1>5 DEF Owns, Searching
<1>7. Knows(r)'
  <2>1. {n \in Opened(r) : n < idx[r]}' = {}
    BY <1>5 DEF Opened
  <2> QED
    BY <1>5, <2>1 DEF Knows, FreeKnows, Looks
<1> QED
  BY <1>3, <1>4, <1>5, <1>6, <1>7, SearchMoves

\* The running minimum takes one more candidate behind the others.
LEMMA FirstExtends ==
  ASSUME NEW S, S \subseteq Nat, NEW n \in Nat, \A k \in S : k < n, NEW f, \A k \in S \cup {n} : f[k] \in Int,
         NEW b, First(b, S, f)
  PROVE  /\ f[n] < f[b] => First(n, S \cup {n}, f)
         /\ f[n] >= f[b] => First(b, S \cup {n}, f)
<1>1. b \in S /\ \A k \in S : f[b] < f[k] \/ (f[b] = f[k] /\ b <= k)
  BY DEF First
<1>2. f[b] \in Int /\ f[n] \in Int /\ b < n /\ b \in Nat
  BY <1>1
<1>3. ASSUME f[n] < f[b], NEW k \in S \cup {n} PROVE f[n] < f[k] \/ (f[n] = f[k] /\ n <= k)
  <2>1. CASE k = n
    BY <1>2, <2>1
  <2>2. CASE k \in S
    <3>1. f[k] \in Int /\ (f[b] < f[k] \/ f[b] = f[k])
      BY <1>1, <2>2
    <3> QED
      BY <1>2, <1>3, <3>1
  <2> QED
    BY <2>1, <2>2
<1>4. ASSUME f[n] >= f[b], NEW k \in S \cup {n} PROVE f[b] < f[k] \/ (f[b] = f[k] /\ b <= k)
  <2>1. CASE k = n
    BY <1>2, <1>4, <2>1
  <2>2. CASE k \in S
    BY <1>1, <2>2
  <2> QED
    BY <2>1, <2>2
<1> QED
  BY <1>1, <1>3, <1>4 DEF First

\* The second walk reserves a node; a strictly lower load becomes the best.
LEMMA ReserveStep ==
  ASSUME NodeConstants, SearchInv, NEW r \in Requests, Alone(r), strategy' = strategy, strategy = "priority_free",
         Balancing!PF!Reserve(r), UNCHANGED <<counter, start>>
  PROVE  SearchInv' /\ place'[r] # "holding"
<1>0. SearchTypes /\ Owns(r) /\ Knows(r) /\ Tally
  BY DEF SearchInv
<1>1. place[r] = "busy" /\ sub[r] = "act" /\ UNCHANGED <<healthy, cooldown_until, clock, place, now, guard, counter, start>>
  BY DEF Balancing!PF!Reserve
<1>2. /\ Looks(r, idx[r]) /\ reserved[r] = {n \in Opened(r) : n < idx[r]} /\ guard[r] = None
      /\ reserved[r] = {} => best[r] = None /\ key[r] = UsizeMax
      /\ reserved[r] # {} => First(best[r], reserved[r], Loads(r)) /\ key[r] = Loads(r)[best[r]]
  BY <1>0, <1>1 DEF Knows, FreeKnows, Owns, Searching
<1>3. idx[r] < N /\ ~Chilled(idx[r], now[r]) /\ N \in Nat \ {0} /\ idx[r] \in 0 .. N
  BY <1>0, <1>1, <1>2 DEF Looks, SearchTypes, NodeConstants
<1>4. PICK n \in 0 .. N - 1 : n = idx[r] /\ Balancing!PF!Visiting(r) = n
  <2>1. idx[r] \in 0 .. N - 1
    BY <1>3
  <2> QED
    BY <1>0, <1>3, <2>1, VisitsInOrder
<1>5. /\ active' = [active EXCEPT ![n] = IF active[n] = UsizeMax THEN 0 ELSE active[n] + 1]
      /\ reserved' = [reserved EXCEPT ![r] = reserved[r] \cup {n}]
      /\ \/ active[n] < key[r] /\ best' = [best EXCEPT ![r] = n] /\ key' = [key EXCEPT ![r] = active[n]]
         \/ active[n] >= key[r] /\ UNCHANGED <<best, key>>
      /\ idx' = [idx EXCEPT ![r] = idx[r] + 1] /\ sub' = [sub EXCEPT ![r] = "health"]
  BY <1>4 DEF Balancing!PF!Reserve, Balancing!PF!Visited, Balancing!PF!FetchAdd
<1>6. n \notin reserved[r] /\ r \notin Holders(n) /\ n # None
  <2>1. n \notin reserved[r]
    BY <1>2, <1>3, <1>4
  <2> QED
    BY <1>2, <2>1 DEF Holders, NodeConstants
<1>7. active[n] \in Nat /\ active[n] < UsizeMax /\ Cardinality(Holders(n) \cup {r}) = active[n] + 1
  BY <1>0, <1>6, RoomInTheCounter
<1>8. active' = [active EXCEPT ![n] = active[n] + 1] /\ active[n] + 1 \in Nat
  <2>1. active[n] # UsizeMax /\ active[n] + 1 \in Nat
    BY <1>7 DEF NodeConstants
  <2> QED
    BY <1>5, <2>1
<1>9. Tally'
  <2>1. Holders(n)' = Holders(n) \cup {r} /\ \A m \in 0 .. N - 1 : m # n => Holders(m)' = Holders(m)
    BY <1>0, <1>1, <1>5 DEF Holders, SearchTypes
  <2> QED
    BY <1>0, <1>7, <1>8, <2>1, TallyMoves
<1>10. SearchTypes'
  <2>1. idx[r] + 1 \in 0 .. N
    BY <1>3
  <2>2. idx' \in [Requests -> 0 .. N] /\ sub' \in [Requests -> {"health", "until", "act"}]
    BY <1>0, <1>5, <2>1 DEF SearchTypes
  <2>3. active' \in [0 .. N - 1 -> Nat]
    BY <1>0, <1>8 DEF SearchTypes
  <2>4. best' \in [Requests -> 0 .. N - 1 \cup {None}] /\ key' \in [Requests -> Nat]
    <3>1. best \in [Requests -> 0 .. N - 1 \cup {None}] /\ key \in [Requests -> Nat] /\ active[n] \in Nat
      BY <1>0, <1>7 DEF SearchTypes
    <3>2. CASE best' = [best EXCEPT ![r] = n] /\ key' = [key EXCEPT ![r] = active[n]]
      BY <3>1, <3>2
    <3>3. CASE UNCHANGED <<best, key>>
      BY <3>1, <3>3
    <3> QED
      BY <1>5, <3>2, <3>3
  <2>5. reserved' \in [Requests -> SUBSET (0 .. N - 1)]
    BY <1>0, <1>5 DEF SearchTypes
  <2> QED
    BY <1>0, <1>1, <2>2, <2>3, <2>4, <2>5 DEF SearchTypes
<1>11. OthersStay(r) /\ Owns(r)'
  BY <1>0, <1>1, <1>5 DEF OthersStay, SearchTypes, Owns, Searching
<1>12. Opened(r)' = Opened(r) /\ Opened(r) \subseteq Nat /\ n \in Opened(r)
  BY <1>0, <1>1, <1>3, <1>4, LoadsAre DEF Opened, Chilled
<1>13. reserved'[r] = reserved[r] \cup {n} /\ reserved'[r] = {m \in Opened(r) : m < idx[r] + 1} /\ idx'[r] = idx[r] + 1
  <2>1. reserved'[r] = reserved[r] \cup {n} /\ idx'[r] = idx[r] + 1
    BY <1>0, <1>5 DEF SearchTypes
  <2>2. \A m \in Opened(r) : m < idx[r] + 1 <=> m < idx[r] \/ m = n
    BY <1>3, <1>4, <1>12
  <2> QED
    BY <1>2, <1>12, <2>1, <2>2
<1>14. Loads(r)' = Loads(r) /\ Loads(r)[n] = active[n]
  <2>1. Loads(r)[n] = active[n]
    BY <1>6, <1>7 DEF Loads
  <2>2. ASSUME NEW m \in 0 .. N - 1
        PROVE  active'[m] - (IF m \in reserved'[r] THEN 1 ELSE 0) = active[m] - (IF m \in reserved[r] THEN 1 ELSE 0)
    <3>1. active'[m] = IF m = n THEN active[n] + 1 ELSE active[m]
      BY <1>0, <1>8 DEF SearchTypes
    <3>2. CASE m = n
      BY <1>6, <1>7, <1>13, <3>1, <3>2
    <3>3. CASE m # n
      <4>1. m \in reserved'[r] <=> m \in reserved[r]
        BY <1>13, <3>3
      <4> QED
        BY <3>1, <3>3, <4>1
    <3> QED
      BY <3>2, <3>3
  <2> QED
    BY <2>1, <2>2 DEF Loads
<1>15. First(best[r], reserved[r], Loads(r))' /\ key'[r] = Loads(r)[best'[r]]
  <2> DEFINE f == Loads(r)
  <2>1. \A k \in reserved[r] \cup {n} : f[k] \in Int
    BY <1>0, <1>2, <1>12, LoadsAre
  <2>2. reserved[r] \subseteq Nat /\ n \in Nat /\ \A k \in reserved[r] : k < n
    BY <1>2, <1>4, <1>12
  <2>3. f[n] = active[n]
    BY <1>14
  <2> HIDE DEF f
  <2>4. CASE reserved[r] = {}
    <3>1. active[n] < key[r]
      BY <1>2, <1>7, <2>4
    <3>2. best'[r] = n /\ key'[r] = active[n]
      <4>1. best \in [Requests -> 0 .. N - 1 \cup {None}] /\ key \in [Requests -> Nat]
        BY <1>0 DEF SearchTypes
      <4> QED
        BY <1>5, <1>7, <3>1, <4>1
    <3>3. First(n, {n}, f)
      BY <1>7, <2>2, <2>3 DEF First
    <3>4. First(best'[r], reserved'[r], f) /\ key'[r] = f[best'[r]]
      BY <1>13, <2>3, <2>4, <3>2, <3>3
    <3> QED
      BY <1>14, <3>4 DEF f
  <2>5. CASE reserved[r] # {}
    <3>1. First(best[r], reserved[r], f) /\ key[r] = f[best[r]]
      BY <1>2, <2>5 DEF f
    <3>2. /\ f[n] < f[best[r]] => First(n, reserved[r] \cup {n}, f)
          /\ f[n] >= f[best[r]] => First(best[r], reserved[r] \cup {n}, f)
      <4>1. PICK S : S = reserved[r]
        OBVIOUS
      <4>2. S \subseteq Nat /\ (\A k \in S : k < n) /\ (\A k \in S \cup {n} : f[k] \in Int) /\ First(best[r], S, f)
        BY <2>1, <2>2, <3>1, <4>1
      <4>3. /\ f[n] < f[best[r]] => First(n, S \cup {n}, f)
            /\ f[n] >= f[best[r]] => First(best[r], S \cup {n}, f)
        BY <2>2, <4>2, FirstExtends
      <4> QED
        BY <4>1, <4>3
    <3>3. CASE active[n] < key[r] /\ best' = [best EXCEPT ![r] = n] /\ key' = [key EXCEPT ![r] = active[n]]
      <4>1. best'[r] = n /\ key'[r] = active[n]
        BY <1>0, <3>3 DEF SearchTypes
      <4>2. First(best'[r], reserved'[r], f) /\ key'[r] = f[best'[r]]
        BY <1>13, <2>3, <3>1, <3>2, <3>3, <4>1
      <4> QED
        BY <1>14, <4>2 DEF f
    <3>4. CASE active[n] >= key[r] /\ UNCHANGED <<best, key>>
      <4>1. First(best'[r], reserved'[r], f) /\ key'[r] = f[best'[r]]
        BY <1>13, <2>3, <3>1, <3>2, <3>4
      <4> QED
        BY <1>14, <4>1 DEF f
    <3> QED
      BY <1>5, <3>3, <3>4
  <2> QED
    BY <2>4, <2>5
<1>16. Knows(r)' /\ place'[r] # "holding"
  <2>1. sub'[r] = "health" /\ place'[r] = "busy"
    BY <1>0, <1>1, <1>5 DEF SearchTypes
  <2>2. (reserved[r] = {m \in Opened(r) : m < idx[r]})' /\ reserved'[r] # {}
    BY <1>12, <1>13
  <2> QED
    BY <1>14, <1>15, <2>1, <2>2 DEF Knows, FreeKnows, Looks
<1> QED
  BY <1>9, <1>10, <1>11, <1>16, SearchMoves

\* The end of the second walk.
LEMMA BusyExhaustedStep ==
  ASSUME NodeConstants, SearchInv, NEW r \in Requests, Alone(r), strategy' = strategy, strategy = "priority_free",
         Balancing!PF!BusyExhausted(r), UNCHANGED <<counter, start>>
  PROVE  SearchInv' /\ place'[r] # "holding"
<1>0. SearchTypes /\ Owns(r) /\ Knows(r) /\ Tally
  BY DEF SearchInv
<1>1. /\ place[r] = "busy" /\ idx[r] = N
      /\ UNCHANGED <<active, healthy, cooldown_until, clock, now, best, key, guard, reserved, counter, start>>
      /\ \/ best[r] # None /\ place' = [place EXCEPT ![r] = "release"] /\ UNCHANGED <<idx, sub>>
         \/ /\ best[r] = None /\ place' = [place EXCEPT ![r] = "fallback"] /\ idx' = [idx EXCEPT ![r] = 0]
            /\ sub' = [sub EXCEPT ![r] = "health"]
  BY DEF Balancing!PF!BusyExhausted, Balancing!PF!Walk, Balancing!PF!nodeVars
<1>2. /\ reserved[r] = {n \in Opened(r) : n < N} /\ guard[r] = None
      /\ reserved[r] = {} => best[r] = None
      /\ reserved[r] # {} => First(best[r], reserved[r], Loads(r))
  BY <1>0, <1>1 DEF Knows, FreeKnows, Owns, Searching
<1>3. reserved[r] = Opened(r) /\ (best[r] = None <=> reserved[r] = {})
  <2>1. N \in Nat /\ None \notin 0 .. N - 1 /\ Opened(r) \subseteq 0 .. N - 1
    BY DEF NodeConstants, Opened
  <2>2. reserved[r] = Opened(r)
    BY <1>2, <2>1
  <2> QED
    BY <1>2, <2>1, <2>2 DEF First
<1>4. SearchTypes'
  <2>1. 0 \in 0 .. N
    BY DEF NodeConstants
  <2>2. place' \in [Requests -> Working \cup {"idle", "holding", "served"}]
    BY <1>0, <1>1 DEF SearchTypes, Working, Searching
  <2>3. idx' \in [Requests -> 0 .. N]
    BY <1>0, <1>1, <2>1 DEF SearchTypes
  <2>4. sub' \in [Requests -> {"health", "until", "act"}]
    BY <1>0, <1>1 DEF SearchTypes
  <2> QED
    BY <1>0, <1>1, <2>2, <2>3, <2>4 DEF SearchTypes
<1>5. Tally' /\ OthersStay(r)
  BY <1>0, <1>1 DEF Tally, Holders, OthersStay, SearchTypes
<1>6. Opened(r)' = Opened(r) /\ Loads(r)' = Loads(r)
  BY <1>1 DEF Opened, Loads, Chilled
<1>7. CASE best[r] # None
  <2>1. place'[r] = "release"
    BY <1>0, <1>1, <1>7 DEF SearchTypes
  <2>2. best[r] \in reserved[r] /\ First(best[r], Opened(r), Loads(r))
    BY <1>2, <1>3, <1>7 DEF First
  <2>3. Owns(r)' /\ Knows(r)'
    BY <1>1, <1>2, <1>6, <2>1, <2>2 DEF Owns, Knows, FreeKnows, Searching
  <2> QED
    BY <1>4, <1>5, <2>1, <2>3, SearchMoves
<1>8. CASE best[r] = None
  <2>1. place'[r] = "fallback" /\ idx'[r] = 0 /\ Opened(r) = {} /\ reserved[r] = {}
    BY <1>0, <1>1, <1>3, <1>8 DEF SearchTypes
  <2>2. Owns(r)' /\ Knows(r)'
    BY <1>1, <1>2, <1>6, <2>1 DEF Owns, Knows, FreeKnows, Searching, Fell
  <2> QED
    BY <1>4, <1>5, <2>1, <2>2, SearchMoves
<1> QED
  BY <1>7, <1>8

\* A reservation that lost is given back.
LEMMA ReleaseLoserStep ==
  ASSUME NodeConstants, SearchInv, NEW r \in Requests, Alone(r), strategy' = strategy, strategy = "priority_free",
         Balancing!PF!ReleaseLoser(r), UNCHANGED <<counter, start>>
  PROVE  SearchInv' /\ place'[r] # "holding"
<1>0. SearchTypes /\ Owns(r) /\ Knows(r) /\ Tally
  BY DEF SearchInv
<1>1. place[r] = "release" /\ UNCHANGED <<healthy, cooldown_until, clock, place, sub, now, idx, best, key, guard, counter, start>>
  BY DEF Balancing!PF!ReleaseLoser, Balancing!PF!walkVars
<1>2. best[r] \in reserved[r] /\ First(best[r], Opened(r), Loads(r)) /\ guard[r] = None
  BY <1>0, <1>1 DEF Knows, FreeKnows, Owns, Searching
<1>3. PICK n \in reserved[r] \ {best[r]} :
        /\ active' = [active EXCEPT ![n] = IF active[n] = 0 THEN UsizeMax ELSE active[n] - 1]
        /\ reserved' = [reserved EXCEPT ![r] = reserved[r] \ {n}]
  BY DEF Balancing!PF!ReleaseLoser, Balancing!PF!FetchSub
<1>4. n \in 0 .. N - 1 /\ r \in Holders(n)
  BY <1>0, <1>3 DEF SearchTypes, Holders
<1>5. active[n] \in Nat /\ active[n] > 0 /\ Cardinality(Holders(n) \ {r}) = active[n] - 1
  BY <1>0, <1>4, RoomInTheCounter
<1>6. active' = [active EXCEPT ![n] = active[n] - 1] /\ active[n] - 1 \in Nat
  <2>1. active[n] # 0 /\ active[n] - 1 \in Nat
    BY <1>5
  <2> QED
    BY <1>3, <2>1
<1>7. reserved'[r] = reserved[r] \ {n}
  BY <1>0, <1>3 DEF SearchTypes
<1>8. Tally'
  <2>1. n # None
    BY <1>4 DEF NodeConstants
  <2>2. Holders(n)' = Holders(n) \ {r} /\ \A m \in 0 .. N - 1 : m # n => Holders(m)' = Holders(m)
    BY <1>0, <1>1, <1>2, <1>3, <2>1 DEF Holders, SearchTypes
  <2> QED
    BY <1>0, <1>4, <1>5, <1>6, <2>2, TallyMoves
<1>9. SearchTypes'
  <2>1. active' \in [0 .. N - 1 -> Nat]
    BY <1>0, <1>6 DEF SearchTypes
  <2>2. reserved' \in [Requests -> SUBSET (0 .. N - 1)]
    BY <1>0, <1>3 DEF SearchTypes
  <2> QED
    BY <1>0, <1>1, <2>1, <2>2 DEF SearchTypes
<1>10. OthersStay(r) /\ Owns(r)'
  BY <1>0, <1>1, <1>3 DEF OthersStay, SearchTypes, Owns, Searching
<1>11. Opened(r)' = Opened(r)
  BY <1>1 DEF Opened, Chilled
<1>12. Loads(r)' = Loads(r)
  <2>1. ASSUME NEW m \in 0 .. N - 1
        PROVE  active'[m] - (IF m \in reserved'[r] THEN 1 ELSE 0) = active[m] - (IF m \in reserved[r] THEN 1 ELSE 0)
    <3>1. active'[m] = IF m = n THEN active[n] - 1 ELSE active[m]
      BY <1>0, <1>6 DEF SearchTypes
    <3>2. CASE m = n
      BY <1>3, <1>5, <1>7, <3>1, <3>2
    <3>3. CASE m # n
      <4>1. m \in reserved'[r] <=> m \in reserved[r]
        BY <1>7, <3>3
      <4> QED
        BY <3>1, <3>3, <4>1
    <3> QED
      BY <3>2, <3>3
  <2> QED
    BY <2>1 DEF Loads
<1>13. Knows(r)' /\ place'[r] # "holding"
  <2>1. best'[r] \in reserved'[r] /\ First(best[r], Opened(r), Loads(r))'
    BY <1>1, <1>2, <1>3, <1>7, <1>11, <1>12
  <2> QED
    BY <1>1, <2>1 DEF Knows, FreeKnows
<1> QED
  BY <1>8, <1>9, <1>10, <1>13, SearchMoves

\* The winner's reservation becomes the claim.
LEMMA KeepWinnerStep ==
  ASSUME NodeConstants, SearchInv, NEW r \in Requests, Alone(r), strategy' = strategy, strategy = "priority_free",
         Balancing!PF!KeepWinner(r), UNCHANGED <<counter, start>>
  PROVE  SearchInv' /\ guard'[r] = Reference(r)
<1>0. SearchTypes /\ Owns(r) /\ Knows(r) /\ Tally
  BY DEF SearchInv
<1>1. /\ place[r] = "release" /\ reserved[r] \subseteq {best[r]} /\ Answered(r, best[r])
      /\ reserved' = [reserved EXCEPT ![r] = {}] /\ UNCHANGED <<active, start>>
  BY DEF Balancing!PF!KeepWinner, Balancing!PF!FromClaimed, Balancing!PF!nodeVars, Answered
<1>2. best[r] \in reserved[r] /\ First(best[r], Opened(r), Loads(r)) /\ guard[r] = None
  BY <1>0, <1>1 DEF Knows, FreeKnows, Owns, Searching
<1>3. best[r] \in 0 .. N - 1 /\ reserved[r] = {best[r]} /\ best[r] # None
  BY <1>0, <1>1, <1>2 DEF SearchTypes, NodeConstants
<1>4. Tally'
  <2>1. None \notin 0 .. N - 1
    BY DEF NodeConstants
  <2>2. \A m \in 0 .. N - 1 : Holders(m)' = Holders(m)
    BY <1>0, <1>1, <1>2, <1>3, <2>1 DEF Holders, SearchTypes, Answered
  <2> QED
    BY <1>0, <1>1, <2>2 DEF Tally
<1>5. SearchTypes'
  <2>1. 0 \in 0 .. N
    BY DEF NodeConstants
  <2>2. reserved' \in [Requests -> SUBSET (0 .. N - 1)]
    BY <1>0, <1>1 DEF SearchTypes
  <2> QED
    BY <1>0, <1>1, <1>3, <2>1, <2>2 DEF SearchTypes, Answered
<1>6. Owns(r)' /\ OthersStay(r) /\ Knows(r)'
  BY <1>0, <1>1, <1>3 DEF SearchTypes, Answered, Owns, OthersStay, Searching, Knows, FreeKnows, WalkKnows
<1>7. Balancing!FirstMin(Opened(r), Loads(r)) = best[r]
  <2>1. (\A k \in Opened(r) : Loads(r)[k] \in Int) /\ Opened(r) \subseteq Nat
    BY <1>0, LoadsAre
  <2> QED
    BY <1>2, <2>1, FirstIsChosen
<1>8. guard'[r] = best[r] /\ Opened(r) # {}
  BY <1>0, <1>1, <1>2 DEF Answered, SearchTypes, First
<1>9. guard'[r] = Reference(r)
  BY <1>7, <1>8 DEF Reference
<1> QED
  BY <1>4, <1>5, <1>6, <1>9, SearchMoves

\* soonest_recovering_node reads one expiry.
LEMMA FallbackVisitStep ==
  ASSUME NodeConstants, SearchInv, NEW r \in Requests, Alone(r), strategy' = strategy,
         Balancing!PF!FallbackVisit(r) \/ Balancing!RR!FallbackVisit(r), UNCHANGED <<reserved, counter, start>>
  PROVE  SearchInv' /\ place'[r] # "holding"
<1>0. SearchTypes /\ Owns(r) /\ Knows(r) /\ Tally
  BY DEF SearchInv
<1>1. /\ place[r] = "fallback" /\ idx[r] < N
      /\ UNCHANGED <<active, healthy, cooldown_until, clock, place, now, guard, reserved, counter, start>>
      /\ idx' = [idx EXCEPT ![r] = idx[r] + 1] /\ sub' = [sub EXCEPT ![r] = "health"]
      /\ \/ /\ idx[r] = 0 \/ cooldown_until[idx[r]] < key[r]
            /\ best' = [best EXCEPT ![r] = idx[r]] /\ key' = [key EXCEPT ![r] = cooldown_until[idx[r]]]
         \/ idx[r] # 0 /\ cooldown_until[idx[r]] >= key[r] /\ UNCHANGED <<best, key>>
  BY DEF Balancing!PF!FallbackVisit, Balancing!RR!FallbackVisit, Balancing!PF!Visited, Balancing!RR!Visited,
         Balancing!PF!nodeVars, Balancing!RR!nodeVars
<1>2. PICK n \in 0 .. N - 1 : n = idx[r] /\ n \in Nat /\ N \in Nat
  <2>1. idx[r] \in 0 .. N /\ N \in Nat
    BY <1>0 DEF SearchTypes, NodeConstants
  <2> QED
    BY <1>1, <2>1
<1>3. Fell(r)
  BY <1>0, <1>1 DEF Knows, FreeKnows, WalkKnows
<1>4. SearchTypes'
  <2>1. n + 1 \in 0 .. N /\ cooldown_until[n] \in Nat
    BY <1>0, <1>2 DEF SearchTypes
  <2>2. idx' \in [Requests -> 0 .. N]
    BY <1>0, <1>1, <1>2, <2>1 DEF SearchTypes
  <2>3. sub' \in [Requests -> {"health", "until", "act"}]
    BY <1>0, <1>1 DEF SearchTypes
  <2>4. best' \in [Requests -> 0 .. N - 1 \cup {None}]
    BY <1>0, <1>1, <1>2 DEF SearchTypes
  <2>5. key' \in [Requests -> Nat]
    BY <1>0, <1>1, <1>2, <2>1 DEF SearchTypes
  <2> QED
    BY <1>0, <1>1, <2>2, <2>3, <2>4, <2>5 DEF SearchTypes
<1>5. Tally' /\ OthersStay(r)
  BY <1>0, <1>1 DEF Tally, Holders, OthersStay, SearchTypes
<1>6. Owns(r)'
  BY <1>0, <1>1 DEF Owns, Searching
<1>7. Fell(r)'
  <2> DEFINE f == cooldown_until
             S == 0 .. n - 1
  <2>1. /\ S \subseteq Nat /\ (\A k \in S : k < n) /\ (\A k \in S \cup {n} : f[k] \in Int /\ f[k] \in Nat)
        /\ S \cup {n} = 0 .. n + 1 - 1
    <3>1. S \subseteq 0 .. N - 1 /\ (\A k \in S : k < n) /\ S \cup {n} = 0 .. n + 1 - 1 /\ 0 .. N - 1 \subseteq Nat
      BY <1>2
    <3>2. f \in [0 .. N - 1 -> Nat]
      BY <1>0 DEF SearchTypes
    <3>3. ASSUME NEW k \in S \cup {n} PROVE f[k] \in Nat
      <4>1. k \in 0 .. N - 1
        BY <3>1
      <4> QED
        BY <3>2, <4>1
    <3>4. \A k \in S \cup {n} : f[k] \in Int /\ f[k] \in Nat
      BY <3>3
    <3> HIDE DEF f, S
    <3> QED
      BY <3>1, <3>4
  <2>2. idx'[r] = n + 1 /\ cooldown_until' = f /\ n \in Nat
    BY <1>0, <1>1, <1>2 DEF SearchTypes
  <2> HIDE DEF f, S
  <2>3. First(best'[r], S \cup {n}, f) /\ key'[r] = f[best'[r]]
    <3>1. CASE n = 0
      <4>1. best'[r] = n /\ key'[r] = f[n]
        BY <1>0, <1>1, <1>2, <3>1 DEF SearchTypes, f
      <4>2. S \cup {n} = {n}
        BY <3>1 DEF S
      <4>3. First(n, {n}, f)
        BY <1>2, <2>1 DEF First
      <4> QED
        BY <4>1, <4>2, <4>3
    <3>2. CASE n # 0
      <4>1. First(best[r], S, f) /\ key[r] = f[best[r]]
        BY <1>2, <1>3, <3>2 DEF Fell, S, f
      <4>2. /\ f[n] < f[best[r]] => First(n, S \cup {n}, f)
            /\ f[n] >= f[best[r]] => First(best[r], S \cup {n}, f)
        BY <1>2, <2>1, <4>1, FirstExtends
      <4>3. CASE f[n] < key[r] /\ best' = [best EXCEPT ![r] = n] /\ key' = [key EXCEPT ![r] = f[n]]
        <5>1. best'[r] = n /\ key'[r] = f[n]
          BY <1>0, <4>3 DEF SearchTypes
        <5> QED
          BY <4>1, <4>2, <4>3, <5>1
      <4>4. CASE f[n] >= key[r] /\ UNCHANGED <<best, key>>
        BY <4>1, <4>2, <4>4
      <4> QED
        BY <1>1, <1>2, <3>2, <4>3, <4>4 DEF f
    <3> QED
      BY <3>1, <3>2
  <2>4. First(best'[r], 0 .. idx'[r] - 1, cooldown_until') /\ key'[r] = cooldown_until'[best'[r]]
    <3>1. 0 .. idx'[r] - 1 = S \cup {n}
      BY <2>1, <2>2
    <3> QED
      BY <2>2, <2>3, <3>1 DEF First
  <2> QED
    BY <2>4 DEF Fell
<1>8. Knows(r)' /\ place'[r] # "holding"
  <2>1. Opened(r)' = Opened(r) /\ \A k \in 0 .. N - 1 : Chilled(Spot(r, k), now[r])' <=> Chilled(Spot(r, k), now[r])
    BY <1>1 DEF Opened, Chilled, Spot
  <2> QED
    BY <1>0, <1>1, <1>7, <2>1 DEF Knows, FreeKnows, WalkKnows
<1> QED
  BY <1>4, <1>5, <1>6, <1>8, SearchMoves

\* When every node is cooled the reference is the soonest to recover.
LEMMA FallbackIsReference ==
  ASSUME NodeConstants, SearchTypes, NEW r \in Requests, Knows(r), place[r] = "fallback", idx[r] = N
  PROVE  best[r] \in 0 .. N - 1 /\ Reference(r) = best[r]
<1>1. N \in Nat \ {0}
  BY DEF NodeConstants
<1>2. First(best[r], 0 .. N - 1, cooldown_until)
  <2>1. Fell(r)
    BY DEF Knows, FreeKnows, WalkKnows
  <2> QED
    BY <1>1, <2>1 DEF Fell
<1>3. Balancing!FirstMin(0 .. N - 1, cooldown_until) = best[r]
  <2>1. 0 .. N - 1 \subseteq Nat /\ \A k \in 0 .. N - 1 : cooldown_until[k] \in Int
    BY <1>1 DEF SearchTypes
  <2> QED
    BY <1>2, <2>1, FirstIsChosen
<1>4. best[r] \in 0 .. N - 1
  BY <1>2 DEF First
<1>5. CASE strategy = "priority_free"
  <2>1. Opened(r) = {}
    BY <1>5 DEF Knows, FreeKnows
  <2> QED
    BY <1>3, <1>4, <1>5, <2>1 DEF Reference
<1>6. CASE strategy # "priority_free"
  <2>1. ASSUME NEW k \in 0 .. N - 1 PROVE (start[r] + k) % N \notin Opened(r)
    <3>1. Chilled(Spot(r, k), now[r])
      BY <1>6 DEF Knows, WalkKnows
    <3>2. Spot(r, k) = (start[r] + k) % N
      <4>1. k \in 0 .. N
        BY <1>1
      <4> QED
        BY <4>1, VisitsInOrder
    <3> QED
      BY <3>1, <3>2 DEF Opened
  <2>2. {k \in 0 .. N - 1 : (start[r] + k) % N \in Opened(r)} = {}
    BY <2>1
  <2> QED
    BY <1>3, <1>4, <1>6, <2>2 DEF Reference
<1> QED
  BY <1>5, <1>6

\* The end of min_by_key: the minimum serves the request.
LEMMA FallbackClaimStep ==
  ASSUME NodeConstants, SearchInv, NEW r \in Requests, Alone(r), strategy' = strategy,
         Balancing!PF!FallbackClaim(r) \/ Balancing!RR!FallbackClaim(r), UNCHANGED <<reserved, counter>>,
         start' = start \/ start' = [start EXCEPT ![r] = 0]
  PROVE  SearchInv' /\ guard'[r] = Reference(r)
<1>0. SearchTypes /\ Owns(r) /\ Knows(r) /\ Tally
  BY DEF SearchInv
<1>1. place[r] = "fallback" /\ idx[r] = N
  BY DEF Balancing!PF!FallbackClaim, Balancing!RR!FallbackClaim
<1>2. PICK n \in 0 .. N - 1 : n = best[r] /\ Reference(r) = n
  BY <1>0, <1>1, FallbackIsReference
<1>3. Answered(r, n) /\ active' = [active EXCEPT ![n] = IF active[n] = UsizeMax THEN 0 ELSE active[n] + 1]
  BY <1>2 DEF Answered, Balancing!PF!FallbackClaim, Balancing!RR!FallbackClaim, Balancing!PF!NewGuard,
     Balancing!RR!NewGuard, Balancing!PF!FromClaimed, Balancing!RR!FromClaimed, Balancing!PF!FetchAdd, Balancing!RR!FetchAdd
<1>4. place[r] \in Searching \ {"busy", "release"} /\ start' \in [Requests -> Nat]
  <2>1. start \in [Requests -> Nat]
    BY <1>0 DEF SearchTypes
  <2>2. start' \in [Requests -> Nat]
    BY <2>1
  <2> QED
    BY <1>1, <2>2 DEF Searching
<1>5. SearchInv'
  BY <1>3, <1>4, AnswerTaken
<1>6. guard'[r] = n
  BY <1>0, <1>3 DEF Answered, SearchTypes
<1> QED
  BY <1>2, <1>5, <1>6

\* round_robin serves from the first node of its walk that is not in cooldown.
LEMMA WalkClaimStep ==
  ASSUME NodeConstants, SearchInv, NEW r \in Requests, Alone(r), strategy' = strategy, strategy # "priority_free",
         Balancing!RR!Claim(r), UNCHANGED reserved
  PROVE  SearchInv' /\ guard'[r] = Reference(r)
<1>0. SearchTypes /\ Owns(r) /\ Knows(r) /\ Tally
  BY DEF SearchInv
<1>1. place[r] = "walk" /\ sub[r] = "act"
  BY DEF Balancing!RR!Claim
<1>2. Looks(r, Spot(r, idx[r])) /\ \A k \in 0 .. N - 1 : k < idx[r] => Chilled(Spot(r, k), now[r])
  BY <1>0, <1>1 DEF Knows, WalkKnows
<1>3. idx[r] < N /\ ~Chilled(Spot(r, idx[r]), now[r]) /\ N \in Nat \ {0} /\ idx[r] \in 0 .. N
  BY <1>0, <1>1, <1>2 DEF Looks, SearchTypes, NodeConstants
<1>4. PICK i \in 0 .. N - 1 : i = idx[r]
  BY <1>3
<1>5. \A k \in 0 .. N - 1 : Spot(r, k) = (start[r] + k) % N /\ Spot(r, k) \in 0 .. N - 1
  <2>1. \A k \in 0 .. N - 1 : k \in 0 .. N
    BY <1>3
  <2> QED
    BY <1>0, <2>1, VisitsInOrder
<1>6. PICK n \in 0 .. N - 1 : n = Spot(r, i) /\ n = Balancing!RR!Visiting(r) /\ n = (start[r] + i) % N
  BY <1>0, <1>4, <1>5, VisitsInOrder
<1>7. Answered(r, n) /\ active' = [active EXCEPT ![n] = IF active[n] = UsizeMax THEN 0 ELSE active[n] + 1]
  BY <1>6 DEF Answered, Balancing!RR!Claim, Balancing!RR!NewGuard, Balancing!RR!FromClaimed, Balancing!RR!FetchAdd
<1>8. place[r] \in Searching \ {"busy", "release"} /\ start' \in [Requests -> Nat]
  <2>1. start \in [Requests -> Nat] /\ start' = [start EXCEPT ![r] = 0]
    BY <1>0 DEF SearchTypes, Balancing!RR!Claim
  <2>2. start' \in [Requests -> Nat]
    BY <2>1
  <2> QED
    BY <1>1, <2>2 DEF Searching
<1>9. SearchInv'
  BY <1>7, <1>8, AnswerTaken
<1>10. guard'[r] = n
  BY <1>0, <1>7 DEF Answered, SearchTypes
<1>11. Reference(r) = n
  <2> DEFINE rank == {k \in 0 .. N - 1 : (start[r] + k) % N \in Opened(r)}
  <2>1. i \in rank
    BY <1>3, <1>4, <1>6 DEF Opened
  <2>2. ASSUME NEW k \in rank PROVE i <= k
    <3>1. k \in 0 .. N - 1 /\ Spot(r, k) \in Opened(r)
      BY <1>5
    <3>2. ~Chilled(Spot(r, k), now[r])
      BY <3>1 DEF Opened
    <3>3. ~(k < idx[r])
      BY <1>2, <3>1, <3>2
    <3> QED
      BY <1>3, <1>4, <3>1, <3>3
  <2>3. rank \subseteq Nat
    BY <1>3
  <2> HIDE DEF rank
  <2>4. Balancing!Min(rank) = i
    <3>1. Balancing!Min(rank) = CHOOSE x \in rank : \A y \in rank : x <= y
      BY DEF Balancing!Min
    <3>2. ASSUME NEW x \in rank, \A y \in rank : x <= y PROVE x = i
      <4>1. x <= i /\ i <= x /\ x \in Nat /\ i \in Nat
        BY <1>3, <2>1, <2>2, <2>3, <3>2
      <4> QED
        BY <4>1
    <3> QED
      BY <2>1, <2>2, <3>1, <3>2
  <2>5. Reference(r) = (start[r] + Balancing!Min(rank)) % N
    BY <2>1 DEF Reference, rank
  <2> QED
    BY <1>6, <2>4, <2>5
<1> QED
  BY <1>9, <1>10, <1>11

\* Every node is cooled.
LEMMA AllCooledStep ==
  ASSUME NodeConstants, SearchInv, NEW r \in Requests, Alone(r), strategy' = strategy, strategy # "priority_free",
         Balancing!RR!AllCooled(r), UNCHANGED reserved
  PROVE  SearchInv' /\ place'[r] # "holding"
<1>0. SearchTypes /\ Owns(r) /\ Knows(r) /\ Tally
  BY DEF SearchInv
<1>1. /\ place[r] = "walk" /\ idx[r] = N
      /\ UNCHANGED <<active, healthy, cooldown_until, clock, now, best, key, guard, reserved, counter, start>>
      /\ place' = [place EXCEPT ![r] = "fallback"] /\ idx' = [idx EXCEPT ![r] = 0] /\ sub' = [sub EXCEPT ![r] = "health"]
  BY DEF Balancing!RR!AllCooled, Balancing!RR!Walk, Balancing!RR!nodeVars
<1>2. \A k \in 0 .. N - 1 : Chilled(Spot(r, k), now[r])
  <2>1. N \in Nat
    BY DEF NodeConstants
  <2>2. \A k \in 0 .. N - 1 : k < N
    BY <2>1
  <2> QED
    BY <1>0, <1>1, <2>2 DEF Knows, WalkKnows
<1>3. SearchTypes'
  <2>1. 0 \in 0 .. N /\ "fallback" \in Working
    BY DEF NodeConstants, Working, Searching
  <2>2. place' \in [Requests -> Working \cup {"idle", "holding", "served"}]
    BY <1>0, <1>1, <2>1 DEF SearchTypes
  <2>3. idx' \in [Requests -> 0 .. N] /\ sub' \in [Requests -> {"health", "until", "act"}]
    BY <1>0, <1>1, <2>1 DEF SearchTypes
  <2> QED
    BY <1>0, <1>1, <2>2, <2>3 DEF SearchTypes
<1>4. Tally' /\ OthersStay(r)
  BY <1>0, <1>1 DEF Tally, Holders, OthersStay, SearchTypes
<1>5. place'[r] = "fallback" /\ idx'[r] = 0
  BY <1>0, <1>1 DEF SearchTypes
<1>6. Owns(r)'
  BY <1>0, <1>1, <1>5 DEF Owns, Searching
<1>7. Knows(r)'
  <2>1. \A k \in 0 .. N - 1 : Chilled(Spot(r, k), now[r])'
    BY <1>1, <1>2 DEF Chilled, Spot
  <2> QED
    BY <1>5, <2>1 DEF Knows, WalkKnows, Fell
<1> QED
  BY <1>3, <1>4, <1>5, <1>6, <1>7, SearchMoves

\* What the handler does with its guard.
LEMMA ServeStep ==
  ASSUME NodeConstants, SearchInv, NEW r \in Requests, Alone(r), strategy' = strategy,
         Balancing!PF!Serve(r) \/ Balancing!RR!Serve(r), UNCHANGED <<reserved, counter, start>>
  PROVE  SearchInv' /\ place'[r] # "holding"
<1>0. SearchTypes /\ Owns(r) /\ Tally
  BY DEF SearchInv
<1> DEFINE places == Working \cup {"idle", "holding", "served"}
<1>1. /\ place \in [Requests -> places] /\ {"idle", "served", "failing", "locked"} \subseteq places
      /\ healthy \in [0 .. N - 1 -> BOOLEAN] /\ cooldown_until \in [0 .. N - 1 -> Nat] /\ clock \in Nat
      /\ now \in [Requests -> Nat] /\ guard \in [Requests -> 0 .. N - 1 \cup {None}]
  BY <1>0 DEF SearchTypes, Working
<1> HIDE DEF places
<1>2. /\ place[r] \in {"holding", "served", "failing", "locked"}
      /\ UNCHANGED <<sub, idx, best, key, reserved, counter, start, clock>>
  BY DEF Balancing!PF!Serve, Balancing!RR!Serve,
     Balancing!PF!MarkHealthy, Balancing!PF!MarkFailed, Balancing!PF!MarkFailedExpiry, Balancing!PF!MarkFailedFlag,
     Balancing!PF!DropGuard, Balancing!RR!MarkHealthy, Balancing!RR!MarkFailed, Balancing!RR!MarkFailedExpiry,
     Balancing!RR!MarkFailedFlag, Balancing!RR!DropGuard, Balancing!PF!walkVars, Balancing!RR!walkVars
<1>3. PICK n \in 0 .. N - 1 : n = guard[r]
  BY <1>0, <1>2 DEF Owns, Searching
<1>4. reserved[r] = {} /\ best[r] = None /\ n # None
  BY <1>0, <1>2 DEF Owns, Searching, NodeConstants
<1>5. ASSUME NEW p \in {"idle", "served", "failing", "locked"}, place' = [place EXCEPT ![r] = p],
             p = "idle" => guard' = [guard EXCEPT ![r] = None], p # "idle" => guard' = guard,
             healthy' \in [0 .. N - 1 -> BOOLEAN], cooldown_until' \in [0 .. N - 1 -> Nat], now' \in [Requests -> Nat],
             active' \in [0 .. N - 1 -> Nat], Tally'
      PROVE  SearchInv' /\ place'[r] # "holding"
  <2>1. place'[r] = p /\ place' \in [Requests -> places] /\ \A q \in Requests \ {r} : place'[q] = place[q]
    BY <1>1, <1>5
  <2>2. /\ guard' \in [Requests -> 0 .. N - 1 \cup {None}] /\ \A q \in Requests \ {r} : guard'[q] = guard[q]
        /\ guard'[r] = IF p = "idle" THEN None ELSE n
    BY <1>1, <1>3, <1>5
  <2>3. SearchTypes'
    BY <1>0, <1>2, <1>1, <1>5, <2>1, <2>2 DEF SearchTypes, places
  <2>4. OthersStay(r)
    BY <1>2, <2>1, <2>2 DEF OthersStay
  <2>5. Owns(r)'
    BY <1>2, <1>4, <2>1, <2>2 DEF Owns, Searching
  <2>6. Knows(r)'
    BY <2>1 DEF Knows, FreeKnows, WalkKnows
  <2> QED
    BY <1>5, <2>1, <2>3, <2>4, <2>5, <2>6, SearchMoves
<1>kept. ASSUME UNCHANGED <<active, guard>> PROVE Tally' /\ active' \in [0 .. N - 1 -> Nat]
  <2>1. reserved' = reserved /\ active \in [0 .. N - 1 -> Nat]
    BY <1>0, <1>2 DEF SearchTypes
  <2>2. \A m \in 0 .. N - 1 : Holders(m)' = Holders(m)
    BY <1>kept, <2>1 DEF Holders
  <2> QED
    BY <1>0, <1>kept, <2>1, <2>2 DEF Tally
<1>6. CASE Balancing!PF!MarkHealthy(r) \/ Balancing!RR!MarkHealthy(r)
  <2>1. /\ healthy' = [healthy EXCEPT ![n] = TRUE] /\ place' = [place EXCEPT ![r] = "served"]
        /\ UNCHANGED <<active, cooldown_until, now, guard>>
    BY <1>3, <1>6 DEF Balancing!PF!MarkHealthy, Balancing!RR!MarkHealthy, Balancing!PF!walkVars, Balancing!RR!walkVars
  <2>2. Tally' /\ active' \in [0 .. N - 1 -> Nat]
    BY <2>1, <1>kept
  <2>3. healthy' \in [0 .. N - 1 -> BOOLEAN]
    BY <1>1, <2>1
  <2> QED
    BY <1>1, <1>5, <2>1, <2>2, <2>3
<1>7. CASE Balancing!PF!MarkFailed(r) \/ Balancing!RR!MarkFailed(r)
  <2>1. /\ now' = [now EXCEPT ![r] = clock] /\ place' = [place EXCEPT ![r] = "failing"]
        /\ UNCHANGED <<active, healthy, cooldown_until, guard>>
    BY <1>7 DEF Balancing!PF!MarkFailed, Balancing!RR!MarkFailed, Balancing!PF!nodeVars, Balancing!RR!nodeVars
  <2>2. Tally' /\ active' \in [0 .. N - 1 -> Nat]
    BY <2>1, <1>kept
  <2>3. now' \in [Requests -> Nat]
    BY <1>1, <2>1
  <2> QED
    BY <1>1, <1>5, <2>1, <2>2, <2>3
<1>8. CASE Balancing!PF!MarkFailedExpiry(r) \/ Balancing!RR!MarkFailedExpiry(r)
  <2>1. /\ cooldown_until' = [cooldown_until EXCEPT ![n] = now[r] + Cooldown] /\ now' = [now EXCEPT ![r] = 0]
        /\ place' = [place EXCEPT ![r] = "locked"] /\ UNCHANGED <<active, healthy, guard>>
    BY <1>3, <1>8 DEF Balancing!PF!MarkFailedExpiry, Balancing!RR!MarkFailedExpiry
  <2>2. Tally' /\ active' \in [0 .. N - 1 -> Nat]
    BY <2>1, <1>kept
  <2>3. now' \in [Requests -> Nat]
    BY <1>1, <2>1
  <2>4. now[r] + Cooldown \in Nat
    BY <1>1 DEF NodeConstants
  <2>5. cooldown_until' \in [0 .. N - 1 -> Nat]
    BY <1>1, <2>1, <2>4
  <2> QED
    BY <1>1, <1>5, <2>1, <2>2, <2>3, <2>5
<1>9. CASE Balancing!PF!MarkFailedFlag(r) \/ Balancing!RR!MarkFailedFlag(r)
  <2>1. /\ healthy' = [healthy EXCEPT ![n] = FALSE] /\ place' = [place EXCEPT ![r] = "served"]
        /\ UNCHANGED <<active, cooldown_until, now, guard>>
    BY <1>3, <1>9 DEF Balancing!PF!MarkFailedFlag, Balancing!RR!MarkFailedFlag, Balancing!PF!walkVars, Balancing!RR!walkVars
  <2>2. Tally' /\ active' \in [0 .. N - 1 -> Nat]
    BY <2>1, <1>kept
  <2>3. healthy' \in [0 .. N - 1 -> BOOLEAN]
    BY <1>1, <2>1
  <2> QED
    BY <1>1, <1>5, <2>1, <2>2, <2>3
<1>10. CASE Balancing!PF!DropGuard(r) \/ Balancing!RR!DropGuard(r)
  <2>1. r \in Holders(n)
    BY <1>3 DEF Holders
  <2>2. active[n] \in Nat /\ active[n] > 0 /\ Cardinality(Holders(n) \ {r}) = active[n] - 1
    BY <1>0, <2>1, RoomInTheCounter
  <2>3. active[n] # 0 /\ active[n] - 1 \in Nat
    BY <2>2
  <2>4. /\ active' = [active EXCEPT ![n] = active[n] - 1] /\ guard' = [guard EXCEPT ![r] = None]
        /\ place' = [place EXCEPT ![r] = "idle"] /\ UNCHANGED <<healthy, cooldown_until, now>>
    BY <1>3, <1>10, <2>3 DEF Balancing!PF!DropGuard, Balancing!RR!DropGuard, Balancing!PF!walkVars, Balancing!RR!walkVars,
       Balancing!PF!ReleaseSlot, Balancing!RR!ReleaseSlot, Balancing!PF!FetchSub, Balancing!RR!FetchSub
  <2>5. Holders(n)' = Holders(n) \ {r} /\ \A m \in 0 .. N - 1 : m # n => Holders(m)' = Holders(m)
    <3>1. None \notin 0 .. N - 1
      BY DEF NodeConstants
    <3> QED
      BY <1>1, <1>2, <1>3, <1>4, <2>4, <3>1 DEF Holders
  <2>6. Tally'
    BY <1>0, <2>2, <2>4, <2>5, TallyMoves
  <2>7. active' \in [0 .. N - 1 -> Nat]
    BY <1>0, <2>3, <2>4 DEF SearchTypes
  <2> QED
    BY <1>1, <1>5, <2>4, <2>6, <2>7
<1> QED
  BY <1>6, <1>7, <1>8, <1>9, <1>10 DEF Balancing!PF!Serve, Balancing!RR!Serve

\* A step of an undisturbed request, and the answer it may give.
LEMMA StepsAlone ==
  ASSUME NodeConstants, SearchInv, NEW r \in Requests, strategy' = strategy, Balancing!StepAlone(r)
  PROVE  /\ SearchInv'
         /\ place[r] \in Searching /\ place'[r] = "holding" => guard'[r] = Reference(r)
<1>1. Alone(r)
  BY DEF Balancing!StepAlone, Balancing!Undisturbed, Balancing!Selecting, Balancing!PF!Selecting, Balancing!RR!Selecting,
     Alone, Working, Searching
<1>2. CASE strategy = "priority_free"
  <2>1. Balancing!PF!Step(r) /\ UNCHANGED <<counter, start>>
    BY <1>2 DEF Balancing!StepAlone
  <2>2. CASE Balancing!PF!Begin(r)
    <3>1. place'[r] # "holding"
      BY <2>2 DEF Balancing!PF!Begin, Balancing!PF!Walk, SearchInv, SearchTypes
    <3> QED
      BY <1>1, <1>2, <2>1, <2>2, <3>1, BeginSearch
  <2>3. CASE Balancing!PF!Check(r)
    <3>1. place'[r] # "holding"
      BY <2>3 DEF Balancing!PF!Check, Balancing!PF!LoadHealthy, Balancing!PF!ReadUntil
    <3> QED
      BY <1>1, <1>2, <2>1, <2>3, <3>1, CheckSearch
  <2>4. CASE Balancing!PF!FreeClaim(r)
    BY <1>1, <1>2, <2>1, <2>4, FreeClaimStep
  <2>5. CASE Balancing!PF!FreeExhausted(r)
    BY <1>1, <1>2, <2>1, <2>5, FreeExhaustedStep
  <2>6. CASE Balancing!PF!Reserve(r)
    BY <1>1, <1>2, <2>1, <2>6, ReserveStep
  <2>7. CASE Balancing!PF!BusyExhausted(r)
    BY <1>1, <1>2, <2>1, <2>7, BusyExhaustedStep
  <2>8. CASE Balancing!PF!ReleaseLoser(r)
    BY <1>1, <1>2, <2>1, <2>8, ReleaseLoserStep
  <2>9. CASE Balancing!PF!KeepWinner(r)
    BY <1>1, <1>2, <2>1, <2>9, KeepWinnerStep
  <2>10. CASE Balancing!PF!FallbackVisit(r) /\ UNCHANGED reserved
    BY <1>1, <2>1, <2>10, FallbackVisitStep
  <2>11. CASE Balancing!PF!FallbackClaim(r) /\ UNCHANGED reserved
    BY <1>1, <2>1, <2>11, FallbackClaimStep
  <2>12. CASE Balancing!PF!Serve(r) /\ UNCHANGED reserved
    BY <1>1, <2>1, <2>12, ServeStep
  <2> QED
    BY <2>1, <2>2, <2>3, <2>4, <2>5, <2>6, <2>7, <2>8, <2>9, <2>10, <2>11, <2>12
    DEF Balancing!PF!Step, Balancing!PF!Select, Balancing!PF!Fallback
<1>3. CASE strategy # "priority_free"
  <2>1. Balancing!RR!Step(r) /\ UNCHANGED reserved
    BY <1>3 DEF Balancing!StepAlone
  <2>2. CASE Balancing!RR!Begin(r)
    <3>1. place'[r] # "holding"
      BY <2>2 DEF Balancing!RR!Begin, Balancing!RR!Walk, SearchInv, SearchTypes
    <3> QED
      BY <1>1, <1>3, <2>1, <2>2, <3>1, BeginSearch
  <2>3. CASE Balancing!RR!Check(r)
    <3>1. place'[r] # "holding"
      BY <2>3 DEF Balancing!RR!Check, Balancing!RR!LoadHealthy, Balancing!RR!ReadUntil
    <3> QED
      BY <1>1, <1>3, <2>1, <2>3, <3>1, CheckSearch
  <2>4. CASE Balancing!RR!Claim(r)
    BY <1>1, <1>3, <2>1, <2>4, WalkClaimStep
  <2>5. CASE Balancing!RR!AllCooled(r)
    BY <1>1, <1>3, <2>1, <2>5, AllCooledStep
  <2>6. CASE Balancing!RR!FallbackVisit(r) /\ UNCHANGED <<counter, start>>
    BY <1>1, <2>1, <2>6, FallbackVisitStep
  <2>7. CASE Balancing!RR!FallbackClaim(r) /\ start' = [start EXCEPT ![r] = 0] /\ UNCHANGED counter
    BY <1>1, <2>1, <2>7, FallbackClaimStep
  <2>8. CASE Balancing!RR!Serve(r) /\ UNCHANGED <<counter, start>>
    BY <1>1, <2>1, <2>8, ServeStep
  <2> QED
    BY <2>1, <2>2, <2>3, <2>4, <2>5, <2>6, <2>7, <2>8 DEF Balancing!RR!Step, Balancing!RR!Select
<1> QED
  BY <1>2, <1>3

\* Nothing but the clock moves.
LEMMA SearchIdles ==
  ASSUME SearchInv, UNCHANGED <<active, healthy, cooldown_until, place, sub, now, idx, best, key, guard,
                                strategy, reserved, counter, start>>, clock' \in Nat
  PROVE  SearchInv'
<1>1. SearchTypes' /\ Tally'
  BY DEF SearchInv, SearchTypes, Tally, Holders
<1>2. ASSUME NEW r \in Requests PROVE (place'[r] \in Working => Alone(r)') /\ Owns(r)' /\ Knows(r)'
  <2>1. (place[r] \in Working => Alone(r)) /\ Owns(r) /\ Knows(r)
    BY DEF SearchInv
  <2>2. (place'[r] \in Working => Alone(r)') /\ Owns(r)'
    BY <2>1 DEF Alone, Owns
  <2>3. /\ Opened(r)' = Opened(r) /\ Loads(r)' = Loads(r) /\ (Fell(r)' <=> Fell(r))
        /\ (Looks(r, idx[r])' <=> Looks(r, idx[r])) /\ (Looks(r, Spot(r, idx[r]))' <=> Looks(r, Spot(r, idx[r])))
        /\ \A k : (Chilled(Spot(r, k), now[r])' <=> Chilled(Spot(r, k), now[r])) /\ (Chilled(k, now[r])' <=> Chilled(k, now[r]))
    BY DEF Opened, Loads, Fell, Looks, Chilled, Spot
  <2>4. FreeKnows(r)' <=> FreeKnows(r)
    BY <2>3 DEF FreeKnows
  <2>5. WalkKnows(r)' <=> WalkKnows(r)
    BY <2>3 DEF WalkKnows
  <2>6. Knows(r)'
    BY <2>1, <2>4, <2>5 DEF Knows
  <2> QED
    BY <2>2, <2>6
<1> QED
  BY <1>1, <1>2 DEF SearchInv

\* Nobody is at work at first.
LEMMA SearchStarts ==
  ASSUME NodeConstants, Balancing!Init
  PROVE  SearchInv
<1>1. /\ active = [n \in 0 .. N - 1 |-> 0] /\ healthy = [n \in 0 .. N - 1 |-> TRUE]
      /\ cooldown_until = [n \in 0 .. N - 1 |-> 0] /\ clock = 0 /\ place = [r \in Requests |-> "idle"]
      /\ sub = [r \in Requests |-> "health"] /\ now = [r \in Requests |-> 0] /\ idx = [r \in Requests |-> 0]
      /\ best = [r \in Requests |-> None] /\ key = [r \in Requests |-> 0] /\ guard = [r \in Requests |-> None]
      /\ reserved = [r \in Requests |-> {}] /\ counter = 0 /\ start = [r \in Requests |-> 0]
  BY DEF Balancing!Init, Balancing!PF!Init, Balancing!RR!Init, Balancing!PF!NodeInit, Balancing!RR!NodeInit,
     Balancing!PF!Nodes, Balancing!RR!Nodes
<1>2. SearchTypes
  <2>1. N \in Nat \ {0} /\ 0 \in 0 .. N
    BY DEF NodeConstants
  <2> QED
    BY <1>1, <2>1 DEF SearchTypes
<1>3. Tally
  <2> SUFFICES ASSUME NEW n \in 0 .. N - 1 PROVE active[n] = Cardinality(Holders(n))
    BY DEF Tally
  <2>1. Holders(n) = {}
    BY <1>1 DEF Holders, NodeConstants
  <2> QED
    BY <1>1, <2>1, FS_EmptySet
<1>4. ASSUME NEW r \in Requests PROVE (place[r] \in Working => Alone(r)) /\ Owns(r) /\ Knows(r)
  BY <1>1 DEF Working, Searching, Owns, Knows, FreeKnows, WalkKnows
<1> QED
  BY <1>2, <1>3, <1>4 DEF SearchInv

\* What a step preserves.
LEMMA SearchStep ==
  ASSUME NodeConstants, AloneInv, [Next]_vars
  PROVE  AloneInv'
<1> SUFFICES ASSUME discipline' = "alone" PROVE SearchInv'
  BY DEF AloneInv
<1>1. CASE Balancing!Next
  <2>1. discipline = "alone" /\ strategy' = strategy /\ SearchInv
    BY <1>1 DEF Balancing!Next, AloneInv
  <2>2. ASSUME NEW r \in Requests, Balancing!StepAlone(r) PROVE SearchInv'
    BY <2>1, <2>2, StepsAlone
  <2>3. CASE Balancing!Tick /\ UNCHANGED <<reserved, counter, start, dispatched>>
    <3>1. clock \in Nat
      BY <2>1 DEF SearchInv, SearchTypes
    <3>2. clock' \in Nat
      BY <2>3, <3>1 DEF Balancing!Tick
    <3>3. UNCHANGED <<active, healthy, cooldown_until, place, sub, now, idx, best, key, guard, strategy, reserved, counter, start>>
      BY <2>1, <2>3 DEF Balancing!Tick, Balancing!nodeVars, Balancing!walkVars
    <3> QED
      BY <2>1, <3>2, <3>3, SearchIdles
  <2> QED
    BY <1>1, <2>1, <2>2, <2>3 DEF Balancing!Next, Balancing!StepTogether
<1>2. CASE UNCHANGED strategyVars
  <2>1. UNCHANGED <<active, healthy, cooldown_until, clock, place, sub, now, idx, best, key, guard, strategy, discipline,
                    reserved, counter, start>>
    BY <1>2 DEF strategyVars
  <2>2. SearchInv /\ clock' \in Nat
    BY <2>1 DEF AloneInv, SearchInv, SearchTypes
  <2> QED
    BY <2>1, <2>2, SearchIdles
<1> QED
  BY <1>1, <1>2 DEF Next, vars

\* The reference of the proof is the one the property names.
LEMMA ReferenceIs ==
  ASSUME NEW r \in Requests
  PROVE  /\ strategy = "priority_free" =>
              Reference(r) = IF Balancing!Open(r) # {}
                             THEN Balancing!FirstMin(Balancing!Open(r),
                                    [n \in Balancing!Nodes |-> active[n] - (IF n \in reserved[r] THEN 1 ELSE 0)])
                             ELSE Balancing!Recovering
         /\ strategy = "round_robin" =>
              Reference(r) = LET rank == {k \in 0 .. N - 1 : (start[r] + k) % N \in Balancing!Open(r)}
                             IN  IF rank # {} THEN (start[r] + Balancing!Min(rank)) % N ELSE Balancing!Recovering
<1>1. Balancing!Open(r) = Opened(r) /\ Balancing!Nodes = 0 .. N - 1
  BY DEF Balancing!Open, Balancing!Cooled, Balancing!Nodes, Opened, Chilled
<1>2. Balancing!Recovering = Balancing!FirstMin(0 .. N - 1, cooldown_until)
  BY <1>1 DEF Balancing!Recovering
<1> QED
  BY <1>1, <1>2 DEF Reference, Loads

\* A request that answers is the one that takes the step.
LEMMA AnswersAreReference ==
  ASSUME NodeConstants, AloneInv, [Next]_vars
  PROVE  \A r \in Requests : Balancing!Answers(r) => guard'[r] = Reference(r)
<1> SUFFICES ASSUME NEW r \in Requests, Balancing!Answers(r) PROVE guard'[r] = Reference(r)
  OBVIOUS
<1>1. discipline = "alone" /\ place[r] \in Searching /\ place'[r] = "holding" /\ place'[r] # place[r]
  BY DEF Balancing!Answers, Balancing!Selecting, Balancing!PF!Selecting, Balancing!RR!Selecting, Searching
<1>2. Balancing!Next
  <2>1. ~UNCHANGED strategyVars
    BY <1>1 DEF strategyVars
  <2> QED
    BY <2>1 DEF Next, vars
<1>3. SearchInv /\ strategy' = strategy
  BY <1>1, <1>2 DEF AloneInv, Balancing!Next
<1>4. ~Balancing!Tick
  BY <1>1 DEF Balancing!Tick
<1>5. PICK q \in Requests : Balancing!StepAlone(q)
  BY <1>1, <1>2, <1>4 DEF Balancing!Next, Balancing!StepTogether
<1>6. q = r
  <2>1. place[r] \in Working /\ (q # r => place[r] \notin Working)
    BY <1>1, <1>5 DEF Working, Searching, Balancing!StepAlone, Balancing!Undisturbed, Balancing!Selecting,
       Balancing!PF!Selecting, Balancing!RR!Selecting
  <2> QED
    BY <2>1
<1> QED
  BY <1>1, <1>3, <1>5, <1>6, StepsAlone

\* priority_free.rs, round_robin.rs.  For every number of nodes and of requests, however far
\* the clock and the failures have gone: a select that nobody disturbs returns the node the
\* doc comments promise.  priority_free takes the lowest-index idle node, else the least
\* loaded one among those not in cooldown, round_robin the first from its ticket on that is
\* not in cooldown, and either one the soonest to recover when all are.
THEOREM SelectsReturnTheReference ==
  ASSUME NodeConstants
  PROVE  Spec => SelectsAreReference
<1>1. Init => AloneInv
  BY SearchStarts DEF Init, AloneInv
<1>2. AloneInv /\ [Next]_vars => AloneInv'
  BY SearchStep
<1>3. AloneInv /\ [Next]_vars => [Balancing!PriorityFreeIsReference /\ Balancing!RoundRobinIsReference]_vars
  <2> SUFFICES ASSUME AloneInv, [Next]_vars PROVE Balancing!PriorityFreeIsReference /\ Balancing!RoundRobinIsReference
    OBVIOUS
  <2>1. ASSUME NEW r \in Requests, Balancing!Answers(r) PROVE guard'[r] = Reference(r)
    BY <2>1, AnswersAreReference
  <2>2. Balancing!PriorityFreeIsReference
    BY <2>1, ReferenceIs DEF Balancing!PriorityFreeIsReference
  <2>3. Balancing!RoundRobinIsReference
    BY <2>1, ReferenceIs DEF Balancing!RoundRobinIsReference
  <2> QED
    BY <2>2, <2>3
<1> QED
  BY <1>1, <1>2, <1>3, PTL DEF Spec, SelectsAreReference

---------------------------------------------------------------------------
(* RequestRewrite.                                                         *)

\* JSON's scalars are no objects and no lists, what is absent is no flag, and what is of
\* a wrong type is neither absent nor null.
RewriteConstants ==
  (\A f, D : [x \in D |-> f[x]] \notin Rewrite!Scalars) /\ Absent # TRUE /\ Other \notin {Absent, Null}

Fields == {"model", "messages", "system", "stop", "stream", "stream_options", "temperature", "extra"}

\* A JSON object with the fields of a completion request.
Shaped(b) ==
  /\ b = [x \in Fields |-> b[x]]
  /\ b["messages"] \in Rewrite!Scalars \/ \E S : b["messages"] \in Seq(S)

\* The same conversation, as far as its being one goes.
Speaking(b) == b.messages \notin Rewrite!Scalars /\ b.messages # <<>>

\* Objects and lists are no scalars.
LEMMA TablesAreNoScalars ==
  ASSUME RewriteConstants
  PROVE  /\ \A b : Shaped(b) => b \notin Rewrite!Scalars /\ DOMAIN b = Fields
         /\ \A S, s : s \in Seq(S) => s \notin Rewrite!Scalars
         /\ \A u : [include_usage |-> u] \notin Rewrite!Scalars
<1>1. ASSUME NEW b, Shaped(b) PROVE b \notin Rewrite!Scalars /\ DOMAIN b = Fields
  <2>1. [x \in Fields |-> b[x]] \notin Rewrite!Scalars
    BY DEF RewriteConstants
  <2>2. b = [x \in Fields |-> b[x]]
    BY <1>1 DEF Shaped
  <2>3. DOMAIN [x \in Fields |-> b[x]] = Fields
    OBVIOUS
  <2> QED
    BY <2>1, <2>2, <2>3
<1>2. ASSUME NEW S, NEW s \in Seq(S) PROVE s \notin Rewrite!Scalars
  <2>1. s = [x \in 1 .. Len(s) |-> s[x]]
    OBVIOUS
  <2> QED
    BY <2>1 DEF RewriteConstants
<1>3. ASSUME NEW u PROVE [include_usage |-> u] \notin Rewrite!Scalars
  <2>1. [include_usage |-> u] = [x \in {"include_usage"} |-> [include_usage |-> u][x]]
    OBVIOUS
  <2> QED
    BY <2>1 DEF RewriteConstants
<1> QED
  BY <1>1, <1>2, <1>3

\* The bodies a client can send.
LEMMA ConversationsAreLists ==
  ASSUME NEW c \in Rewrite!Conversations
  PROVE  c \in Rewrite!Scalars \/ \E S : c \in Seq(S)
<1>1. CASE c \in {Absent, Other}
  BY <1>1 DEF Rewrite!Scalars
<1>2. CASE c = <<>>
  <2>1. c \in Seq({})
    BY <1>2
  <2> QED
    BY <2>1
<1>3. ASSUME NEW a, c = <<a>> PROVE \E S : c \in Seq(S)
  <2>1. c \in Seq({a})
    BY <1>3
  <2> QED
    BY <2>1
<1>4. ASSUME NEW a, NEW b, NEW d, c = <<a, b, d>> PROVE \E S : c \in Seq(S)
  <2>1. c \in Seq({a, b, d})
    BY <1>4
  <2> QED
    BY <2>1
<1>5. ASSUME NEW a, NEW b, c = <<a, b>> PROVE \E S : c \in Seq(S)
  <2>1. c \in Seq({a, b})
    BY <1>5
  <2> QED
    BY <2>1
<1>6. CASE c \in {Rewrite!Single(role, content) : role \in {"user", "system", Other}, content \in Rewrite!Contents}
  <2>1. PICK role, content : c = Rewrite!Single(role, content)
    BY <1>6
  <2> QED
    BY <1>3, <2>1 DEF Rewrite!Single
<1>7. CASE c \in {Rewrite!Turns(content) : content \in Rewrite!Contents}
  <2>1. PICK content : c = Rewrite!Turns(content)
    BY <1>7
  <2> QED
    BY <1>4, <2>1 DEF Rewrite!Turns
<1> QED
  BY <1>1, <1>2, <1>5, <1>6, <1>7 DEF Rewrite!Conversations

\* An object of the model has the fields the rewrites know.
LEMMA BodiesAreShaped ==
  ASSUME NEW b \in Rewrite!Bodies
  PROVE  b \in Rewrite!Scalars \/ Shaped(b)
<1>1. ASSUME NEW c, NEW model, NEW stop, NEW system, NEW stream, NEW options,
             c \in Rewrite!Scalars \/ \E S : c \in Seq(S)
      PROVE  Shaped(Rewrite!Body(c, model, stop, system, stream, options))
  BY <1>1 DEF Shaped, Fields, Rewrite!Body, Rewrite!NoBody
<1>2. CASE b \in {Absent, Null, Other}
  BY <1>2 DEF Rewrite!Scalars
<1>3. CASE b \in {Rewrite!Body(c, "model", stop, system, stream, Absent) :
          c \in Rewrite!Conversations, stop \in {Absent, "string"}, system \in {Absent, Other}, stream \in Rewrite!Asking}
  <2>1. PICK c \in Rewrite!Conversations, stop \in {Absent, "string"}, system \in {Absent, Other}, stream \in Rewrite!Asking :
              b = Rewrite!Body(c, "model", stop, system, stream, Absent)
    BY <1>3
  <2> QED
    BY <1>1, <2>1, ConversationsAreLists
<1>4. CASE b \in {Rewrite!Body(c, model, Absent, Absent, stream, options) :
          c \in {Absent, Rewrite!Single("user", Rewrite!Text(<<"a">>))}, model \in {Absent, Null, Other, "model"},
          stream \in Rewrite!StreamFlags, options \in Rewrite!StreamOptions}
  <2>1. PICK c \in {Absent, Rewrite!Single("user", Rewrite!Text(<<"a">>))}, model \in {Absent, Null, Other, "model"},
             stream \in Rewrite!StreamFlags, options \in Rewrite!StreamOptions :
             b = Rewrite!Body(c, model, Absent, Absent, stream, options)
    BY <1>4
  <2>2. Rewrite!Text(<<"a">>) \in Rewrite!Contents
    BY DEF Rewrite!Contents
  <2>3. c \in Rewrite!Conversations
    BY <2>1, <2>2 DEF Rewrite!Conversations
  <2> QED
    BY <1>1, <2>1, <2>3, ConversationsAreLists
<1> QED
  BY <1>2, <1>3, <1>4 DEF Rewrite!Bodies

\* A body that comes out of the injection: still an object with a conversation.
Enlarged(b) == Shaped(b) /\ Speaking(b)

\* What the augment backend is asked about has messages.
LEMMA AskedHasMessages ==
  ASSUME RewriteConstants, NEW b, b \in Rewrite!Scalars \/ Shaped(b),
         Rewrite!extract_user_content_from_json(b) # <<>>
  PROVE  Enlarged(b)
<1>1. Rewrite!HasMessages(b)
  BY DEF Rewrite!extract_user_content_from_json
<1>2. Shaped(b) /\ b.messages \notin Rewrite!Scalars
  BY <1>1 DEF Rewrite!HasMessages, Rewrite!IsObject
<1>3. ASSUME b.messages = <<>> PROVE FALSE
  <2> DEFINE s == [i \in 1 .. Len(b.messages) |->
                     IF Rewrite!IsUser(b.messages[i]) THEN Rewrite!Words(b.messages[i].content) ELSE <<>>]
  <2>1. Len(b.messages) = 0
    BY <1>3
  <2>2. s = <<>>
    BY <2>1
  <2>3. Rewrite!FlattenSeq(s) = <<>>
    BY <2>2 DEF Rewrite!FlattenSeq
  <2> QED
    BY <1>1, <2>3 DEF Rewrite!extract_user_content_from_json
<1> QED
  BY <1>2, <1>3 DEF Enlarged, Speaking

\* A conversation that replaces another.
LEMMA MessagesSet ==
  ASSUME RewriteConstants, NEW b, Shaped(b), NEW S, NEW m \in Seq(S), m # <<>>
  PROVE  Enlarged([b EXCEPT !.messages = m])
<1>1. b = [x \in Fields |-> b[x]] /\ DOMAIN b = Fields
  BY TablesAreNoScalars DEF Shaped
<1>2. [b EXCEPT !.messages = m].messages = m
  BY <1>1 DEF Fields
<1>3. m \notin Rewrite!Scalars
  BY TablesAreNoScalars
<1> QED
  BY <1>1, <1>2, <1>3 DEF Enlarged, Shaped, Speaking

\* A conversation with one message replaced, or its content.
LEMMA MessageReplaced ==
  ASSUME RewriteConstants, NEW b, Enlarged(b), NEW k, NEW v
  PROVE  Enlarged([b EXCEPT !.messages[k] = v])
<1>1. PICK S : b.messages \in Seq(S) /\ b.messages # <<>>
  BY DEF Enlarged, Shaped, Speaking
<1> DEFINE m == [b.messages EXCEPT ![k] = v]
<1>2. m \in Seq(S \cup {v}) /\ m # <<>>
  <2>1. Len(b.messages) \in Nat /\ Len(b.messages) > 0 /\ b.messages \in [1 .. Len(b.messages) -> S]
    BY <1>1
  <2>2. m \in [1 .. Len(b.messages) -> S \cup {v}]
    BY <2>1
  <2> HIDE DEF m
  <2>3. m \in Seq(S \cup {v})
    BY <2>1, <2>2
  <2>4. 1 \in DOMAIN m
    BY <2>1, <2>2
  <2> QED
    BY <2>3, <2>4
<1>3. [b EXCEPT !.messages[k] = v] = [b EXCEPT !.messages = m]
  OBVIOUS
<1> QED
  BY <1>2, <1>3, MessagesSet DEF Enlarged

\* The injection into a value of the OpenAI shape.
LEMMA ValueInjected ==
  ASSUME RewriteConstants, NEW b, Enlarged(b), Rewrite!inject_augmentation_value(b) # Absent
  PROVE  Enlarged(Rewrite!inject_augmentation_value(b))
<1> DEFINE user == Rewrite!SelectLastInSeq(b.messages, Rewrite!IsUser)
           normalized == [b EXCEPT !.stop = IF b.stop = "string" THEN "array" ELSE b.stop]
           out == Rewrite!inject_augmentation_value(b)
<1>1. PICK S : b.messages \in Seq(S) /\ b.messages # <<>>
  BY DEF Enlarged, Shaped, Speaking
<1>2. b = [x \in Fields |-> b[x]] /\ DOMAIN b = Fields
  BY TablesAreNoScalars DEF Enlarged, Shaped
<1>3. Enlarged(normalized) /\ normalized.messages = b.messages
  BY <1>1, <1>2 DEF Enlarged, Shaped, Speaking, Fields
<1>4. \/ out = normalized
      \/ out = [normalized EXCEPT !.messages[user] = Rewrite!append_block_to_message(normalized.messages[user])]
      \/ out = [normalized EXCEPT !.messages =
                  Append(normalized.messages, Rewrite!Message("system", Rewrite!Text(<<Block>>), Absent))]
  BY DEF Rewrite!inject_augmentation_value
<1> HIDE DEF normalized, user, out
<1>5. ASSUME NEW v, out = [normalized EXCEPT !.messages = Append(normalized.messages, v)] PROVE Enlarged(out)
  <2>1. Append(normalized.messages, v) \in Seq(S \cup {v}) /\ Append(normalized.messages, v) # <<>>
    BY <1>1, <1>3
  <2> QED
    BY <1>3, <1>5, <2>1, MessagesSet DEF Enlarged
<1>6. ASSUME NEW v, out = [normalized EXCEPT !.messages[user] = v] PROVE Enlarged(out)
  BY <1>3, <1>6, MessageReplaced
<1>7. Enlarged(out)
  BY <1>3, <1>4, <1>5, <1>6
<1> QED
  BY <1>7 DEF out

\* What the two shims make of a body.
LEMMA BodyInjected ==
  ASSUME RewriteConstants, NEW b, Enlarged(b)
  PROVE  /\ Rewrite!inject_augmentation(b) # Absent => Enlarged(Rewrite!inject_augmentation(b))
         /\ Enlarged(Rewrite!inject_into_anthropic(b))
<1>1. PICK S : b.messages \in Seq(S) /\ b.messages # <<>>
  BY DEF Enlarged, Shaped, Speaking
<1>2. b = [x \in Fields |-> b[x]] /\ DOMAIN b = Fields
  BY TablesAreNoScalars DEF Enlarged, Shaped
<1>3. Rewrite!inject_augmentation(b) # Absent => Enlarged(Rewrite!inject_augmentation(b))
  <2> DEFINE m == [i \in 1 .. Len(b.messages) |-> Rewrite!Retyped(b.messages[i])]
             typed == [b EXCEPT !.messages = m, !.stop = IF b.stop = Null THEN Absent ELSE b.stop,
                                !.stream = IF b.stream = Null THEN Absent ELSE b.stream]
  <2>1. m \in Seq({m[i] : i \in 1 .. Len(b.messages)}) /\ m # <<>>
    BY <1>1
  <2>2. m \notin Rewrite!Scalars
    BY <2>1, TablesAreNoScalars
  <2>3. typed = [x \in Fields |-> typed[x]] /\ typed.messages = m
    BY <1>2 DEF Fields
  <2>4. Rewrite!inject_augmentation(b) = Rewrite!inject_augmentation_value(typed)
    BY DEF Rewrite!inject_augmentation
  <2> HIDE DEF m, typed
  <2>5. Enlarged(typed)
    BY <2>1, <2>2, <2>3 DEF Enlarged, Shaped, Speaking
  <2> QED
    BY <2>4, <2>5, ValueInjected
<1>4. Enlarged(Rewrite!inject_into_anthropic(b))
  <2> DEFINE m == [i \in 1 .. Len(b.messages) |-> Rewrite!Stripped(b.messages[i])]
             typed == [b EXCEPT !.messages = m, !.stream = IF b.stream = Absent THEN Null ELSE b.stream,
                                !.model = IF b.model = Absent THEN Null ELSE b.model,
                                !.system = IF b.system = Absent THEN Null ELSE b.system]
             user == Rewrite!SelectLastInSeq(b.messages, Rewrite!IsUser)
             block == Rewrite!Part("text", <<Block>>, Absent)
             out == Rewrite!inject_into_anthropic(b)
  <2>1. m \in Seq({m[i] : i \in 1 .. Len(b.messages)}) /\ m # <<>>
    BY <1>1
  <2>2. m \notin Rewrite!Scalars
    BY <2>1, TablesAreNoScalars
  <2>3. typed = [x \in Fields |-> typed[x]] /\ typed.messages = m
    BY <1>2 DEF Fields
  <2>4. \/ out = [typed EXCEPT !.messages[user].content.value = Append(typed.messages[user].content.value, block)]
        \/ out = [typed EXCEPT !.messages[1].content.value = <<block>> \o typed.messages[1].content.value]
    BY <1>1 DEF Rewrite!inject_into_anthropic
  <2> HIDE DEF m, typed, user, block, out
  <2>5. Enlarged(typed)
    BY <2>1, <2>2, <2>3 DEF Enlarged, Shaped, Speaking
  <2>6. ASSUME NEW k, NEW v, out = [typed EXCEPT !.messages[k].content.value = v] PROVE Enlarged(out)
    <3>1. out = [typed EXCEPT !.messages[k] = [typed.messages[k] EXCEPT !.content.value = v]]
      BY <2>6
    <3> QED
      BY <2>5, <3>1, MessageReplaced
  <2>7. Enlarged(out)
    BY <2>4, <2>6
  <2> QED
    BY <2>7 DEF out
<1> QED
  BY <1>3, <1>4

\* The inductive invariant of the rewriting: what was asked about has a conversation, and
\* the injection leaves it one.
RewriteInv ==
  /\ body \in Rewrite!Scalars \/ Shaped(body)
  /\ mode.anthropic => mode.completion
  /\ step \in {"arrived", "asked", "augmented"} => outgoing = body /\ ~expected
  /\ step = "arrived" => augmentation = Absent
  /\ step = "asked" => Enlarged(body)
  /\ augmentation # Absent => Enlarged(body)
  /\ step = "injected" => ~expected /\ (outgoing = body \/ (Enlarged(outgoing) /\ Enlarged(body)))
  /\ Rewrite!StreamAsAsked

\* An object that asks for a stream has its options, and one that does not has none.
LEMMA StreamSet ==
  ASSUME RewriteConstants, NEW b, b = [x \in Fields |-> b[x]], NEW keep \in BOOLEAN, keep => b.stream = TRUE
  PROVE  LET o == Rewrite!Overridden(b, keep) IN
         /\ b # Null => o.stream = keep
         /\ b # Null /\ ~keep => o.stream_options = Absent
         /\ b # Null /\ keep => o.stream_options # Absent
         /\ b # Null /\ keep /\ o.stream_options \notin Rewrite!Scalars => o.stream_options.include_usage # Absent
<1> SUFFICES ASSUME b # Null PROVE LET o == Rewrite!Overridden(b, keep) IN
         /\ o.stream = keep
         /\ ~keep => o.stream_options = Absent
         /\ keep => o.stream_options # Absent
         /\ keep /\ o.stream_options \notin Rewrite!Scalars => o.stream_options.include_usage # Absent
  OBVIOUS
<1> DEFINE o == Rewrite!Overridden(b, keep)
           w == Rewrite!WithStream(b, keep)
           e == Rewrite!ensure_usage_on_stream(b.stream_options)
<1>1. DOMAIN b = Fields
  OBVIOUS
<1>2. DOMAIN w = Fields
  BY <1>1 DEF Rewrite!WithStream
<1>3. o.stream = w.stream /\ o.stream_options = w.stream_options
  BY <1>2 DEF Rewrite!Overridden, Fields
<1>4. CASE keep = TRUE
  <2>1. w = [b EXCEPT !.stream_options = e]
    BY <1>4 DEF Rewrite!WithStream
  <2>2. w.stream = TRUE /\ w.stream_options = e
    BY <1>1, <1>4, <2>1 DEF Fields
  <2>3. Absent # [include_usage |-> TRUE] /\ [include_usage |-> TRUE].include_usage = TRUE
    BY TablesAreNoScalars DEF Rewrite!Scalars
  <2>4. Absent # TRUE
    BY DEF RewriteConstants
  <2>5. e # Absent /\ (e \notin Rewrite!Scalars => e.include_usage # Absent)
    BY <2>3, <2>4 DEF Rewrite!ensure_usage_on_stream
  <2> QED
    BY <1>3, <1>4, <2>2, <2>5
<1>5. CASE keep = FALSE
  <2>1. w = [b EXCEPT !.stream = FALSE, !.stream_options = Absent]
    BY <1>5 DEF Rewrite!WithStream
  <2>2. w.stream = FALSE /\ w.stream_options = Absent
    BY <1>1, <2>1 DEF Fields
  <2> QED
    BY <1>3, <1>5, <2>2
<1> QED
  BY <1>4, <1>5

\* A body is a completion after the injection if it was one before.
LEMMA SameCompletion ==
  ASSUME RewriteConstants, RewriteInv, step = "injected"
  PROVE  Rewrite!looks_like_completion_request(outgoing) = Rewrite!looks_like_completion_request(body)
<1>1. ASSUME NEW b, Enlarged(b) PROVE Rewrite!HasMessages(b) /\ b.messages # <<>>
  BY <1>1, TablesAreNoScalars DEF Enlarged, Speaking, Rewrite!HasMessages, Rewrite!IsObject
<1> QED
  BY <1>1 DEF RewriteInv, Rewrite!looks_like_completion_request

\* apply_backend_overrides_bytes.
LEMMA OverridesStep ==
  ASSUME RewriteConstants, RewriteInv, Rewrite!apply_backend_overrides_bytes
  PROVE  RewriteInv'
<1> USE DEF Rewrite!apply_backend_overrides_bytes
<1>1. /\ step = "injected" /\ step' \in {"sent", "panicked"}
      /\ UNCHANGED <<node, mode, body, augmentation>>
  OBVIOUS
<1>2. Rewrite!looks_like_completion_request(body)' = Rewrite!looks_like_completion_request(body)
  BY <1>1 DEF Rewrite!looks_like_completion_request
<1>3. Rewrite!StreamAsAsked'
  <2>1. CASE outgoing = Absent \/ ~Rewrite!looks_like_completion_request(outgoing)
    <3>1. outgoing' = outgoing /\ ~expected'
      BY <2>1
    <3>2. outgoing # Absent => outgoing = body /\ ~Rewrite!looks_like_completion_request(body)
      <4>1. outgoing # Absent => ~Rewrite!looks_like_completion_request(body)
        BY <1>1, <2>1, SameCompletion
      <4>2. Enlarged(body) => Rewrite!looks_like_completion_request(body)
        BY TablesAreNoScalars DEF Enlarged, Speaking, Rewrite!HasMessages, Rewrite!IsObject, Rewrite!looks_like_completion_request
      <4> QED
        BY <1>1, <4>1, <4>2 DEF RewriteInv
    <3> QED
      BY <1>1, <1>2, <3>1, <3>2 DEF Rewrite!StreamAsAsked
  <2>2. CASE outgoing # Absent /\ Rewrite!looks_like_completion_request(outgoing) /\ outgoing = Other
    BY <2>2 DEF Rewrite!StreamAsAsked
  <2>3. CASE outgoing # Absent /\ Rewrite!looks_like_completion_request(outgoing) /\ outgoing # Other
    <3> DEFINE keep == Rewrite!AllowStream /\ outgoing # Null /\ outgoing.stream = TRUE
               b == IF outgoing = Null THEN Rewrite!NoBody ELSE outgoing
    <3>1. outgoing' = Rewrite!Overridden(outgoing, keep) /\ expected' = keep
      BY <2>3
    <3>2. keep \in BOOLEAN /\ (keep => b.stream = TRUE)
      BY DEF Rewrite!AllowStream
    <3>3. b = [x \in Fields |-> b[x]] /\ b # Null
      <4>1. CASE outgoing = Null
        <5>1. Shaped(Rewrite!NoBody)
          BY DEF Shaped, Fields, Rewrite!NoBody, Rewrite!Scalars
        <5> QED
          BY <4>1, <5>1, TablesAreNoScalars DEF Shaped, Rewrite!Scalars
      <4>2. CASE outgoing # Null
        <5>1. outgoing \notin Rewrite!Scalars
          BY <2>3, <4>2 DEF Rewrite!Scalars
        <5>2. Shaped(outgoing)
          BY <1>1, <5>1 DEF RewriteInv, Enlarged
        <5> QED
          BY <4>2, <5>2 DEF Shaped
      <4> QED
        BY <4>1, <4>2
    <3>4. Rewrite!Overridden(outgoing, keep) = Rewrite!Overridden(b, keep)
      BY <3>3 DEF Rewrite!Overridden
    <3> HIDE DEF b, keep
    <3>5. /\ outgoing'.stream = keep
          /\ ~keep => outgoing'.stream_options = Absent
          /\ keep => outgoing'.stream_options # Absent
          /\ keep /\ outgoing'.stream_options \notin Rewrite!Scalars => outgoing'.stream_options.include_usage # Absent
      BY <3>1, <3>2, <3>3, <3>4, StreamSet
    <3>6. Rewrite!looks_like_completion_request(body)'
      BY <1>1, <1>2, <2>3, SameCompletion
    <3> QED
      BY <3>1, <3>2, <3>5, <3>6 DEF Rewrite!StreamAsAsked, Rewrite!Scalars
  <2> QED
    BY <2>1, <2>2, <2>3
<1>4. (body \in Rewrite!Scalars \/ Shaped(body))' /\ (augmentation # Absent => Enlarged(body))'
  BY <1>1 DEF RewriteInv
<1> QED
  BY <1>1, <1>3, <1>4 DEF RewriteInv

\* The steps before it.
LEMMA InjectionStep ==
  ASSUME RewriteConstants, RewriteInv,
         Rewrite!Ask \/ Rewrite!Inject \/ (\E reply \in Rewrite!AugmentReplies : Rewrite!AugmentAnswers(reply))
  PROVE  RewriteInv'
<1>0. step' # "sent" => Rewrite!StreamAsAsked'
  BY DEF Rewrite!StreamAsAsked
<1>1. CASE Rewrite!Ask
  <2>1. step = "arrived" /\ step' \in {"asked", "augmented"} /\ UNCHANGED <<node, mode, body, augmentation, outgoing, expected>>
    BY <1>1 DEF Rewrite!Ask
  <2>2. step' = "asked" => Enlarged(body)
    BY <1>1, AskedHasMessages DEF Rewrite!Ask, RewriteInv
  <2>3. Enlarged(body)' = Enlarged(body) /\ Shaped(body)' = Shaped(body)
    BY <2>1
  <2> QED
    BY <1>0, <2>1, <2>2, <2>3 DEF RewriteInv
<1>2. CASE \E reply \in Rewrite!AugmentReplies : Rewrite!AugmentAnswers(reply)
  <2>1. step = "asked" /\ step' \in {"refused", "augmented"} /\ UNCHANGED <<node, mode, body, outgoing, expected>>
    BY <1>2 DEF Rewrite!AugmentAnswers
  <2>3. Enlarged(body)' = Enlarged(body) /\ Shaped(body)' = Shaped(body)
    BY <2>1
  <2> QED
    BY <1>0, <2>1, <2>3 DEF RewriteInv
<1>3. CASE Rewrite!Inject
  <2>1. /\ step = "augmented" /\ step' = "injected" /\ outgoing' = Rewrite!Enriched
        /\ UNCHANGED <<node, mode, body, augmentation, expected>>
    BY <1>3 DEF Rewrite!Inject
  <2>2. outgoing' = body \/ (Enlarged(outgoing') /\ Enlarged(body))
    BY <2>1, BodyInjected DEF Rewrite!Enriched, RewriteInv
  <2>3. Enlarged(body)' = Enlarged(body) /\ Shaped(body)' = Shaped(body) /\ Enlarged(outgoing)' = Enlarged(outgoing')
    BY <2>1
  <2> QED
    BY <1>0, <2>1, <2>2, <2>3 DEF RewriteInv
<1> QED
  BY <1>1, <1>2, <1>3

\* handler.rs, "the router must dispatch on what was actually sent": whatever the body, the
\* node's overrides, the mode and the augmentation, the proxy expects a stream exactly when the
\* body it sends asks for one, and a body that is no completion goes as it came.
THEOREM StreamsAreAsAsked ==
  ASSUME RewriteConstants
  PROVE  Spec => []StreamAsAsked
<1> DEFINE Inv == part = "rewrite" => RewriteInv
<1>1. Init => Inv
  <2> SUFFICES ASSUME Init, part = "rewrite" PROVE RewriteInv
    OBVIOUS
  <2>1. Rewrite!Init
    BY DEF Init
  <2>2. body \in Rewrite!Scalars \/ Shaped(body)
    BY <2>1, BodiesAreShaped DEF Rewrite!Init
  <2> QED
    BY <2>1, <2>2 DEF Rewrite!Init, RewriteInv, Rewrite!StreamAsAsked
<1>2. Inv /\ [Next]_vars => Inv'
  <2> SUFFICES ASSUME Inv, [Next]_vars, part' = "rewrite" PROVE RewriteInv'
    OBVIOUS
  <2>0. part = "rewrite" /\ RewriteInv
    BY DEF Next, vars
  <2>1. CASE Rewrite!Next
    BY <2>0, <2>1, OverridesStep, InjectionStep DEF Rewrite!Next
  <2>2. CASE UNCHANGED rewriteVars
    <3>1. UNCHANGED <<step, node, mode, body, augmentation, outgoing, expected>>
      BY <2>2 DEF rewriteVars
    <3>2. Rewrite!StreamAsAsked' = Rewrite!StreamAsAsked
      BY <3>1 DEF Rewrite!StreamAsAsked, Rewrite!looks_like_completion_request
    <3>3. Enlarged(body)' = Enlarged(body) /\ Shaped(body)' = Shaped(body) /\ Enlarged(outgoing)' = Enlarged(outgoing)
      BY <3>1
    <3> QED
      BY <2>0, <3>1, <3>2, <3>3 DEF RewriteInv
  <2> QED
    BY <2>0, <2>1, <2>2 DEF Next, vars
<1>3. Inv => StreamAsAsked
  BY DEF RewriteInv, StreamAsAsked
<1> QED
  BY <1>1, <1>2, <1>3, PTL DEF Spec

---------------------------------------------------------------------------
(* Reprompt.                                                               *)

\* What stands for a value of another type is no object and no list.
RoundsConstants == \A f, D : [x \in D |-> f[x]] \notin Rounds!Scalars

\* Objects and lists are none of the scalars.
LEMMA ObjectsAreNoScalars ==
  ASSUME RoundsConstants
  PROVE  /\ \A f, m : Rounds!Choice(f, m) \notin Rounds!Scalars /\ Rounds!Answering(f, m) \notin Rounds!Scalars
         /\ \A c : <<c>> \notin Rounds!Scalars
         /\ \A w : Rounds!Text(w) \notin Rounds!Scalars
         /\ \A c, r, k : Rounds!Message(c, r, k) \notin Rounds!Scalars
         /\ \A w : [Rounds!Message(w, Absent, Absent) EXCEPT !.role = Absent] \notin Rounds!Scalars
<1>1. ASSUME NEW f, NEW m PROVE Rounds!Choice(f, m) \notin Rounds!Scalars
  <2>1. Rounds!Choice(f, m) = [x \in {"finish_reason", "message"} |-> Rounds!Choice(f, m)[x]]
    BY DEF Rounds!Choice
  <2> QED BY <2>1 DEF RoundsConstants
<1>2. ASSUME NEW f, NEW m PROVE Rounds!Answering(f, m) \notin Rounds!Scalars
  <2>1. Rounds!Answering(f, m) = [x \in {"choices"} |-> Rounds!Answering(f, m)[x]]
    BY DEF Rounds!Answering
  <2> QED BY <2>1 DEF RoundsConstants
<1>3. ASSUME NEW c PROVE <<c>> \notin Rounds!Scalars
  <2>1. <<c>> = [x \in 1 .. 1 |-> <<c>>[x]]
    OBVIOUS
  <2> QED BY <2>1 DEF RoundsConstants
<1>4. ASSUME NEW w PROVE Rounds!Text(w) \notin Rounds!Scalars
  <2>1. Rounds!Text(w) = [x \in {"is", "value"} |-> Rounds!Text(w)[x]]
    BY DEF Rounds!Text
  <2> QED BY <2>1 DEF RoundsConstants
<1>5. ASSUME NEW c, NEW r, NEW k PROVE Rounds!Message(c, r, k) \notin Rounds!Scalars
  <2>1. Rounds!Message(c, r, k) = [x \in {"role", "content", "reasoning", "tool_calls"} |-> Rounds!Message(c, r, k)[x]]
    BY DEF Rounds!Message
  <2> QED BY <2>1 DEF RoundsConstants
<1>6. ASSUME NEW w PROVE [Rounds!Message(w, Absent, Absent) EXCEPT !.role = Absent] \notin Rounds!Scalars
  <2> DEFINE u == [Rounds!Message(w, Absent, Absent) EXCEPT !.role = Absent]
  <2>1. u = [x \in {"role", "content", "reasoning", "tool_calls"} |-> u[x]]
    BY DEF Rounds!Message
  <2> HIDE DEF u
  <2>2. u \notin Rounds!Scalars
    BY <2>1 DEF RoundsConstants
  <2> QED BY <2>2 DEF u
<1> QED BY <1>1, <1>2, <1>3, <1>4, <1>5, <1>6

\* An answer with a choice whose message is an object or of another type.
Chosen(b) ==
  \E f, m : b = Rounds!Answering(f, m) /\ (m \in Rounds!Scalars \/ \E c, r, k : m = Rounds!Message(c, r, k))

\* The first choice of such an answer.
LEMMA FirstOfAnswer ==
  ASSUME RoundsConstants, NEW f, NEW m
  PROVE  /\ Rounds!First(Rounds!Answering(f, m)) = Rounds!Choice(f, m)
         /\ Rounds!FirstMessage(Rounds!Answering(f, m)) = m
<1>1. Rounds!Answering(f, m).choices = <<Rounds!Choice(f, m)>>
  BY DEF Rounds!Answering
<1>2. Rounds!First(Rounds!Answering(f, m)) = Rounds!Choice(f, m)
  <2>1. /\ Rounds!Answering(f, m) \notin Rounds!Scalars /\ <<Rounds!Choice(f, m)>> \notin Rounds!Scalars
    BY ObjectsAreNoScalars
  <2>2. <<Rounds!Choice(f, m)>> # <<>> /\ <<Rounds!Choice(f, m)>>[1] = Rounds!Choice(f, m)
    OBVIOUS
  <2> QED
    BY <1>1, <2>1, <2>2 DEF Rounds!First
<1>3. Rounds!Choice(f, m) \notin Rounds!Scalars
  BY ObjectsAreNoScalars
<1>4. Rounds!Choice(f, m).message = m
  BY DEF Rounds!Choice
<1> QED
  BY <1>2, <1>3, <1>4 DEF Rounds!FirstMessage

\* The answers the backend gives have such a choice or none.
LEMMA AnswersHaveChoices ==
  ASSUME NEW n, NEW b \in Rounds!AnswersOf(n)
  PROVE  Chosen(b) \/ Rounds!First(b) = Absent
<1>1. CASE b \in {[choices |-> <<>>], [choices |-> Absent], Other}
  <2>1. CASE b = Other
    BY <2>1 DEF Rounds!First, Rounds!Scalars
  <2>2. CASE b \in {[choices |-> <<>>], [choices |-> Absent]}
    <3>1. b.choices \in {<<>>, Absent}
      BY <2>2
    <3> QED
      BY <3>1 DEF Rounds!First, Rounds!Scalars
  <2> QED
    BY <1>1, <2>1, <2>2
<1>2. CASE b \notin {[choices |-> <<>>], [choices |-> Absent], Other}
  <2>1. PICK f, m : b = Rounds!Answering(f, m) /\ m \in Rounds!MessagesOf(n) \cup Rounds!Scalars
    BY <1>2 DEF Rounds!AnswersOf
  <2>2. m \in Rounds!MessagesOf(n) => \E c, r, k : m = Rounds!Message(c, r, k)
    BY DEF Rounds!MessagesOf
  <2> QED
    BY <2>1, <2>2 DEF Chosen
<1> QED
  BY <1>1, <1>2

\* An answer whose message is an object that says w.
Says(b, w) ==
  Rounds!has_assistant_message(b) /\ Rounds!FromContent(Rounds!FirstMessage(b).content) = w

\* A message object with that text.
LEMMA MessageSays ==
  ASSUME RoundsConstants, NEW f, NEW m, NEW w, m \notin Rounds!Scalars, m.content = Rounds!Text(w)
  PROVE  Says(Rounds!Answering(f, m), w) /\ Rounds!Answering(f, m) # Absent
<1>1. Rounds!FirstMessage(Rounds!Answering(f, m)) = m
  BY FirstOfAnswer
<1>2. Rounds!Text(w) \notin Rounds!Scalars /\ Rounds!Answering(f, m) \notin Rounds!Scalars
  BY ObjectsAreNoScalars
<1>3. Rounds!Text(w).is = "text" /\ Rounds!Text(w).value = w
  BY DEF Rounds!Text
<1>4. Rounds!FromContent(Rounds!Text(w)) = w
  BY <1>2, <1>3 DEF Rounds!FromContent
<1> QED
  BY <1>1, <1>2, <1>4 DEF Says, Rounds!has_assistant_message, Rounds!Scalars

\* The text replaced in an answer that can carry it: what else it says is kept.
LEMMA TextIsSet ==
  ASSUME RoundsConstants, NEW b, NEW w, Chosen(b), Rounds!Writable(b)
  PROVE  /\ Says(Rounds!set_assistant_text(b, w), w) /\ Rounds!set_assistant_text(b, w) # Absent
         /\ Rounds!HasCalls(Rounds!set_assistant_text(b, w)) = Rounds!HasCalls(b)
         /\ Rounds!First(Rounds!set_assistant_text(b, w)).finish_reason = Rounds!First(b).finish_reason
<1>1. PICK f, m : b = Rounds!Answering(f, m) /\ (m \in Rounds!Scalars \/ \E c, r, k : m = Rounds!Message(c, r, k))
  BY DEF Chosen
<1>2. Rounds!First(b) = Rounds!Choice(f, m) /\ Rounds!FirstMessage(b) = m
  BY <1>1, FirstOfAnswer
<1>3. m \notin {Absent, Other}
  BY <1>2 DEF Rounds!Writable, Rounds!Choice
<1> DEFINE u == IF m = Null THEN [Rounds!Message(Rounds!Text(w), Absent, Absent) EXCEPT !.role = Absent]
                ELSE [m EXCEPT !.content = Rounds!Text(w)]
<1>4. Rounds!set_assistant_text(b, w) = Rounds!Answering(f, u)
  <2>1. b.choices = <<Rounds!Choice(f, m)>> /\ Rounds!Choice(f, m).message = m
    BY <1>1 DEF Rounds!Answering, Rounds!Choice
  <2>2. Rounds!set_assistant_text(b, w) = [b EXCEPT !.choices[1].message = u]
    BY <2>1 DEF Rounds!set_assistant_text
  <2> HIDE DEF u
  <2>3. [b EXCEPT !.choices[1].message = u] = Rounds!Answering(f, u)
    BY <1>1 DEF Rounds!Answering, Rounds!Choice
  <2> QED
    BY <2>2, <2>3
<1>5. u \notin Rounds!Scalars /\ u.content = Rounds!Text(w)
  <2>1. CASE m = Null
    <3>1. u = [Rounds!Message(Rounds!Text(w), Absent, Absent) EXCEPT !.role = Absent]
      BY <2>1
    <3>2. u.content = Rounds!Text(w)
      BY <3>1 DEF Rounds!Message
    <3> QED
      BY <3>1, <3>2, ObjectsAreNoScalars
  <2>2. CASE m # Null
    <3>1. PICK c, r, k : m = Rounds!Message(c, r, k)
      BY <1>1, <1>3, <2>2 DEF Rounds!Scalars
    <3>2. u = Rounds!Message(Rounds!Text(w), r, k)
      BY <2>2, <3>1 DEF Rounds!Message
    <3>3. Rounds!Message(Rounds!Text(w), r, k).content = Rounds!Text(w)
      BY DEF Rounds!Message
    <3>4. Rounds!Message(Rounds!Text(w), r, k) \notin Rounds!Scalars
      BY ObjectsAreNoScalars
    <3> HIDE DEF u
    <3> QED
      BY <3>2, <3>3, <3>4
  <2> QED
    BY <2>1, <2>2
<1>6. Rounds!HasCalls(Rounds!Answering(f, u)) = Rounds!HasCalls(b)
  <2>1. CASE m = Null
    <3>1. u = [Rounds!Message(Rounds!Text(w), Absent, Absent) EXCEPT !.role = Absent]
      BY <2>1
    <3>2. u.tool_calls = Absent
      BY <3>1 DEF Rounds!Message
    <3> HIDE DEF u
    <3> QED
      BY <1>2, <2>1, <3>2, FirstOfAnswer DEF Rounds!HasCalls, Rounds!Scalars
  <2>2. CASE m # Null
    <3>1. PICK c, r, k : m = Rounds!Message(c, r, k)
      BY <1>1, <1>3, <2>2 DEF Rounds!Scalars
    <3>2. u.tool_calls = m.tool_calls
      BY <2>2, <3>1 DEF Rounds!Message
    <3>3. m \notin Rounds!Scalars
      BY <3>1, ObjectsAreNoScalars
    <3> HIDE DEF u
    <3> QED
      BY <1>2, <1>5, <3>2, <3>3, FirstOfAnswer DEF Rounds!HasCalls
  <2> QED
    BY <2>1, <2>2
<1> HIDE DEF u
<1>7. Rounds!First(Rounds!Answering(f, u)).finish_reason = Rounds!First(b).finish_reason
  BY <1>2, FirstOfAnswer DEF Rounds!Choice
<1> QED
  BY <1>4, <1>5, <1>6, <1>7, MessageSays

\* The text forced on an answer.
LEMMA TextIsForced ==
  ASSUME RoundsConstants, NEW b, NEW w, Chosen(b)
  PROVE  Says(Rounds!force_assistant_text(b, w), w) /\ Rounds!force_assistant_text(b, w) # Absent
<1>1. PICK f, m : b = Rounds!Answering(f, m)
  BY DEF Chosen
<1> DEFINE u == Rounds!Message(Rounds!Text(w), Absent, Absent)
<1>2. Rounds!First(b) \notin Rounds!Scalars
  <2>1. Rounds!First(b) = Rounds!Choice(f, m)
    BY <1>1, FirstOfAnswer
  <2>2. Rounds!Choice(f, m) \notin Rounds!Scalars
    BY ObjectsAreNoScalars
  <2> QED
    BY <2>1, <2>2
<1>3. Rounds!force_assistant_text(b, w) = Rounds!Answering(f, u)
  <2>1. Rounds!force_assistant_text(b, w) = [b EXCEPT !.choices[1].message = u]
    BY <1>2 DEF Rounds!force_assistant_text
  <2> HIDE DEF u
  <2>2. [b EXCEPT !.choices[1].message = u] = Rounds!Answering(f, u)
    BY <1>1 DEF Rounds!Answering, Rounds!Choice
  <2> QED
    BY <2>1, <2>2
<1>4. u \notin Rounds!Scalars /\ u.content = Rounds!Text(w)
  BY ObjectsAreNoScalars DEF Rounds!Message
<1> HIDE DEF u
<1> QED
  BY <1>3, <1>4, MessageSays

\* What the engine hands back when it gives up on a continuation.
LEMMA FinishKeeps ==
  ASSUME RoundsConstants, NEW b, NEW texts, Chosen(b)
  PROVE  /\ Rounds!has_assistant_message(Rounds!finish(b, texts)) /\ Rounds!finish(b, texts) # Absent
         /\ texts # <<>> => Says(Rounds!finish(b, texts), Rounds!Joined(texts))
<1>1. CASE texts # <<>>
  BY <1>1, TextIsSet, TextIsForced DEF Rounds!finish, Says
<1>2. CASE texts = <<>> /\ Rounds!has_assistant_message(b)
  <2>1. b # Absent
    BY ObjectsAreNoScalars DEF Chosen, Rounds!Scalars
  <2> QED
    BY <1>2, <2>1 DEF Rounds!finish
<1>3. CASE texts = <<>> /\ ~Rounds!has_assistant_message(b)
  BY <1>3, TextIsForced DEF Rounds!finish, Says
<1> QED
  BY <1>1, <1>2, <1>3

\* The texts collected after one more answer.
Heard(texts, b) == Rounds!push_text(texts, Rounds!extract_assistant_text(b))

\* The texts of the first answers, one answer after the other.
LEMMA SpokenRun ==
  ASSUME NEW S, NEW s \in Seq(S)
  PROVE  \E V : \E h \in [0 .. Len(s) -> V] :
           h[0] = <<>> /\ h[Len(s)] = Rounds!Spoken(s) /\ \A k \in 1 .. Len(s) : h[k] = Heard(h[k - 1], s[k])
<1> DEFINE n == Len(s)
           W == {Rounds!extract_assistant_text(b) : b \in S}
           V == Seq(W)
           G == [p \in (1 .. n) \X V |-> Heard(p[2], s[p[1]])]
           Folds(g) == g = [z \in SUBSET (1 .. n) |-> IF z = {} THEN <<>>
                                                     ELSE Heard(g[z \ {Greatest(z)}], s[Greatest(z)])]
<1>1. n \in Nat /\ DOMAIN s = 1 .. n
  OBVIOUS
<1>2. G \in [(1 .. n) \X V -> V]
  <2>1. ASSUME NEW t \in V, NEW k \in 1 .. n
        PROVE  Heard(t, s[k]) \in V
    <3>1. s[k] \in S
      OBVIOUS
    <3>2. Rounds!extract_assistant_text(s[k]) \in W
      BY <3>1
    <3> HIDE DEF W
    <3> QED
      BY <3>2 DEF Heard, Rounds!push_text
  <2> HIDE DEF V
  <2> QED
    BY <2>1
<1>3. <<>> \in V
  OBVIOUS
<1> HIDE DEF n, G, V
<1>4. PICK g \in [SUBSET (1 .. n) -> V] : Iterates(g, n, <<>>, G)
  BY <1>1, <1>2, <1>3, FoldIterates
<1>5. Folds(g)
  <2>1. ASSUME NEW z \in SUBSET (1 .. n), z # {}
        PROVE  g[z] = Heard(g[z \ {Greatest(z)}], s[Greatest(z)])
    <3>1. Greatest(z) \in 1 .. n
      BY <1>1, <2>1, GreatestIn
    <3>2. g[z \ {Greatest(z)}] \in V
      BY <2>1
    <3>3. g[z] = G[<<Greatest(z), g[z \ {Greatest(z)}]>>]
      BY <1>4, <2>1 DEF Iterates
    <3> QED
      BY <3>1, <3>2, <3>3 DEF G
  <2>2. g[{}] = <<>>
    BY <1>4 DEF Iterates
  <2> QED
    BY <2>1, <2>2
<1>6. PICK it : Folds(it) /\ Rounds!Spoken(s) = it[1 .. n]
  <2>1. Rounds!Spoken(s) = (CHOOSE it : Folds(it))[1 .. n]
    <3>1. \A acc, b : Heard(acc, b) = IF Rounds!Blank(Rounds!extract_assistant_text(b)) THEN acc
                                      ELSE Append(acc, Rounds!extract_assistant_text(b))
      BY DEF Heard, Rounds!push_text
    <3>2. Rounds!Spoken(s) =
            (CHOOSE it : it = [z \in SUBSET (1 .. n) |-> IF z = {} THEN <<>>
                                  ELSE IF Rounds!Blank(Rounds!extract_assistant_text(s[Greatest(z)]))
                                       THEN it[z \ {Greatest(z)}]
                                       ELSE Append(it[z \ {Greatest(z)}], Rounds!extract_assistant_text(s[Greatest(z)]))])[1 .. n]
      BY <1>1 DEF Rounds!Spoken, Rounds!FoldLeft, Rounds!MapThenFoldSet, Rounds!Max, Greatest
    <3> QED
      BY <3>1, <3>2
  <2> QED
    BY <1>5, <2>1
<1>7. PICK h \in [0 .. n -> V] : Runs(h, n, <<>>, G)
  <2> HIDE DEF Folds
  <2> QED
    BY <1>1, <1>4, FoldRuns
<1>8. ASSUME NEW k \in 1 .. n
      PROVE  h[k] = Heard(h[k - 1], s[k])
  <2>1. h[k - 1] \in V
    BY <1>1, <1>7
  <2> QED
    BY <1>7, <2>1 DEF G, Runs
<1>9. it[1 .. n] = h[n]
  <2>1. it[{}] = h[0]
    BY <1>6, <1>7 DEF Runs
  <2>2. ASSUME NEW k \in 1 .. n, it[1 .. (k - 1)] = h[k - 1]
        PROVE  it[1 .. k] = h[k]
    <3>1. /\ Greatest(1 .. k) = k /\ (1 .. k) \ {k} = 1 .. (k - 1)
          /\ 1 .. k \in SUBSET (1 .. n) /\ 1 .. k # {}
      BY <1>1, GreatestPrefix
    <3>2. it[1 .. k] = Heard(it[(1 .. k) \ {Greatest(1 .. k)}], s[Greatest(1 .. k)])
      BY <1>6, <3>1
    <3> QED
      BY <1>8, <2>2, <3>1, <3>2
  <2> HIDE DEF Folds
  <2>3. InStep(it, h, n)
    BY <2>1, <2>2 DEF InStep
  <2> QED
    BY <1>1, <2>3, FoldValue
<1>10. h[0] = <<>>
  BY <1>7 DEF Runs
<1>11. h[n] = Rounds!Spoken(s) /\ \A k \in 1 .. n : h[k] = Heard(h[k - 1], s[k])
  BY <1>6, <1>8, <1>9
<1> HIDE DEF Folds
<1>12. \E U : \E j \in [0 .. n -> U] :
         j[0] = <<>> /\ j[n] = Rounds!Spoken(s) /\ \A k \in 1 .. n : j[k] = Heard(j[k - 1], s[k])
  BY <1>7, <1>10, <1>11
<1> QED
  BY <1>12 DEF n

\* The texts of some answers and one more.
LEMMA SpokenLaws ==
  ASSUME NEW S, NEW s \in Seq(S), NEW b \in S
  PROVE  /\ Rounds!Spoken(<<>>) = <<>>
         /\ Rounds!Spoken(Append(s, b)) = Heard(Rounds!Spoken(s), b)
<1>1. Rounds!Spoken(<<>>) = <<>>
  <2>1. <<>> \in Seq(S) /\ Len(<<>>) = 0
    OBVIOUS
  <2> QED
    BY <2>1, SpokenRun
<1>2. Rounds!Spoken(Append(s, b)) = Heard(Rounds!Spoken(s), b)
  <2> DEFINE n == Len(s)
             t == Append(s, b)
  <2>1. n \in Nat /\ t \in Seq(S) /\ Len(t) = n + 1 /\ t[n + 1] = b /\ \A k \in 1 .. n : t[k] = s[k]
    OBVIOUS
  <2>2. PICK V : \E h \in [0 .. n -> V] :
          h[0] = <<>> /\ h[n] = Rounds!Spoken(s) /\ \A k \in 1 .. n : h[k] = Heard(h[k - 1], s[k])
    BY SpokenRun
  <2>3. PICK h \in [0 .. n -> V] :
          h[0] = <<>> /\ h[n] = Rounds!Spoken(s) /\ \A k \in 1 .. n : h[k] = Heard(h[k - 1], s[k])
    BY <2>2
  <2>4. PICK U : \E j \in [0 .. Len(t) -> U] :
          j[0] = <<>> /\ j[Len(t)] = Rounds!Spoken(t) /\ \A k \in 1 .. Len(t) : j[k] = Heard(j[k - 1], t[k])
    BY <2>1, SpokenRun
  <2>5. PICK j \in [0 .. Len(t) -> U] :
          j[0] = <<>> /\ j[Len(t)] = Rounds!Spoken(t) /\ \A k \in 1 .. Len(t) : j[k] = Heard(j[k - 1], t[k])
    BY <2>4
  <2> HIDE DEF n, t
  <2>6. j[n] = h[n]
    <3>1. j[0] = h[0]
      BY <2>3, <2>5
    <3>2. \A k \in 1 .. n : j[k - 1] = h[k - 1] => j[k] = h[k]
      BY <2>1, <2>3, <2>5
    <3> QED
      BY <2>1, <3>1, <3>2, Lockstep
  <2>7. j[n + 1] = Heard(j[n], b)
    BY <2>1, <2>5
  <2> QED
    BY <2>1, <2>3, <2>5, <2>6, <2>7 DEF t
<1> QED
  BY <1>1, <1>2

\* What a backend may answer.
Bodies == {stopped} \cup UNION {Rounds!AnswersOf(n) : n \in Nat}

\* While the loop runs, the texts collected are those said so far, and no reply
\* has continued yet; the body that was returned carries them.
RoundsInv ==
  /\ attempt \in Nat /\ said \in Seq(Bodies)
  /\ Chosen(stopped) \/ Rounds!First(stopped) = Absent
  /\ round \in {"judging", "looping", "waiting", "returned"}
  /\ {"skipped", "triggered", "exhausted"} \subseteq DOMAIN counters
  /\ round = "judging" => said = <<>> /\ counters.triggered = 0
  /\ round \in {"looping", "waiting"} =>
       /\ Chosen(stopped) /\ collected = Rounds!Spoken(<<stopped>> \o said)
       /\ said = <<>> \/ ~Rounds!has_continuation(said[Len(said)])
  /\ Rounds!NothingSaidIsLost

\* A body is of the two forms.
LEMMA BodiesHaveChoices ==
  ASSUME RoundsInv, NEW b \in Bodies
  PROVE  Chosen(b) \/ Rounds!First(b) = Absent
BY AnswersHaveChoices DEF Bodies, RoundsInv

\* The engine returns, with texts collected so far.
LEMMA RoundsReturn ==
  ASSUME RoundsConstants, attempt' \in Nat, said' \in Seq(Bodies), stopped' = stopped, Chosen(stopped),
         round' = "returned", {"skipped", "triggered", "exhausted"} \subseteq DOMAIN counters',
         Rounds!has_assistant_message(returned'),
         Rounds!Spoken(<<stopped>> \o said') # <<>> => Says(returned', Rounds!Joined(Rounds!Spoken(<<stopped>> \o said'))),
         said' # <<>> /\ Rounds!has_continuation(said'[Len(said')]) /\ Rounds!Writable(said'[Len(said')]) =>
           /\ Rounds!HasCalls(returned') = Rounds!HasCalls(said'[Len(said')])
           /\ Rounds!First(returned').finish_reason = Rounds!First(said'[Len(said')]).finish_reason
  PROVE  RoundsInv'
<1>1. Bodies' = Bodies /\ Chosen(stopped)'
  BY DEF Bodies, Chosen
<1>2. Rounds!NothingSaidIsLost'
  BY DEF Rounds!NothingSaidIsLost, Rounds!Last, Says
<1> QED
  BY <1>1, <1>2 DEF RoundsInv

\* The engine returns the stopped turn with the texts said so far, none of which continued.
LEMMA RoundsFinish ==
  ASSUME RoundsConstants, RoundsInv, round \in {"looping", "waiting"},
         Rounds!Return(Rounds!finish(stopped, collected)),
         UNCHANGED <<stopped, attempt, said>>, {"skipped", "triggered", "exhausted"} \subseteq DOMAIN counters'
  PROVE  RoundsInv'
<1>1. /\ attempt \in Nat /\ said \in Seq(Bodies) /\ Chosen(stopped)
      /\ collected = Rounds!Spoken(<<stopped>> \o said)
      /\ said = <<>> \/ ~Rounds!has_continuation(said[Len(said)])
  BY DEF RoundsInv
<1>2. round' = "returned" /\ returned' = Rounds!finish(stopped, collected) /\ said' = said /\ attempt' = attempt
  BY DEF Rounds!Return
<1>3. /\ Rounds!has_assistant_message(returned')
      /\ collected # <<>> => Says(returned', Rounds!Joined(collected))
  BY <1>1, <1>2, FinishKeeps
<1> QED
  BY <1>1, <1>2, <1>3, RoundsReturn

\* The answer is judged.
LEMMA RoundsJudge ==
  ASSUME RoundsConstants, RoundsInv, Rounds!Judge
  PROVE  RoundsInv'
<1>1. /\ round = "judging" /\ UNCHANGED <<stopped, attempt, said>> /\ said = <<>> /\ counters.triggered = 0
      /\ attempt \in Nat /\ {"skipped", "triggered", "exhausted"} \subseteq DOMAIN counters
      /\ Chosen(stopped) \/ Rounds!First(stopped) = Absent
  BY DEF RoundsInv, Rounds!Judge
<1>2. Bodies' = Bodies /\ said' \in Seq(Bodies) /\ (Chosen(stopped) \/ Rounds!First(stopped) = Absent)'
  BY <1>1 DEF Bodies, Chosen, Rounds!First
<1>3. CASE round' = "returned" /\ counters'.triggered = 0 /\ {"skipped", "triggered", "exhausted"} \subseteq DOMAIN counters'
  <2>1. Rounds!NothingSaidIsLost'
    BY <1>3 DEF Rounds!NothingSaidIsLost
  <2> QED
    BY <1>1, <1>2, <1>3, <2>1 DEF RoundsInv
<1>4. CASE /\ round' = "looping" /\ Rounds!should_trigger(stopped)
           /\ counters' = [counters EXCEPT !.triggered = @ + 1]
           /\ collected' = Rounds!push_text(<<>>, Rounds!extract_assistant_text(stopped))
  <2>1. Chosen(stopped)
    BY <1>1, <1>4 DEF Rounds!should_trigger, Rounds!Scalars
  <2>2. collected' = Rounds!Spoken(<<stopped>> \o said')
    <3>1. <<>> \in Seq(Bodies) /\ stopped \in Bodies
      BY DEF Bodies
    <3>2. Rounds!Spoken(<<>>) = <<>> /\ Rounds!Spoken(Append(<<>>, stopped)) = Heard(Rounds!Spoken(<<>>), stopped)
      BY <3>1, SpokenLaws
    <3>3. <<stopped>> \o said' = Append(<<>>, stopped)
      BY <1>1
    <3> QED
      BY <1>4, <3>2, <3>3 DEF Heard
  <2>3. Rounds!NothingSaidIsLost'
    BY <1>4 DEF Rounds!NothingSaidIsLost
  <2>4. {"skipped", "triggered", "exhausted"} \subseteq DOMAIN counters'
    BY <1>1, <1>4
  <2>5. Chosen(stopped)' /\ (collected = Rounds!Spoken(<<stopped>> \o said))'
    BY <1>1, <2>1, <2>2 DEF Chosen
  <2> QED
    BY <1>1, <1>2, <1>4, <2>3, <2>4, <2>5 DEF RoundsInv
<1>5. \/ round' = "returned" /\ counters'.triggered = 0 /\ {"skipped", "triggered", "exhausted"} \subseteq DOMAIN counters'
      \/ /\ round' = "looping" /\ Rounds!should_trigger(stopped)
         /\ counters' = [counters EXCEPT !.triggered = @ + 1]
         /\ collected' = Rounds!push_text(<<>>, Rounds!extract_assistant_text(stopped))
  BY <1>1 DEF Rounds!Judge, Rounds!Return
<1> QED
  BY <1>3, <1>4, <1>5

\* The top of the loop.
LEMMA RoundsRound ==
  ASSUME RoundsConstants, RoundsInv, Rounds!Round
  PROVE  RoundsInv'
<1>1. round = "looping" /\ UNCHANGED <<stopped, attempt, said, counters, collected>>
  BY DEF Rounds!Round
<1>2. CASE Rounds!Return(Rounds!finish(stopped, collected))
  <2>1. {"skipped", "triggered", "exhausted"} \subseteq DOMAIN counters'
    BY <1>1 DEF RoundsInv
  <2> QED
    BY <1>1, <1>2, <2>1, RoundsFinish
<1>3. CASE round' = "waiting"
  <2>1. Bodies' = Bodies /\ Chosen(stopped)' = Chosen(stopped)
        /\ (collected = Rounds!Spoken(<<stopped>> \o said))' = (collected = Rounds!Spoken(<<stopped>> \o said))
    BY <1>1 DEF Bodies, Chosen
  <2>2. Rounds!NothingSaidIsLost'
    BY <1>3 DEF Rounds!NothingSaidIsLost
  <2> QED
    BY <1>1, <1>3, <2>1, <2>2 DEF RoundsInv
<1> QED
  BY <1>2, <1>3 DEF Rounds!Round

\* The loop goes on: what is unchanged in the invariant.
LEMMA RoundsGoOn ==
  ASSUME RoundsInv, attempt' \in Nat, said' \in Seq(Bodies), stopped' = stopped, counters' = counters,
         Chosen(stopped), round' \in {"looping", "waiting"},
         collected' = Rounds!Spoken(<<stopped>> \o said'),
         said' = <<>> \/ ~Rounds!has_continuation(said'[Len(said')])
  PROVE  RoundsInv'
<1>1. Bodies' = Bodies /\ Chosen(stopped)' /\ (collected = Rounds!Spoken(<<stopped>> \o said))'
  BY DEF Bodies, Chosen
<1>2. Rounds!NothingSaidIsLost'
  BY DEF Rounds!NothingSaidIsLost
<1> QED
  BY <1>1, <1>2 DEF RoundsInv

\* A reply arrives: it is returned, or the stopped turn is, or the loop goes on.
LEMMA RoundsReply ==
  ASSUME RoundsConstants, RoundsInv, NEW reply \in Rounds!AnswersOf(attempt + 2), Rounds!Reply(reply)
  PROVE  RoundsInv'
<1> DEFINE texts == Rounds!push_text(collected, Rounds!extract_assistant_text(reply))
<1>1. /\ round = "waiting" /\ UNCHANGED <<stopped, counters>> /\ said' = Append(said, reply) /\ collected' = texts
  BY DEF Rounds!Reply
<1>2. /\ attempt \in Nat /\ said \in Seq(Bodies) /\ Chosen(stopped)
      /\ collected = Rounds!Spoken(<<stopped>> \o said)
      /\ {"skipped", "triggered", "exhausted"} \subseteq DOMAIN counters
  BY <1>1 DEF RoundsInv
<1>3. reply \in Bodies /\ (Chosen(reply) \/ Rounds!First(reply) = Absent)
  <2>1. attempt + 2 \in Nat
    BY <1>2
  <2>2. reply \in Bodies
    BY <2>1 DEF Bodies
  <2> QED
    BY <2>2, BodiesHaveChoices
<1>4. said' \in Seq(Bodies) /\ said' # <<>> /\ said'[Len(said')] = reply
  <2> HIDE DEF texts
  <2> QED
    BY <1>1, <1>2, <1>3
<1>5. texts = Rounds!Spoken(<<stopped>> \o said')
  <2>1. stopped \in Bodies
    BY DEF Bodies
  <2>2. <<stopped>> \o said \in Seq(Bodies) /\ <<stopped>> \o said' = Append(<<stopped>> \o said, reply)
    <3> HIDE DEF texts
    <3> QED
      BY <1>1, <1>2, <1>3, <2>1
  <2>3. Rounds!Spoken(Append(<<stopped>> \o said, reply)) = Heard(Rounds!Spoken(<<stopped>> \o said), reply)
    BY <1>3, <2>2, SpokenLaws
  <2> QED
    BY <1>2, <2>2, <2>3 DEF Heard
<1> HIDE DEF texts
<1>6. \/ /\ round' = "returned" /\ returned' = Rounds!After(reply, texts) /\ attempt' = attempt
      \/ /\ Rounds!After(reply, texts) = Absent /\ round' = "looping" /\ attempt' = attempt + 1
  BY DEF Rounds!Reply, Rounds!Return, texts
<1>7. Rounds!finish(stopped, texts) # Absent
  BY <1>2, FinishKeeps
<1>8. CASE Rounds!has_continuation(reply) /\ Rounds!Writable(reply)
  <2>1. Rounds!After(reply, texts) = Rounds!set_assistant_text(reply, Rounds!Joined(texts))
    BY <1>8 DEF Rounds!After
  <2>2. Chosen(reply)
    BY <1>3, <1>8 DEF Rounds!Writable, Rounds!Scalars
  <2>3. /\ Says(Rounds!After(reply, texts), Rounds!Joined(texts)) /\ Rounds!After(reply, texts) # Absent
        /\ Rounds!HasCalls(Rounds!After(reply, texts)) = Rounds!HasCalls(reply)
        /\ Rounds!First(Rounds!After(reply, texts)).finish_reason = Rounds!First(reply).finish_reason
    BY <1>8, <2>1, <2>2, TextIsSet
  <2>4. Rounds!has_assistant_message(Rounds!After(reply, texts))
    BY <2>3 DEF Says
  <2>5. round' = "returned" /\ returned' = Rounds!After(reply, texts) /\ attempt' = attempt
    BY <1>6, <2>3
  <2> QED
    BY <1>1, <1>2, <1>4, <1>5, <2>3, <2>4, <2>5, RoundsReturn
<1>9. CASE \/ Rounds!has_continuation(reply) /\ ~Rounds!Writable(reply)
           \/ ~Rounds!has_continuation(reply) /\ Rounds!Finished(Rounds!extract_assistant_text(reply))
  <2>1. Rounds!After(reply, texts) = Rounds!finish(stopped, texts)
    BY <1>9 DEF Rounds!After
  <2>2. round' = "returned" /\ returned' = Rounds!finish(stopped, texts) /\ attempt' = attempt
    BY <1>6, <1>7, <2>1
  <2>3. /\ Rounds!has_assistant_message(returned')
        /\ texts # <<>> => Says(returned', Rounds!Joined(texts))
    BY <1>2, <2>2, FinishKeeps
  <2>4. ~(Rounds!has_continuation(reply) /\ Rounds!Writable(reply))
    BY <1>9
  <2> QED
    BY <1>1, <1>2, <1>4, <1>5, <2>2, <2>3, <2>4, RoundsReturn
<1>10. CASE ~Rounds!has_continuation(reply) /\ ~Rounds!Finished(Rounds!extract_assistant_text(reply))
  <2>1. Rounds!After(reply, texts) = Absent
    BY <1>10 DEF Rounds!After
  <2>2. CASE round' = "looping" /\ attempt' = attempt + 1
    BY <1>1, <1>2, <1>4, <1>5, <1>10, <2>2, RoundsGoOn
  <2>3. Rounds!Reply(reply) => round' = "looping" /\ attempt' = attempt + 1
    BY <2>1 DEF Rounds!Reply, texts
  <2> QED
    BY <2>2, <2>3
<1> QED
  BY <1>8, <1>9, <1>10

\* Every step of the engine.
LEMMA RoundsKeep ==
  ASSUME RoundsConstants, RoundsInv, Rounds!Next
  PROVE  RoundsInv'
<1>1. CASE Rounds!Fails
  <2>1. /\ round = "waiting" /\ UNCHANGED <<stopped, attempt, said, counters>>
        /\ Rounds!Return(Rounds!finish(stopped, collected))
    BY <1>1 DEF Rounds!Fails
  <2>2. {"skipped", "triggered", "exhausted"} \subseteq DOMAIN counters'
    BY <2>1 DEF RoundsInv
  <2> QED
    BY <2>1, <2>2, RoundsFinish
<1>2. CASE Rounds!Exhausted
  <2>1. /\ round = "looping" /\ UNCHANGED <<stopped, attempt, said>>
        /\ Rounds!Return(Rounds!finish(stopped, collected))
        /\ counters' = [counters EXCEPT !.exhausted = @ + 1]
    BY <1>2 DEF Rounds!Exhausted
  <2>2. {"skipped", "triggered", "exhausted"} \subseteq DOMAIN counters'
    BY <2>1 DEF RoundsInv
  <2> QED
    BY <2>1, <2>2, RoundsFinish
<1>3. CASE Rounds!DeadlinePasses
  <2>1. /\ round \in {"looping", "waiting"}
        /\ UNCHANGED <<stopped, round, attempt, collected, said, counters>>
    BY <1>3 DEF Rounds!DeadlinePasses
  <2>2. /\ attempt \in Nat /\ said \in Seq(Bodies) /\ Chosen(stopped)
        /\ collected = Rounds!Spoken(<<stopped>> \o said)
        /\ said = <<>> \/ ~Rounds!has_continuation(said[Len(said)])
    BY <2>1 DEF RoundsInv
  <2> QED
    BY <2>1, <2>2, RoundsGoOn
<1> QED
  BY <1>1, <1>2, <1>3, RoundsJudge, RoundsRound, RoundsReply DEF Rounds!Next

\* The engine starts with nothing said.
LEMMA RoundsStart ==
  ASSUME Rounds!Init
  PROVE  RoundsInv
<1>1. Chosen(stopped) \/ Rounds!First(stopped) = Absent
  <2>1. stopped \in Rounds!AnswersOf(1) => Chosen(stopped) \/ Rounds!First(stopped) = Absent
    BY AnswersHaveChoices
  <2>2. ASSUME NEW c, NEW r, NEW k, stopped = Rounds!Answering("stop", Rounds!Message(c, r, k))
        PROVE  Chosen(stopped)
    BY <2>2 DEF Chosen
  <2> QED
    BY <2>1, <2>2 DEF Rounds!Init
<1>2. /\ round = "judging" /\ attempt = 0 /\ said = <<>>
      /\ counters = [skipped |-> 0, triggered |-> 0, exhausted |-> 0]
  BY DEF Rounds!Init
<1>3. Rounds!NothingSaidIsLost
  BY <1>2 DEF Rounds!NothingSaidIsLost
<1>4. attempt \in Nat /\ said \in Seq(Bodies) /\ counters.triggered = 0
      /\ {"skipped", "triggered", "exhausted"} \subseteq DOMAIN counters
  BY <1>2
<1> QED
  BY <1>1, <1>2, <1>3, <1>4 DEF RoundsInv

\* The engine keeps what it holds while another stage runs.
LEMMA RoundsStutter ==
  ASSUME RoundsInv, UNCHANGED repromptVars
  PROVE  RoundsInv'
<1>1. UNCHANGED <<stopped, round, attempt, collected, said, counters, returned>>
  BY DEF repromptVars
<1>2. Bodies' = Bodies /\ Chosen(stopped)' = Chosen(stopped)
      /\ Rounds!First(stopped)' = Rounds!First(stopped)
      /\ (collected = Rounds!Spoken(<<stopped>> \o said))' = (collected = Rounds!Spoken(<<stopped>> \o said))
  BY <1>1 DEF Bodies, Chosen, Rounds!First
<1>3. Rounds!NothingSaidIsLost'
  BY <1>1 DEF RoundsInv, Rounds!NothingSaidIsLost
<1> QED
  BY <1>1, <1>2, <1>3 DEF RoundsInv

\* reprompt.rs: however many rounds are asked for, however they end and whenever the
\* deadline passes, the body that is returned has a message that carries every text said, in
\* order, and a reply that continues is the one that is returned whenever it can carry the text.
THEOREM EveryTextIsCarried ==
  ASSUME RoundsConstants
  PROVE  Spec => []NothingSaidIsLost
<1> DEFINE Inv == part = "rounds" => RoundsInv
<1>1. Init => Inv
  BY RoundsStart DEF Init
<1>2. Inv /\ [Next]_vars => Inv'
  <2> SUFFICES ASSUME Inv, [Next]_vars, part' = "rounds"
               PROVE  RoundsInv'
    OBVIOUS
  <2>1. part = "rounds" /\ RoundsInv
    BY DEF Next, vars
  <2>2. Rounds!Next \/ UNCHANGED repromptVars
    BY <2>1 DEF Next, vars
  <2> QED
    BY <2>1, <2>2, RoundsKeep, RoundsStutter
<1>3. Inv => NothingSaidIsLost
  BY DEF RoundsInv, NothingSaidIsLost
<1> QED
  BY <1>1, <1>2, <1>3, PTL DEF Spec

===========================================================================
