---------------------------- MODULE ServicesProofs ----------------------------
(***************************************************************************)
(* Proofs about the services of MCServices, as the specification that TLC  *)
(* checks composes them: the prompt file cache, the cached KV-cache        *)
(* capability and the context-window cache for any number of concurrent    *)
(* calls, the routing to groups for any number of groups, the start for    *)
(* any configuration the model draws from, and the model-switcher.         *)
(***************************************************************************)
EXTENDS MCServices, FiniteSetTheorems, SequenceTheorems, TLAPS

---------------------------------------------------------------------------
(* Induction, and sets in increasing order.                                *)

\* A set of counterexamples among the naturals has a least one.
LEMMA LeastNatural ==
  ASSUME NEW T, T \subseteq Nat, T # {}
  PROVE  \E x \in T : \A y \in T : x <= y
<1> DEFINE B == {0 .. x : x \in T}
           R == StrictSubsetOrdering(Nat)
<1>1. B \subseteq FiniteSubsetsOf(Nat)
  <2> SUFFICES ASSUME NEW x \in T  PROVE 0 .. x \in FiniteSubsetsOf(Nat)  OBVIOUS
  <2>1. 0 .. x \subseteq Nat /\ x \in Int /\ 0 \in Int  OBVIOUS
  <2>2. IsFiniteSet(0 .. x)  BY <2>1, FS_Interval
  <2> QED  BY <2>1, <2>2 DEF FiniteSubsetsOf
<1>2. B # {}  OBVIOUS
<1>3. IsWellFoundedOn(R, FiniteSubsetsOf(Nat))  BY FS_StrictSubsetOrderingWellFounded
<1>4. PICK b \in B : \A d \in B : ~ (<<d, b>> \in R)
  <2> HIDE DEF B, R
  <2> QED  BY <1>1, <1>2, <1>3, WFMin
<1>5. PICK x \in T : b = 0 .. x  OBVIOUS
<1>6. ASSUME NEW y \in T, y < x  PROVE FALSE
  <2>1. 0 .. y \subseteq Nat /\ 0 .. x \subseteq Nat  OBVIOUS
  <2>2. 0 .. y \subseteq 0 .. x /\ x \in 0 .. x /\ x \notin 0 .. y  BY <1>6
  <2>3. <<0 .. y, 0 .. x>> \in R  BY <2>1, <2>2 DEF StrictSubsetOrdering
  <2> QED  BY <1>4, <1>5, <2>3
<1> QED  BY <1>6

\* A function on 1 .. n whose values grow.
Increasing(t, n) == \A i, j \in 1 .. n : i < j => t[i] < t[j]

\* A finite set of integers can be listed in increasing order: a listing of all but
\* one element shows which element is the greatest, and a listing of the others goes
\* before it.
LEMMA IncreasingListing ==
  ASSUME NEW n \in Nat, NEW S, S \subseteq Int, IsFiniteSet(S), Cardinality(S) = n
  PROVE  \E t \in [1 .. n -> S] : Increasing(t, n)
<1> DEFINE Listed(T, k) == \E t \in [1 .. k -> T] : Increasing(t, k)
           Bad == {k \in Nat : \E T \in SUBSET S : Cardinality(T) = k /\ ~Listed(T, k)}
<1>0. SUFFICES ASSUME Bad # {}  PROVE FALSE
  <2>1. S \in SUBSET S
    OBVIOUS
  <2> QED
    BY <2>1
<1>1. PICK m \in Bad : \A k \in Bad : m <= k
  <2>1. Bad \subseteq Nat
    OBVIOUS
  <2> HIDE DEF Bad
  <2> QED
    BY <1>0, <2>1, LeastNatural
<1>2. PICK T \in SUBSET S : Cardinality(T) = m /\ ~Listed(T, m)
  BY <1>1
<1>3. IsFiniteSet(T) /\ m \in Nat /\ T \subseteq Int
  BY <1>1, <1>2, FS_Subset
<1>4. m # 0
  <2> SUFFICES ASSUME m = 0  PROVE FALSE
    OBVIOUS
  <2>1. <<>> \in [1 .. 0 -> T] /\ Increasing(<<>>, 0)
    BY DEF Increasing
  <2> QED
    BY <1>2, <2>1
<1>5. ASSUME NEW x \in T
      PROVE  Listed(T \ {x}, m - 1)
  <2>1. Cardinality(T \ {x}) = m - 1
    BY <1>2, <1>3, FS_RemoveElement
  <2>2. m - 1 \in Nat /\ m - 1 \notin Bad
    <3> HIDE DEF Bad
    <3> QED
      BY <1>1, <1>3, <1>4
  <2>3. T \ {x} \in SUBSET S
    BY <1>2
  <2> HIDE DEF Listed
  <2> QED
    BY <2>1, <2>2, <2>3
<1>6. PICK x \in T : TRUE
  <2>1. T # {}
    BY <1>2, <1>3, <1>4, FS_EmptySet
  <2> QED
    BY <2>1
<1>7. \E g \in T : \A y \in T \ {g} : y < g
  <2> HIDE DEF Bad
  <2>1. PICK t \in [1 .. (m - 1) -> T \ {x}] : Increasing(t, m - 1)
    BY <1>5, <1>6
  <2>2. \A y \in T \ {x} : \E i \in 1 .. (m - 1) : y = t[i]
    <3>1. t \in Injection(1 .. (m - 1), T \ {x})
      <4>1. \A i, j \in 1 .. (m - 1) : t[i] = t[j] => i = j
        <5> SUFFICES ASSUME NEW i \in 1 .. (m - 1), NEW j \in 1 .. (m - 1), t[i] = t[j], i < j
                     PROVE  FALSE
          BY <1>3, <1>4
        <5>1. t[i] \in Int /\ t[i] < t[j]
          BY <2>1 DEF Increasing
        <5> QED
          BY <5>1
      <4> QED
        BY <4>1, <2>1 DEF Injection, IsInjective
    <3>2. Cardinality(T \ {x}) = m - 1 /\ IsFiniteSet(T \ {x})
      BY <1>2, <1>3, FS_RemoveElement
    <3>3. Cardinality(1 .. (m - 1)) = m - 1
      BY <1>3, <1>4, FS_Interval
    <3>4. t \in Surjection(1 .. (m - 1), T \ {x})
      BY <3>1, <3>2, <3>3, FS_Injection
    <3> QED
      BY <3>4 DEF Surjection
  <2>3. CASE m = 1
    BY <2>2, <2>3, <1>6
  <2>4. CASE m # 1 /\ t[m - 1] < x
    <3>1. ASSUME NEW y \in T \ {x}
          PROVE  y < x
      <4>1. PICK i \in 1 .. (m - 1) : y = t[i]
        BY <2>2
      <4>2. y \in Int /\ x \in Int /\ m - 1 \in 1 .. (m - 1)
        BY <2>4, <1>3, <1>4, <1>6
      <4>3. t[m - 1] \in Int
        BY <2>1, <1>3, <4>2
      <4>4. i = m - 1 \/ y < t[m - 1]
        BY <2>1, <4>1, <4>2, <1>3 DEF Increasing
      <4> QED
        BY <2>4, <4>1, <4>2, <4>3, <4>4
    <3> QED
      BY <3>1, <1>6
  <2>5. CASE m # 1 /\ ~(t[m - 1] < x)
    <3>0. m - 1 \in 1 .. (m - 1)
      BY <2>5, <1>3, <1>4
    <3>1. t[m - 1] \in T \ {x}
      BY <2>1, <3>0
    <3>2. \A y \in T \ {t[m - 1]} : y < t[m - 1]
      <4>1. ASSUME NEW y \in T \ {x}, y # t[m - 1]  PROVE y < t[m - 1]
        BY <4>1, <2>1, <2>2, <2>5, <3>0, <1>3 DEF Increasing
      <4>2. x < t[m - 1]
        <5>1. t[m - 1] \in Int /\ x \in Int /\ x # t[m - 1]
          BY <3>1, <1>3, <1>6
        <5> QED
          BY <5>1, <2>5
      <4> QED
        BY <4>1, <4>2
    <3> QED
      BY <3>1, <3>2
  <2> QED
    BY <2>3, <2>4, <2>5
<1>8. PICK g \in T : \A y \in T \ {g} : y < g
  BY <1>7
<1>9. PICK t \in [1 .. (m - 1) -> T \ {g}] : Increasing(t, m - 1)
  BY <1>5, <1>8
<1> DEFINE u == [i \in 1 .. m |-> IF i = m THEN g ELSE t[i]]
<1>10. u \in [1 .. m -> T]
  BY <1>3, <1>8, <1>9
<1>11. Increasing(u, m)
  <2> SUFFICES ASSUME NEW i \in 1 .. m, NEW j \in 1 .. m, i < j
               PROVE  u[i] < u[j]
    BY DEF Increasing
  <2>1. i \in 1 .. (m - 1) /\ u[i] = t[i] /\ t[i] \in T \ {g}
    BY <1>3, <1>9
  <2>2. CASE j = m
    BY <2>1, <2>2, <1>8
  <2>3. CASE j # m
    BY <2>1, <2>3, <1>3, <1>9 DEF Increasing
  <2> QED
    BY <2>2, <2>3
<1> HIDE DEF u
<1> QED
  BY <1>2, <1>10, <1>11

---------------------------------------------------------------------------
(* PromptCache.                                                            *)

PromptTypes ==
  /\ file \in Nat /\ text \in Nat /\ mtime \in Nat
  /\ at \in [Tasks -> {"idle", "compare", "read", "text", "mtime", "prompt", "unchanged",
                       "kept", "done"}]
  /\ stat \in [Tasks -> Nat] /\ content \in [Tasks -> Nat]
  /\ overlap \in BOOLEAN

\* A reload under way: its stat is no newer than its read, its read no newer than the
\* file, and its text no older than what the cache holds.
ReloadInOrder(t) ==
  /\ Prompt!Reloading(t) => stat[t] <= file
  /\ at[t] \in {"text", "mtime"} => stat[t] <= content[t] /\ content[t] <= file
  /\ at[t] = "text" => text <= content[t]
  /\ at[t] = "mtime" => text = content[t]

\* As long as no two reloads overlapped, there is at most one, and the stored mtime is
\* never newer than the stored text.
PromptInv ==
  /\ PromptTypes
  /\ ~overlap =>
       /\ \A t, q \in Tasks : Prompt!Reloading(t) /\ Prompt!Reloading(q) => t = q
       /\ \A t \in Tasks : ReloadInOrder(t)
       /\ mtime <= text /\ text <= file

\* The prompt cache starts with PromptInv: nothing read, no reload under way.
LEMMA PromptInit == Prompt!Init => PromptInv
<1> SUFFICES ASSUME Prompt!Init
             PROVE  PromptInv
  OBVIOUS
<1>1. PromptTypes
  BY DEF Prompt!Init, PromptTypes
<1>2. \A t \in Tasks : ~Prompt!Reloading(t) /\ ReloadInOrder(t)
  BY DEF Prompt!Init, ReloadInOrder, Prompt!Reloading
<1> QED
  BY <1>1, <1>2 DEF Prompt!Init, PromptInv

\* A step of one task in the absence of overlaps: the others are not reloading.
LEMMA PromptTask ==
  ASSUME PromptInv, NEW t \in Tasks, Prompt!Task(t)
  PROVE  PromptInv'
<1> USE DEF Prompt!Go, Prompt!Return, Prompt!disk
<1>1. PromptTypes'
  <2>1. CASE Prompt!Stat(t) \/ Prompt!Compare(t) \/ Prompt!ReadFile(t)
    BY <2>1 DEF Prompt!Stat, Prompt!Compare, Prompt!ReadFile, PromptInv, PromptTypes
  <2>2. CASE Prompt!StoreText(t) \/ Prompt!StoreMtime(t)
    BY <2>2 DEF Prompt!StoreText, Prompt!StoreMtime, PromptInv, PromptTypes
  <2>3. CASE Prompt!Reloaded(t) \/ Prompt!Unchanged(t) \/ Prompt!Kept(t)
    BY <2>3 DEF Prompt!Reloaded, Prompt!Unchanged, Prompt!Kept, PromptInv, PromptTypes
  <2> QED
    BY <2>1, <2>2, <2>3 DEF Prompt!Task
<1>2. ASSUME ~overlap'
      PROVE  /\ \A p, q \in Tasks : Prompt!Reloading(p)' /\ Prompt!Reloading(q)' => p = q
             /\ \A q \in Tasks : ReloadInOrder(q)'
             /\ mtime' <= text' /\ text' <= file'
  <2>1. /\ ~overlap
        /\ \A p, q \in Tasks : Prompt!Reloading(p) /\ Prompt!Reloading(q) => p = q
        /\ \A q \in Tasks : ReloadInOrder(q)
        /\ mtime <= text /\ text <= file
    <3>1. ~overlap
      BY <1>2 DEF Prompt!Task, Prompt!Stat, Prompt!Compare, Prompt!ReadFile, Prompt!StoreText,
         Prompt!StoreMtime, Prompt!Reloaded, Prompt!Unchanged, Prompt!Kept, PromptInv, PromptTypes
    <3> QED
      BY <3>1 DEF PromptInv
  <2>2. /\ file' = file
        /\ \A q \in Tasks \ {t} : at'[q] = at[q] /\ stat'[q] = stat[q] /\ content'[q] = content[q]
    BY DEF Prompt!Task, Prompt!Stat, Prompt!Compare, Prompt!ReadFile, Prompt!StoreText,
       Prompt!StoreMtime, Prompt!Reloaded, Prompt!Unchanged, Prompt!Kept, PromptInv, PromptTypes
  <2>3. Prompt!Reloading(t)' => Prompt!Reloading(t) \/ \A q \in Tasks : ~Prompt!Reloading(q)
    BY <1>2, <2>1 DEF Prompt!Task, Prompt!Stat, Prompt!Compare, Prompt!ReadFile, Prompt!StoreText,
       Prompt!StoreMtime, Prompt!Reloaded, Prompt!Unchanged, Prompt!Kept, PromptInv, PromptTypes,
       Prompt!Reloading
  <2>4. \A p, q \in Tasks : Prompt!Reloading(p)' /\ Prompt!Reloading(q)' => p = q
    BY <2>1, <2>2, <2>3 DEF Prompt!Reloading
  <2>5. ReloadInOrder(t)' /\ mtime' <= text' /\ text' <= file'
    <3>0. ReloadInOrder(t) /\ file \in Nat /\ stat[t] \in Nat /\ content[t] \in Nat /\ text \in Nat /\ mtime \in Nat
      BY <2>1 DEF PromptInv, PromptTypes
    <3>1. CASE Prompt!Stat(t) \/ Prompt!Compare(t) \/ Prompt!ReadFile(t)
      BY <2>1, <3>0, <3>1 DEF Prompt!Stat, Prompt!Compare, Prompt!ReadFile, PromptInv, PromptTypes,
         ReloadInOrder, Prompt!Reloading
    <3>2. CASE Prompt!StoreText(t) \/ Prompt!StoreMtime(t)
      BY <2>1, <3>0, <3>2 DEF Prompt!StoreText, Prompt!StoreMtime, PromptInv, PromptTypes,
         ReloadInOrder, Prompt!Reloading
    <3>3. CASE Prompt!Reloaded(t) \/ Prompt!Unchanged(t) \/ Prompt!Kept(t)
      BY <2>1, <3>0, <3>3 DEF Prompt!Reloaded, Prompt!Unchanged, Prompt!Kept, PromptInv, PromptTypes,
         ReloadInOrder, Prompt!Reloading
    <3> QED
      BY <3>1, <3>2, <3>3 DEF Prompt!Task
  <2>6. ASSUME NEW q \in Tasks \ {t}
        PROVE  ReloadInOrder(q)'
    <3>1. CASE text' = text
      BY <2>1, <2>2, <3>1 DEF ReloadInOrder, Prompt!Reloading
    <3>2. CASE text' # text
      <4>1. Prompt!Reloading(t)
        BY <3>2 DEF Prompt!Task, Prompt!Stat, Prompt!Compare, Prompt!ReadFile, Prompt!StoreText,
           Prompt!StoreMtime, Prompt!Reloaded, Prompt!Unchanged, Prompt!Kept, Prompt!Reloading
      <4>2. ~Prompt!Reloading(q)
        BY <2>1, <4>1
      <4> QED
        BY <2>2, <4>2 DEF ReloadInOrder, Prompt!Reloading
    <3> QED
      BY <3>1, <3>2
  <2> QED
    BY <2>4, <2>5, <2>6
<1> QED
  BY <1>1, <1>2 DEF PromptInv

\* PromptInv is inductive for the refreshes of the prompt file.
LEMMA PromptStep == PromptInv /\ [Prompt!Next]_(Prompt!vars) => PromptInv'
<1> SUFFICES ASSUME PromptInv, [Prompt!Next]_(Prompt!vars)
             PROVE  PromptInv'
  OBVIOUS
<1>1. CASE Prompt!Edit \/ Prompt!Vanish \/ UNCHANGED Prompt!vars
  <2>1. /\ file' \in Nat /\ file <= file'
        /\ UNCHANGED <<text, mtime, at, stat, content, overlap>>
    BY <1>1 DEF Prompt!Edit, Prompt!Vanish, Prompt!vars, PromptInv, PromptTypes
  <2>2. PromptTypes'
    BY <2>1 DEF PromptInv, PromptTypes
  <2>3. ASSUME ~overlap, NEW t \in Tasks
        PROVE  ReloadInOrder(t)'
    BY <2>1, <2>3 DEF PromptInv, PromptTypes, ReloadInOrder, Prompt!Reloading
  <2> QED
    BY <2>1, <2>2, <2>3 DEF PromptInv, PromptTypes, Prompt!Reloading
<1> QED
  BY <1>1, PromptTask DEF Prompt!Next

\* PromptFileCache::refresh stats the file before it reads it and stores the text before
\* the mtime: with any number of calls, as long as no two reloads overlap, an mtime that
\* is the file's vouches for a text that is the file's.
THEOREM MtimeVouchesForText == Spec => []CurrentMtimeMeansCurrentText
<1>1. Init => PromptInv
  BY PromptInit DEF Init
<1>2. [Next]_vars => [Prompt!Next]_(Prompt!vars)
  BY DEF Next, vars, promptVars, Prompt!vars
<1>3. PromptInv => CurrentMtimeMeansCurrentText
  BY DEF PromptInv, PromptTypes, CurrentMtimeMeansCurrentText, Prompt!CurrentMtimeMeansCurrentText
<1> QED
  BY <1>1, <1>2, <1>3, PromptStep, PTL DEF Spec

---------------------------------------------------------------------------
(* KvCache.                                                                *)

\* The clock starts at zero, and no entry is not an answer.
KvConstants == MaxClock \in Nat /\ None \notin Kv!Answer

\* What the backend is, is settled when the proxy starts.
TheAnswer == [tag |-> "Known", info |-> engine.kind = "vllm"]

\* A scrape brings the backend's answer or a failure; while the answer is cached, the
\* calls that may still write are the racers.
KvInv ==
  /\ instant \in 0 .. MaxClock
  /\ engine \in [kind : {"vllm", "llamacpp"}, up : BOOLEAN]
  /\ call \in [Tasks -> {"idle", "scrape", "warn", "write", "done"}]
  /\ lookup \in [Tasks -> {None} \cup Kv!Answer \cup Kv!Failure]
  /\ \A t \in Tasks : call[t] = "write" => lookup[t] = TheAnswer \/ lookup[t] \in Kv!Failure
  /\ Kv!Known(kv_info) => kv_info = TheAnswer /\ Kv!Scraping \subseteq racers

\* KvInv is inductive, and under it a step loses a cached answer only to a racer.
LEMMA KvStep ==
  ASSUME KvConstants, KvInv, [Kv!Next]_(Kv!vars)
  PROVE  KvInv' /\ [Kv!AnswerLostOnlyToRacer]_(Kv!vars)
<1> USE DEF Kv!Go
<1>1. CASE Kv!Tick \/ Kv!Boot \/ UNCHANGED Kv!vars
  <2>1. /\ instant' \in 0 .. MaxClock /\ engine' \in [kind : {"vllm", "llamacpp"}, up : BOOLEAN]
        /\ engine'.kind = engine.kind
        /\ UNCHANGED <<kv_info, call, lookup, racers>>
    <3>1. CASE Kv!Boot
      BY <3>1 DEF Kv!Boot, KvInv
    <3>2. CASE Kv!Tick \/ UNCHANGED Kv!vars
      BY <3>2 DEF Kv!Tick, Kv!vars, KvInv, KvConstants
    <3> QED
      BY <1>1, <3>1, <3>2
  <2>2. KvInv'
    BY <2>1 DEF KvInv, TheAnswer, Kv!Scraping, Kv!Known
  <2> QED
    BY <2>1, <2>2 DEF Kv!AnswerLostOnlyToRacer
<1>2. ASSUME NEW t \in Tasks, Kv!Check(t)
      PROVE  KvInv' /\ Kv!AnswerLostOnlyToRacer
  <2>1. KvInv'
    BY <1>2 DEF Kv!Check, KvInv, TheAnswer, Kv!Scraping
  <2> QED
    BY <1>2, <2>1 DEF Kv!Check, Kv!AnswerLostOnlyToRacer
<1>3. ASSUME NEW t \in Tasks, Kv!Scrape(t) \/ Kv!WarnAndStamp(t)
      PROVE  KvInv' /\ Kv!AnswerLostOnlyToRacer
  <2>1. /\ UNCHANGED <<instant, engine, kv_info, racers>>
        /\ call[t] \in {"scrape", "warn"}
        /\ \E label \in {"write", "warn"} : call' = [call EXCEPT ![t] = label]
        /\ \/ lookup' = [lookup EXCEPT ![t] = TheAnswer]
           \/ lookup' = [lookup EXCEPT ![t] = [tag |-> "Failed", at |-> instant]]
           \/ lookup' = lookup /\ call' = [call EXCEPT ![t] = "warn"]
    BY <1>3 DEF Kv!Scrape, Kv!WarnAndStamp, TheAnswer
  <2>2. TheAnswer \in Kv!Answer /\ [tag |-> "Failed", at |-> instant] \in Kv!Failure
    BY DEF TheAnswer, Kv!Answer, Kv!Failure, KvInv
  <2>3. lookup' \in [Tasks -> {None} \cup Kv!Answer \cup Kv!Failure]
    BY <2>1, <2>2 DEF KvInv
  <2>4. \A q \in Tasks : call'[q] = "write" => lookup'[q] = TheAnswer \/ lookup'[q] \in Kv!Failure
    BY <2>1, <2>2 DEF KvInv
  <2>5. TheAnswer' = TheAnswer /\ Kv!Scraping' = Kv!Scraping
    BY <2>1 DEF TheAnswer, Kv!Scraping, KvInv
  <2>6. KvInv'
    BY <2>1, <2>3, <2>4, <2>5 DEF KvInv, Kv!Known
  <2> QED
    BY <2>1, <2>6 DEF Kv!AnswerLostOnlyToRacer
<1>4. ASSUME NEW t \in Tasks, Kv!Write(t)
      PROVE  KvInv' /\ Kv!AnswerLostOnlyToRacer
  <2>1. /\ call[t] = "write" /\ kv_info' = lookup[t] /\ UNCHANGED <<instant, engine>>
        /\ call' = [call EXCEPT ![t] = "done"] /\ lookup' = [lookup EXCEPT ![t] = None]
        /\ racers' = IF Kv!Known(kv_info') /\ ~Kv!Known(kv_info) THEN Kv!Scraping \ {t} ELSE racers
    BY <1>4 DEF Kv!Write
  <2>2. lookup[t] = TheAnswer \/ lookup[t] \in Kv!Failure
    BY <2>1 DEF KvInv
  <2>3. TheAnswer' = TheAnswer /\ Kv!Scraping' = Kv!Scraping \ {t} /\ t \in Kv!Scraping
    BY <2>1 DEF TheAnswer, Kv!Scraping, KvInv
  <2>4. \A e \in Kv!Failure : e \notin Kv!Answer
    BY DEF Kv!Failure, Kv!Answer
  <2>5. Kv!Known(kv_info)' => kv_info' = TheAnswer /\ Kv!Scraping' \subseteq racers'
    BY <2>1, <2>2, <2>3, <2>4 DEF KvInv, Kv!Known
  <2>6. /\ call' \in [Tasks -> {"idle", "scrape", "warn", "write", "done"}]
        /\ lookup' \in [Tasks -> {None} \cup Kv!Answer \cup Kv!Failure]
        /\ \A q \in Tasks : call'[q] = "write" => lookup'[q] = TheAnswer \/ lookup'[q] \in Kv!Failure
    BY <2>1 DEF KvInv
  <2>7. KvInv'
    BY <2>1, <2>3, <2>5, <2>6 DEF KvInv
  <2>8. ASSUME Kv!Known(kv_info), kv_info' # kv_info
        PROVE  t \in racers /\ call'[t] = "done" /\ kv_info' \in Kv!Failure
    BY <2>1, <2>2, <2>3, <2>8 DEF KvInv
  <2> QED
    BY <2>1, <2>7, <2>8 DEF Kv!AnswerLostOnlyToRacer
<1> QED
  BY <1>1, <1>2, <1>3, <1>4 DEF Kv!Next, Kv!Task

\* kv_cache_info: with any number of concurrent calls, the permanent answer about a
\* backend is overwritten only by a scrape that was under way when it was installed, and
\* then by a failure, which expires.
THEOREM KnownAnswerKept ==
  ASSUME KvConstants
  PROVE  Spec => [][Kv!AnswerLostOnlyToRacer]_(Kv!vars)
<1>1. Kv!Init => KvInv
  <2> SUFFICES ASSUME Kv!Init
               PROVE  KvInv
    OBVIOUS
  <2>1. ~Kv!Known(kv_info)
    BY DEF Kv!Init, Kv!Known, KvConstants
  <2> QED
    BY <2>1 DEF Kv!Init, KvInv, KvConstants
<1>2. KvInv /\ [Kv!Next]_(Kv!vars) => KvInv' /\ [Kv!AnswerLostOnlyToRacer]_(Kv!vars)
  BY KvStep
<1>3. Init => Kv!Init
  BY DEF Init
<1>4. [Next]_vars => [Kv!Next]_(Kv!vars)
  BY DEF Next, vars, kvVars, Kv!vars
<1> QED
  BY <1>1, <1>2, <1>3, <1>4, PTL DEF Spec

---------------------------------------------------------------------------
(* ContextCache.                                                           *)

\* CONTEXT_CACHE_TTL is not zero, and there is at least the first window.
ContextConstants == TTL \in Nat \ {0} /\ Budget \in Nat /\ MaxWindow \in Nat \ {0}

ContextTypes ==
  /\ clock \in Nat /\ window \in Context!Windows
  /\ left \in [Context!Windows -> Nat]
  /\ pc \in [Tasks -> Context!Fetching \cup {"idle", "warn", "warning", "removing", "done"}]
  /\ started \in [Tasks -> Nat]
  /\ seen \in [Tasks -> Context!Windows \cup {None}]
  /\ result \in [Tasks -> Context!Windows \cup {None}]
  /\ entry \in {None} \cup [value : Context!Windows, fetched_at : Nat]
  /\ evicted_at \in Nat \cup {None}

\* A fetch is not older than its budget, and what it is about to store was the
\* backend's window at some instant since it started.
ProbeIsRecent(t) ==
  /\ started[t] <= clock
  /\ pc[t] \in Context!Fetching => clock <= started[t] + Budget
  /\ pc[t] \in {"storing", "inserting"} =>
       seen[t] \in Context!Windows /\ Context!HeldSince(seen[t], started[t])

\* An entry holds what a fetch of its instant found, and none survives an eviction.
EntryIsRecent ==
  entry # None =>
    /\ entry.fetched_at <= clock
    /\ Context!HeldSince(entry.value, entry.fetched_at - Budget)
    /\ evicted_at # None => evicted_at <= entry.fetched_at

ContextInv ==
  /\ ContextTypes
  /\ \A t \in Tasks : ProbeIsRecent(t)
  /\ EntryIsRecent
  /\ evicted_at # None => evicted_at <= clock

---------------------------------------------------------------------------
\* The context cache starts with ContextInv: no entry and no probe.
LEMMA ContextInitially ==
  ASSUME ContextConstants, Context!Init
  PROVE  ContextInv
<1>1. ContextTypes
  BY DEF ContextConstants, Context!Init, ContextTypes, Context!Windows
<1>2. \A t \in Tasks : ProbeIsRecent(t)
  <2> SUFFICES ASSUME NEW t \in Tasks
               PROVE  ProbeIsRecent(t)
    OBVIOUS
  <2>1. pc[t] = "idle" /\ started[t] = 0 /\ clock = 0
    BY DEF Context!Init
  <2> QED
    BY <2>1 DEF ProbeIsRecent, Context!Fetching, Context!Awaits
<1>3. EntryIsRecent /\ (evicted_at # None => evicted_at <= clock)
  BY DEF ContextConstants, Context!Init, EntryIsRecent, Context!HeldSince
<1> QED
  BY <1>1, <1>2, <1>3 DEF ContextInv

\* A longer look back finds what a shorter one finds.
LEMMA LookFurtherBack ==
  ASSUME ContextTypes, NEW w \in Context!Windows, NEW since \in Int, NEW before \in Int, before <= since,
         Context!HeldSince(w, since)
  PROVE  Context!HeldSince(w, before)
BY DEF Context!HeldSince, ContextTypes

\* A step of a task: the backend and the clock stand still, so that only what the task
\* did to its own probe and to the entry needs a look.
LEMMA LookupFrame ==
  ASSUME ContextInv, NEW t \in Tasks, UNCHANGED Context!backend, ContextTypes', ProbeIsRecent(t)', EntryIsRecent',
         \A u \in Tasks \ {t} : pc'[u] = pc[u] /\ started'[u] = started[u] /\ seen'[u] = seen[u],
         evicted_at' = evicted_at \/ evicted_at' = clock
  PROVE  ContextInv'
<1>1. ASSUME NEW u \in Tasks
      PROVE  ProbeIsRecent(u)'
  BY <1>1 DEF ContextInv, ProbeIsRecent, Context!HeldSince, Context!backend
<1>2. (evicted_at # None => evicted_at <= clock)'
  BY DEF ContextInv, ContextTypes, Context!backend
<1> QED
  BY <1>1, <1>2 DEF ContextInv

\* The entry and the eviction mark stay.
LEMMA EntryFrame ==
  ASSUME ContextInv, UNCHANGED <<clock, window, left, entry, evicted_at>>
  PROVE  EntryIsRecent'
BY DEF ContextInv, EntryIsRecent, Context!HeldSince

\* A call that returns, or goes on without having seen anything.
LEMMA LookupQuietStep ==
  ASSUME ContextConstants, ContextInv, NEW t \in Tasks,
         Context!Fetch(t) \/ Context!LockRead(t) \/ Context!ReadEntry(t) \/ Context!Elapsed(t)
           \/ Context!WarnCheck(t)
           \/ Context!WarnInsert(t) \/ Context!TryEvict(t)
  PROVE  ContextInv'
<1>1. UNCHANGED <<clock, window, left, entry, evicted_at>>
  BY DEF Context!Fetch, Context!LockRead, Context!ReadEntry, Context!Elapsed, Context!WarnCheck,
     Context!WarnInsert, Context!TryEvict, Context!backend
<1>2. ASSUME NEW label \in {"reading", "props", "warn", "warning", "removing", "done"},
             Context!Go(t, label), UNCHANGED <<Context!probe, result>>,
             label \in {"reading", "props"} => pc[t] \in Context!Fetching
      PROVE  ContextInv'
  <2>1. pc' \in [Tasks -> Context!Fetching \cup {"idle", "warn", "warning", "removing", "done"}]
    BY <1>2 DEF ContextInv, ContextTypes, Context!Go, Context!Fetching, Context!Awaits
  <2>2. ContextTypes'
    BY <1>1, <1>2, <2>1 DEF ContextInv, ContextTypes, Context!probe
  <2>3. ProbeIsRecent(t)'
    BY <1>1, <1>2 DEF ContextInv, ContextTypes, ProbeIsRecent, Context!HeldSince, Context!Go, Context!probe,
       Context!Fetching, Context!Awaits
  <2> QED
    BY <1>1, <1>2, <2>2, <2>3, LookupFrame, EntryFrame DEF Context!Go, Context!probe, Context!backend,
       ContextInv, ContextTypes
<1>3. ASSUME NEW value \in Context!Windows \cup {None}, Context!Return(t, value)
      PROVE  ContextInv'
  <2>1. ContextTypes'
    BY <1>1, <1>3 DEF ContextInv, ContextTypes, Context!Return, Context!Go
  <2>2. ProbeIsRecent(t)'
    BY <1>1, <1>3 DEF ContextInv, ContextTypes, ProbeIsRecent, Context!Return, Context!Go, Context!Fetching,
       Context!Awaits
  <2> QED
    BY <1>1, <1>3, <2>1, <2>2, LookupFrame, EntryFrame DEF Context!Return, Context!Go, Context!backend,
       ContextInv, ContextTypes
<1>4. CASE Context!Fetch(t)
  <2>1. ContextTypes'
    BY <1>4 DEF Context!Fetch, Context!backend, Context!Go, ContextInv, ContextTypes, Context!Fetching,
       Context!Awaits
  <2>2. ProbeIsRecent(t)'
    BY <1>4 DEF ContextConstants, Context!Fetch, Context!backend, Context!Go, ContextInv, ContextTypes,
       ProbeIsRecent, Context!Fetching, Context!Awaits
  <2> QED
    BY <1>1, <1>4, <2>1, <2>2, LookupFrame, EntryFrame DEF Context!Fetch, Context!Go, Context!backend,
       ContextInv, ContextTypes
<1>5. ASSUME entry # None
      PROVE  entry.value \in Context!Windows
  BY <1>5 DEF ContextInv, ContextTypes
<1>6. CASE Context!LockRead(t) \/ Context!ReadEntry(t) \/ Context!TryEvict(t)
  BY <1>2, <1>3, <1>5, <1>6 DEF Context!LockRead, Context!ReadEntry, Context!entry_is_fresh, Context!TryEvict,
     Context!Fetching, Context!Awaits
<1>7. CASE Context!Elapsed(t) \/ Context!WarnCheck(t) \/ Context!WarnInsert(t)
  BY <1>2, <1>3, <1>7 DEF Context!Elapsed, Context!WarnCheck, Context!WarnInsert
<1> QED
  BY <1>4, <1>6, <1>7

\* An answer or failure of either endpoint of a lookup preserves ContextInv.
LEMMA LookupProbeStep ==
  ASSUME ContextConstants, ContextInv, NEW t \in Tasks, Context!fetch_from_props(t) \/ Context!fetch_from_models(t)
  PROVE  ContextInv'
<1>1. PICK endpoint \in {"props", "models"}, otherwise \in {"models", "warn"} :
        Context!fetch_from(t, endpoint, otherwise)
  BY DEF Context!fetch_from_props, Context!fetch_from_models
<1>2. ContextTypes'
  BY <1>1 DEF Context!fetch_from, Context!backend, Context!Go, ContextInv, ContextTypes, Context!Fetching,
     Context!Awaits
<1>3. ProbeIsRecent(t)'
  BY <1>1 DEF Context!fetch_from, Context!backend, Context!Go, ContextInv, ContextTypes, ProbeIsRecent,
     Context!HeldSince, Context!Fetching, Context!Awaits
<1> QED
  BY <1>1, <1>2, <1>3, LookupFrame, EntryFrame DEF Context!fetch_from, Context!Go, Context!backend,
     ContextInv, ContextTypes

\* The write of a lookup, skipped or done, preserves ContextInv.
LEMMA LookupStoreStep ==
  ASSUME ContextConstants, ContextInv, NEW t \in Tasks, Context!TryStore(t) \/ Context!Insert(t)
  PROVE  ContextInv'
<1>1. ProbeIsRecent(t) /\ pc[t] \in {"storing", "inserting"} /\ pc[t] \in Context!Fetching
  BY DEF ContextInv, Context!TryStore, Context!Insert, Context!Fetching
<1>2. /\ seen[t] \in Context!Windows /\ started[t] \in Nat /\ Context!HeldSince(seen[t], started[t])
      /\ clock - Budget <= started[t]
  BY <1>1 DEF ProbeIsRecent, ContextInv, ContextTypes, ContextConstants
<1>3. CASE Context!TryStore(t) /\ Context!Go(t, "inserting") /\ UNCHANGED <<Context!probe, result>>
  <2>1. ContextTypes'
    BY <1>3 DEF Context!TryStore, Context!Go, Context!probe, Context!backend, ContextInv, ContextTypes,
       Context!Fetching
  <2>2. ProbeIsRecent(t)'
    BY <1>1, <1>3 DEF Context!TryStore, Context!Go, Context!probe, Context!backend, ContextInv, ContextTypes,
       ProbeIsRecent, Context!HeldSince
  <2> QED
    BY <1>3, <2>1, <2>2, LookupFrame, EntryFrame DEF Context!TryStore, Context!Go, Context!probe,
       Context!backend, ContextInv, ContextTypes
<1>4. CASE Context!Return(t, seen[t])
  <2>1. /\ UNCHANGED Context!backend /\ evicted_at' = evicted_at
        /\ \/ entry' = entry
           \/ entry' = [value |-> seen[t], fetched_at |-> clock]
    BY DEF Context!TryStore, Context!Insert
  <2>2. ContextTypes'
    BY <1>2, <1>4, <2>1 DEF Context!Return, Context!Go, Context!backend, ContextInv, ContextTypes
  <2>3. ProbeIsRecent(t)'
    BY <1>4, <2>1 DEF Context!Return, Context!Go, Context!backend, ContextInv, ContextTypes, ProbeIsRecent,
       Context!Fetching, Context!Awaits
  <2>4. Context!HeldSince(seen[t], clock - Budget)
    BY <1>2, LookFurtherBack DEF ContextInv, ContextTypes, ContextConstants
  <2>5. EntryIsRecent'
    <3>1. CASE entry' = entry
      BY <2>1, <3>1, EntryFrame DEF Context!backend
    <3>2. CASE entry' = [value |-> seen[t], fetched_at |-> clock]
      BY <2>1, <2>4, <3>2 DEF EntryIsRecent, Context!HeldSince, Context!backend, ContextInv, ContextTypes
    <3> QED
      BY <2>1, <3>1, <3>2
  <2> QED
    BY <1>4, <2>1, <2>2, <2>3, <2>5, LookupFrame DEF Context!Return, Context!Go, ContextInv, ContextTypes
<1> QED
  BY <1>3, <1>4 DEF Context!TryStore, Context!Insert

\* The removal of an entry preserves ContextInv.
LEMMA EvictionStep ==
  ASSUME ContextInv, NEW t \in Tasks, Context!Remove(t)
  PROVE  ContextInv'
<1>1. ContextTypes'
  BY DEF Context!Remove, Context!Go, Context!probe, Context!backend, ContextInv, ContextTypes
<1>2. ProbeIsRecent(t)'
  BY DEF Context!Remove, Context!Go, Context!probe, Context!backend, ContextInv, ContextTypes, ProbeIsRecent,
     Context!Fetching, Context!Awaits
<1>3. EntryIsRecent'
  BY DEF Context!Remove, EntryIsRecent
<1> QED
  BY <1>1, <1>2, <1>3, LookupFrame DEF Context!Remove, Context!Go, Context!probe, ContextInv, ContextTypes

\* The window a restart gives up was held until this instant.
LEMMA BackendRestartStep ==
  ASSUME ContextConstants, ContextInv, Context!Restart
  PROVE  ContextInv'
<1>1. window + 1 \in Context!Windows /\ left' = [left EXCEPT ![window] = clock]
  BY DEF Context!Restart, ContextInv, ContextTypes, Context!Windows, ContextConstants
<1>2. ContextTypes'
  BY <1>1 DEF Context!Restart, Context!probe, ContextInv, ContextTypes
<1>3. ASSUME NEW w \in Context!Windows, NEW since \in Int, since <= clock, Context!HeldSince(w, since)
      PROVE  w = window' \/ left'[w] >= since
  BY <1>1, <1>3 DEF Context!HeldSince, ContextInv, ContextTypes
<1>4. ASSUME NEW t \in Tasks
      PROVE  ProbeIsRecent(t)'
  <2>1. ProbeIsRecent(t) /\ started[t] \in Int
    BY DEF ContextInv, ContextTypes
  <2> QED
    BY <1>3, <2>1 DEF ProbeIsRecent, Context!HeldSince, Context!Restart, Context!probe
<1>5. EntryIsRecent'
  <2> SUFFICES ASSUME entry # None
               PROVE  \/ entry.value = window'
                      \/ left'[entry.value] >= entry.fetched_at - Budget
    BY DEF EntryIsRecent, Context!HeldSince, Context!Restart, ContextInv
  <2>1. /\ entry.value \in Context!Windows /\ entry.fetched_at - Budget \in Int
        /\ entry.fetched_at - Budget <= clock
        /\ Context!HeldSince(entry.value, entry.fetched_at - Budget)
    BY DEF ContextInv, ContextTypes, EntryIsRecent, ContextConstants
  <2> QED
    BY <1>3, <2>1
<1> QED
  BY <1>2, <1>4, <1>5 DEF ContextInv, Context!Restart

\* Time passing, within the bound of a probe, preserves ContextInv.
LEMMA ClockStep ==
  ASSUME ContextConstants, ContextInv, Context!Tick
  PROVE  ContextInv'
<1>1. ContextTypes'
  BY DEF Context!Tick, Context!probe, ContextInv, ContextTypes
<1>2. ASSUME NEW t \in Tasks
      PROVE  ProbeIsRecent(t)'
  BY <1>2 DEF Context!Tick, Context!probe, ContextInv, ContextTypes, ProbeIsRecent, Context!HeldSince,
     ContextConstants
<1>3. EntryIsRecent'
  BY DEF Context!Tick, ContextInv, ContextTypes, EntryIsRecent, Context!HeldSince
<1>4. (evicted_at # None => evicted_at <= clock)'
  BY DEF Context!Tick, ContextInv, ContextTypes
<1> QED
  BY <1>1, <1>2, <1>3, <1>4 DEF ContextInv

\* ContextInv is inductive for the context cache.
LEMMA ContextStep ==
  ASSUME ContextConstants, ContextInv, [Context!Next]_(Context!vars)
  PROVE  ContextInv'
<1>1. CASE UNCHANGED Context!vars
  <2>1. ContextTypes'
    BY <1>1 DEF Context!vars, ContextInv, ContextTypes
  <2> QED
    BY <1>1, <2>1 DEF Context!vars, ContextInv, ProbeIsRecent, EntryIsRecent, Context!HeldSince
<1>2. ASSUME NEW t \in Tasks, Context!Task(t)
      PROVE  ContextInv'
  BY <1>2, LookupQuietStep, LookupProbeStep, LookupStoreStep, EvictionStep DEF Context!Task
<1> QED
  BY <1>1, <1>2, BackendRestartStep, ClockStep DEF Context!Next

---------------------------------------------------------------------------
\* An answer comes from an entry that is fresh or from the fetch's own probe.
LEMMA LookupAnswerStep ==
  ASSUME ContextConstants, ContextInv, Context!Next, NEW t \in Tasks, Context!Answers(t)
  PROVE  \/ Context!entry_is_fresh /\ result'[t] = entry.value
         \/ /\ pc[t] \in {"storing", "inserting"}
            /\ result'[t] = seen[t]
<1>1. ASSUME NEW u \in Tasks, Context!Task(u)
      PROVE  \/ u = t /\ Context!ReadEntry(t) /\ Context!entry_is_fresh /\ Context!Return(t, entry.value)
             \/ u = t /\ pc[t] \in {"storing", "inserting"} /\ Context!Return(t, seen[t])
  <2>1. ASSUME NEW value, Context!Return(u, value)
        PROVE  u = t /\ value # None
    BY <2>1 DEF Context!Return, Context!Answers, ContextInv, ContextTypes
  <2>2. result' # result
    BY DEF Context!Answers
  <2> QED
    BY <1>1, <2>1, <2>2 DEF Context!Task, Context!Fetch, Context!LockRead, Context!ReadEntry,
       Context!fetch_from_props, Context!fetch_from_models,
       Context!fetch_from, Context!TryStore, Context!Insert, Context!Elapsed,
       Context!WarnCheck, Context!WarnInsert, Context!TryEvict, Context!Remove
<1>2. ASSUME Context!Restart \/ Context!Tick
      PROVE  FALSE
  BY <1>2 DEF Context!Restart, Context!Tick, Context!Answers
<1> QED
  BY <1>1, <1>2 DEF Context!Next, Context!Return, ContextInv, ContextTypes

\* fetch_context_total: however refreshes, skipped writes, evictions and restarts of the
\* backend interleave, an answer is a window the backend had not given up longer ago
\* than the time to live plus one probe; and after an eviction it is one the backend
\* still had at most one probe before that eviction.
THEOREM ContextIsHonest ==
  ASSUME ContextConstants
  PROVE  Spec => ContextHonest
<1> DEFINE Honest == Context!ServedWindowIsRecent /\ Context!EvictionForgets
<1>1. Context!Init => ContextInv
  BY ContextInitially
<1>2. ASSUME ContextInv, Context!Next, NEW t \in Tasks, Context!Answers(t)
      PROVE  /\ Context!HeldSince(result'[t], clock - (TTL - 1) - Budget)
             /\ evicted_at # None => Context!HeldSince(result'[t], evicted_at - Budget)
  <2>0. clock \in Nat /\ (evicted_at # None => evicted_at \in Nat /\ evicted_at <= clock)
    BY <1>2 DEF ContextInv, ContextTypes
  <2>1. CASE Context!entry_is_fresh /\ result'[t] = entry.value
    <3>1. /\ entry.value \in Context!Windows /\ entry.fetched_at \in Nat
          /\ Context!HeldSince(entry.value, entry.fetched_at - Budget)
          /\ evicted_at # None => evicted_at <= entry.fetched_at
      BY <1>2, <2>1 DEF Context!entry_is_fresh, ContextInv, ContextTypes, EntryIsRecent
    <3>2. clock - (TTL - 1) - Budget <= entry.fetched_at - Budget
      BY <2>0, <2>1, <3>1 DEF Context!entry_is_fresh, ContextConstants
    <3> QED
      BY <1>2, <2>0, <2>1, <3>1, <3>2, LookFurtherBack DEF ContextInv, ContextConstants
  <2>2. CASE pc[t] \in {"storing", "inserting"} /\ result'[t] = seen[t]
    <3>1. /\ seen[t] \in Context!Windows /\ started[t] \in Nat /\ Context!HeldSince(seen[t], started[t])
          /\ clock - Budget <= started[t]
      BY <1>2, <2>2 DEF ContextInv, ContextTypes, ProbeIsRecent, Context!Fetching, ContextConstants
    <3>2. clock - (TTL - 1) - Budget <= started[t]
      BY <2>0, <3>1 DEF ContextConstants
    <3>3. evicted_at # None => evicted_at - Budget <= started[t]
      BY <2>0, <3>1 DEF ContextConstants
    <3> QED
      BY <1>2, <2>0, <2>2, <3>1, <3>2, <3>3, LookFurtherBack DEF ContextInv, ContextConstants
  <2> QED
    BY <1>2, <2>1, <2>2, LookupAnswerStep
<1>3. ContextInv /\ [Context!Next]_(Context!vars) => ContextInv' /\ [Honest]_(Context!vars)
  BY <1>2, ContextStep DEF Context!ServedWindowIsRecent, Context!EvictionForgets
<1>4. [Honest]_(Context!vars) => [Honest]_vars
  <2>1. ASSUME UNCHANGED Context!vars
        PROVE  \A t \in Tasks : ~Context!Answers(t)
    BY <2>1 DEF Context!vars, Context!Answers
  <2> QED
    BY <2>1 DEF Context!ServedWindowIsRecent, Context!EvictionForgets
<1>5. Init => Context!Init
  BY DEF Init
<1>6. [Next]_vars => [Context!Next]_(Context!vars)
  BY DEF Next, vars, contextVars, Context!vars
<1> QED
  BY <1>1, <1>3, <1>4, <1>5, <1>6, PTL DEF Spec, ContextHonest

---------------------------------------------------------------------------
(* GroupedRouting.                                                         *)

\* The groups are finitely many, and their names are ordered as the integers are.
RoutingConstants == Names \subseteq Int /\ IsFiniteSet(Names)

\* The groups are listed by name, whatever order the map was collected in.
SortedGroups ==
  LET n == Cardinality(DOMAIN config)
  IN  /\ groups \in [1 .. n -> DOMAIN config]
      /\ \A g \in DOMAIN config : \E i \in 1 .. n : groups[i] = g
      /\ Increasing(groups, n)

RoutingInv ==
  /\ stage \in {"config", "collected", "built", "answered"}
  /\ DOMAIN config \in SUBSET Names
  /\ stage = "collected" => LET n == Cardinality(DOMAIN config)
                            IN  /\ entries \in [1 .. n -> DOMAIN config]
                                /\ \A g \in DOMAIN config : \E i \in 1 .. n : entries[i] = g
  /\ stage \in {"built", "answered"} => SortedGroups
  /\ stage = "answered" => routed = Routing!Destination(asked)

\* Cardinality in the instance is the cardinality that the library's theorems are about.
LEMMA RoutingCardinality ==
  ASSUME NEW S  PROVE Routing!Cardinality(S) = Cardinality(S)
BY DEF Routing!Cardinality, Cardinality, Routing!IsFiniteSet, IsFiniteSet

\* A function without repetitions that is as long as its range is large reaches all of it.
LEMMA InjectionCovers ==
  ASSUME NEW D, IsFiniteSet(D), NEW f \in [1 .. Cardinality(D) -> D],
         \A i, j \in 1 .. Cardinality(D) : i # j => f[i] # f[j]
  PROVE  \A g \in D : \E i \in 1 .. Cardinality(D) : f[i] = g
<1>1. Cardinality(D) \in Nat /\ Cardinality(1 .. Cardinality(D)) = Cardinality(D)
  BY FS_CardinalityType, FS_Interval
<1>2. f \in Injection(1 .. Cardinality(D), D)
  BY DEF Injection, IsInjective
<1>3. f \in Surjection(1 .. Cardinality(D), D)
  BY <1>1, <1>2, FS_Injection
<1> QED
  BY <1>3 DEF Surjection

\* group_configs.into_iter().collect(): the entries are all the groups, each once.
LEMMA CollectsAll ==
  ASSUME RoutingConstants, RoutingInv, Routing!Collect
  PROVE  RoutingInv'
<1> DEFINE D == DOMAIN config
           n == Cardinality(D)
<1>1. IsFiniteSet(D) /\ n \in Nat
  BY FS_Subset, FS_CardinalityType DEF RoutingConstants, RoutingInv
<1>2. PICK s \in SUBSET D : entries' \in Routing!SetToSeqs(s) /\ Len(entries') = n
  BY RoutingCardinality DEF Routing!Collect, Routing!SetToAllKPermutations
<1>3. IsFiniteSet(s) /\ Cardinality(s) \in Nat
  BY <1>1, <1>2, FS_Subset, FS_CardinalityType
<1>4. entries' \in [1 .. Cardinality(s) -> s] /\ \A i, j \in 1 .. Cardinality(s) : i # j => entries'[i] # entries'[j]
  BY <1>2, RoutingCardinality DEF Routing!SetToSeqs
<1>5. Cardinality(s) = n
  BY <1>2, <1>3, <1>4
<1>6. s = D
  BY <1>1, <1>2, <1>5, FS_Subset
<1>7. entries' \in [1 .. n -> D] /\ \A g \in D : \E i \in 1 .. n : entries'[i] = g
  <2>1. \A i, j \in 1 .. Cardinality(D) : i # j => entries'[i] # entries'[j]
    BY <1>4, <1>6
  <2> QED
    BY <1>1, <1>4, <1>6, <2>1, InjectionCovers
<1>8. config' = config /\ stage' = "collected"
  BY DEF Routing!Collect
<1> QED
  BY <1>7, <1>8 DEF RoutingInv

\* entries.sort_by: the groups in the order of their names, all of them.
LEMMA NewSorts ==
  ASSUME RoutingConstants, RoutingInv, Routing!New
  PROVE  RoutingInv'
<1> DEFINE D == DOMAIN config
           n == Cardinality(D)
           Sorts(t) == \A i, j \in DOMAIN entries : i < j => t[i] < t[j]
<1>1. IsFiniteSet(D) /\ n \in Nat /\ D \subseteq Int
  BY FS_Subset, FS_CardinalityType DEF RoutingConstants, RoutingInv
<1>2. DOMAIN entries = 1 .. n /\ Routing!Range(entries) = D
  BY DEF RoutingInv, Routing!New, Routing!Range
<1>3. \E t \in [1 .. n -> D] : Sorts(t)
  BY <1>1, <1>2, IncreasingListing DEF Increasing
<1>4. groups' \in [1 .. n -> D] /\ Sorts(groups')
  <2>1. groups' = CHOOSE t \in [1 .. n -> D] : Sorts(t)
    BY <1>2 DEF Routing!New, Routing!sort_by_name
  <2> HIDE DEF Sorts
  <2> QED
    BY <1>3, <2>1
<1>5. Increasing(groups', n)
  BY <1>2, <1>4 DEF Increasing
<1>6. \A g \in D : \E i \in 1 .. n : groups'[i] = g
  <2>1. ASSUME NEW i \in 1 .. n, NEW j \in 1 .. n, i # j
        PROVE  groups'[i] # groups'[j]
    <3>1. groups'[i] \in Int /\ groups'[j] \in Int /\ (i < j \/ j < i)
      BY <1>1, <1>4, <2>1
    <3> QED
      BY <1>5, <3>1 DEF Increasing
  <2> QED
    BY <1>1, <1>4, <2>1, InjectionCovers
<1>7. config' = config /\ stage' = "built"
  BY DEF Routing!New
<1> QED
  BY <1>4, <1>5, <1>6, <1>7 DEF RoutingInv, SortedGroups

\* The first of some groups in the stored order is the one with the least name.
LEMMA FirstIsLeast ==
  ASSUME RoutingConstants, RoutingInv, SortedGroups, NEW S \in SUBSET DOMAIN config, S # {}
  PROVE  Routing!First(S) = Routing!Least(S)
<1> DEFINE D == DOMAIN config
           n == Cardinality(D)
           hits == {i \in DOMAIN groups : groups[i] \in S}
           i == CHOOSE h \in hits : \A j \in hits : h <= j
<1>1. IsFiniteSet(D) /\ n \in Nat /\ D \subseteq Int
  BY FS_Subset, FS_CardinalityType DEF RoutingConstants, RoutingInv
<1>2. DOMAIN groups = 1 .. n /\ (\A g \in D : \E k \in 1 .. n : groups[k] = g) /\ Increasing(groups, n)
  BY DEF SortedGroups
<1>3. hits \subseteq Nat /\ hits # {}
  BY <1>2
<1>4. i \in hits /\ \A j \in hits : i <= j
  <2> HIDE DEF hits
  <2> QED
    BY <1>3, LeastNatural
<1>5. Routing!First(S) = groups[i]
  BY <1>3 DEF Routing!First
<1> HIDE DEF i
<1>6. groups[i] \in S /\ \A g \in S : groups[i] <= g
  <2>1. ASSUME NEW g \in S  PROVE groups[i] <= g
    <3>1. PICK k \in 1 .. n : groups[k] = g
      BY <1>2
    <3>2. i \in 1 .. n /\ i <= k
      BY <1>2, <1>4, <3>1
    <3>3. groups[i] \in Int /\ groups[k] \in Int
      BY <1>1, <3>2 DEF SortedGroups
    <3> QED
      BY <1>2, <3>1, <3>2, <3>3 DEF Increasing
  <2> QED
    BY <1>4, <2>1
<1>7. \A m \in S : (\A g \in S : m <= g) => m = groups[i]
  <2>1. S \subseteq Int
    BY <1>1
  <2> QED
    BY <1>6, <2>1
<1>8. Routing!Least(S) = groups[i]
  BY <1>6, <1>7 DEF Routing!Least
<1> QED
  BY <1>5, <1>8

\* find_group: each rung's first match is the least name on that rung.
LEMMA FindGroupIsDestination ==
  ASSUME RoutingConstants, RoutingInv, SortedGroups, NEW model
  PROVE  Routing!find_group(model) = Routing!Destination(model)
<1> DEFINE D == DOMAIN config
           owners == {g \in D : model \in config[g].mappings}
           catchers == {g \in D : config[g].mappings = {}}
           open == {g \in D : ~config[g].exclusive}
<1>1. owners = {g \in D : ~Routing!is_catch_all(g) /\ Routing!maps_model(g, model)}
  BY DEF Routing!is_catch_all, Routing!maps_model
<1>2. catchers = {g \in D : Routing!is_catch_all(g)}
  BY DEF Routing!is_catch_all
<1>3. Routing!find_group(model) = IF owners # {} THEN Routing!First(owners)
                                  ELSE IF catchers # {} THEN Routing!First(catchers)
                                  ELSE Routing!First(open)
  <2> HIDE DEF owners, catchers
  <2>1. CASE owners # {}
    BY <1>1, <1>2, <2>1 DEF Routing!find_group
  <2>2. CASE owners = {} /\ catchers # {}
    BY <1>1, <1>2, <2>2 DEF Routing!find_group
  <2>3. CASE owners = {} /\ catchers = {}
    BY <1>1, <1>2, <2>3 DEF Routing!find_group
  <2> QED
    BY <2>1, <2>2, <2>3
<1>4. Routing!Destination(model) = IF owners # {} THEN Routing!Least(owners)
                                   ELSE IF catchers # {} THEN Routing!Least(catchers)
                                   ELSE IF open # {} THEN Routing!Least(open) ELSE NoGroup
  BY DEF Routing!Destination
<1>5. owners \in SUBSET D /\ catchers \in SUBSET D /\ open \in SUBSET D
  OBVIOUS
<1> HIDE DEF owners, catchers, open
<1>6. open = {} => Routing!First(open) = NoGroup
  BY DEF Routing!First
<1> QED
  BY <1>3, <1>4, <1>5, <1>6, FirstIsLeast

\* RoutingInv is inductive: the groups are sorted once, and every answer is by name.
LEMMA RoutingStep ==
  ASSUME RoutingConstants, RoutingInv, [Routing!Next]_(Routing!vars)
  PROVE  RoutingInv'
<1>1. ASSUME NEW model, Routing!Select(model)
      PROVE  RoutingInv'
  <2>1. SortedGroups /\ UNCHANGED <<config, groups>> /\ stage' = "answered"
    BY <1>1 DEF Routing!Select, RoutingInv
  <2>2. SortedGroups'
    BY <2>1 DEF SortedGroups
  <2>3. asked' = model /\ routed' = Routing!find_group(model)
    BY <1>1 DEF Routing!Select
  <2>4. Routing!Destination(asked)' = Routing!Destination(model)
    BY <2>1, <2>3 DEF Routing!Destination
  <2>5. routed' = Routing!Destination(asked)'
    BY <2>1, <2>3, <2>4, FindGroupIsDestination
  <2> QED
    BY <2>1, <2>2, <2>5 DEF RoutingInv
<1>2. ASSUME UNCHANGED Routing!vars
      PROVE  RoutingInv'
  BY <1>2 DEF Routing!vars, RoutingInv, SortedGroups, Routing!Destination
<1> QED
  BY <1>1, <1>2, CollectsAll, NewSorts DEF Routing!Next

\* GroupedLoadBalancer: whatever order the map of groups is read in, and however many
\* groups and models there are, a request goes to the group its model belongs to by the
\* configuration: its owner, else the first catch-all, else the first open group.
THEOREM RoutingIsByName ==
  ASSUME RoutingConstants
  PROVE  Spec => []RoutingIsDetermined
<1>1. Init => RoutingInv
  BY DEF Init, Routing!Init, RoutingInv
<1>2. RoutingInv /\ [Routing!Next]_(Routing!vars) => RoutingInv'
  BY RoutingStep
<1>3. [Next]_vars => [Routing!Next]_(Routing!vars)
  BY DEF Next, vars, routingVars, Routing!vars
<1>4. RoutingInv => RoutingIsDetermined
  BY DEF RoutingInv, RoutingIsDetermined, Routing!RoutingIsDetermined
<1> QED
  BY <1>1, <1>2, <1>3, <1>4, PTL DEF Spec

---------------------------------------------------------------------------
(* model-switcher.                                                         *)

Catalogued == {"near", "odd", "wide"}

\* What a file may name, and what is read of it.
Present == Catalogued \cup {"other"}
Values == Present \cup {None}

\* The marker of an absent value is no switch and names nothing.
SwitchConstants == None \notin {"on", "off", "bad"} \cup Present

\* The configuration parses.
Parses(c) == c.state \in {"bare", "ok"}

Pinning == {"local-mind", "reviewer"}
Menued == {"prompt", "confirm", "write"}

EntryTypes ==
  [limit : {"line", "split", "none"}, context : Int \cup {None}, input : Int \cup {None},
   here : {"none", "bare", "text", "image"}, there : {"none", "text", "image"},
   last : BOOLEAN, modal : {"none", "image"}]
FileTypes ==
  [state : {"missing", "broken", "bare", "ok"}, default : Values, line : {"one", "other"},
   models : UNION {[D -> EntryTypes] : D \in SUBSET Catalogued}]

SwitchTypes ==
  /\ order \in Switch!Orders
  /\ conf \in FileTypes /\ pins \in [Pinning -> Values]
  /\ step \in {"start", "image", "prompt", "confirm", "write", "ended"}
  /\ cursor \in Nat /\ cursor >= 1

\* The default comes first, then agents, each once.
TargetsInv ==
  /\ Len(targets) \in Nat /\ Len(targets) >= 1 /\ targets[1] = "default"
  /\ \A k \in 2 .. Len(targets) : targets[k] \in Pinning
  /\ \A k, l \in 1 .. Len(targets) : targets[k] = targets[l] => k = l

\* The agents among the targets pin a model.
PinnedInv == \A k \in 1 .. Len(targets) : targets[k] # "default" => Switch!Read(targets[k]) # None

\* How far the prompts, and then the writes, have come.
MenuInv ==
  /\ TargetsInv /\ PinnedInv
  /\ reads \in Seq(Values) /\ picked \in Seq(Catalogued)
  /\ order.cmd \in Switch!Menus /\ Parses(conf) /\ said = "nothing"
  /\ nth \in 1 .. Len(targets) + 1
  /\ step # "write" => wrote = {}
  /\ step = "prompt" => /\ nth <= Len(targets) /\ Len(reads) = nth /\ Len(picked) = nth - 1
                        /\ order.cmd = "all" => nth = 1
  /\ step = "confirm" => /\ order.cmd # "all" /\ nth = 1
                         /\ Len(reads) = Len(targets) /\ Len(picked) = Len(targets)
  /\ step = "write" => /\ Len(picked) = Len(targets)
                       /\ Len(reads) = IF order.cmd = "all" THEN 1 ELSE Len(targets)

\* What was read for a prompt still stands, until it is written or somebody else changes it.
ReadsInv ==
  \A k \in 1 .. Len(reads) :
    (step = "write" => k >= nth) /\ targets[k] \notin outside => Switch!Read(targets[k]) = reads[k]

StageInv ==
  /\ step = "start" => /\ said = "nothing" /\ wrote = {} /\ wrong = {} /\ nth = 1
                       /\ reads = <<>> /\ picked = <<>>
  /\ step = "image" => /\ order.cmd \in {"ctx", "ctx off"} /\ order.image # None /\ said = "nothing"
                       /\ wrong = {m \in DOMAIN conf.models : ~Switch!LimitsApplied(conf.models[m])}
  /\ step \in Menued => MenuInv /\ ReadsInv

SwitchInv ==
  /\ SwitchTypes /\ StageInv
  /\ Switch!AbortIsClean /\ Switch!ChoicesApplied /\ Switch!WarningsComplete

---------------------------------------------------------------------------
\* t lists the places, c of them, in their order, and Kept takes the elements there.
Listing(s, places, c, t) ==
  /\ c \in Nat /\ t \in [1 .. c -> places] /\ Increasing(t, c)
  /\ Switch!Kept(s, places) = [k \in 1 .. c |-> s[t[k]]]

\* Kept lists the places it is given once each.
LEMMA KeptLists ==
  ASSUME NEW s, NEW n \in Nat, NEW places, places \subseteq 1 .. n
  PROVE  \E c, t : Listing(s, places, c, t)
<1> DEFINE c == Cardinality(places)
           P(t) == \A i, j \in 1 .. c : i < j => t[i] < t[j]
           u == CHOOSE t \in [1 .. c -> places] : P(t)
<1>1. IsFiniteSet(places) /\ places \subseteq Int
  <2>1. 1 \in Int /\ n \in Int
    OBVIOUS
  <2>2. IsFiniteSet(1 .. n)
    BY <2>1, FS_Interval
  <2>3. places \subseteq Int
    OBVIOUS
  <2> QED
    BY <2>2, <2>3, FS_Subset
<1>2. c \in Nat
  BY <1>1, FS_CardinalityType
<1>3. Switch!Cardinality(places) = c
  BY DEF Switch!Cardinality, Cardinality, Switch!IsFiniteSet, IsFiniteSet
<1>4. Switch!Kept(s, places) = [k \in 1 .. c |-> s[u[k]]]
  BY <1>3 DEF Switch!Kept
<1> HIDE DEF c
<1>5. \E t \in [1 .. c -> places] : P(t)
  <2>1. PICK t \in [1 .. c -> places] : Increasing(t, c)
    BY <1>1, <1>2, IncreasingListing DEF c
  <2> QED
    BY <2>1 DEF Increasing
<1> HIDE DEF P
<1>6. u \in [1 .. c -> places] /\ P(u)
  BY <1>5
<1> HIDE DEF u
<1>7. Listing(s, places, c, u)
  BY <1>2, <1>4, <1>6 DEF P, Increasing, Listing
<1> QED
  BY <1>7

\* The agents found are agents that pin a model, each once.
LEMMA DiscoveredOnce ==
  /\ Switch!discover_agents \in Seq(Pinning)
  /\ \A k \in 1 .. Len(Switch!discover_agents) : pins[Switch!discover_agents[k]] # None
  /\ \A k, l \in 1 .. Len(Switch!discover_agents) :
       Switch!discover_agents[k] = Switch!discover_agents[l] => k = l
<1> DEFINE all == <<"local-mind", "reviewer">>
           places == {i \in 1 .. Len(all) : pins[all[i]] # None}
<1>1. Switch!discover_agents = Switch!Kept(all, places)
  BY DEF Switch!discover_agents
<1>2. Len(all) = 2 /\ all[1] = "local-mind" /\ all[2] = "reviewer"
  OBVIOUS
<1> HIDE DEF all
<1>3. places \subseteq 1 .. 2 /\ 2 \in Nat /\ \A i \in places : pins[all[i]] # None
  BY <1>2
<1> HIDE DEF places
<1>4a. PICK c, t : Listing(all, places, c, t)
  BY <1>3, KeptLists
<1>4. /\ c \in Nat /\ t \in [1 .. c -> places] /\ Increasing(t, c)
      /\ Switch!Kept(all, places) = [k \in 1 .. c |-> all[t[k]]]
  BY <1>4a DEF Listing
<1> DEFINE d == [k \in 1 .. c |-> all[t[k]]]
<1>5. \A i \in 1 .. 2 : all[i] \in Pinning
  <2>1. \A i \in 1 .. 2 : i = 1 \/ i = 2
    OBVIOUS
  <2> QED
    BY <1>2, <2>1 DEF Pinning
<1>6. \A k \in 1 .. c : t[k] \in 1 .. 2
  BY <1>3, <1>4
<1>7. d \in Seq(Pinning) /\ Len(d) = c
  <2>1. d \in [1 .. c -> Pinning]
    BY <1>5, <1>6
  <2> HIDE DEF d
  <2> QED
    BY <1>4, <2>1
<1>8. ASSUME NEW k \in 1 .. c, NEW l \in 1 .. c, d[k] = d[l]
      PROVE  k = l
  <2>1. t[k] = t[l]
    <3>1. \A i, j \in 1 .. 2 : all[i] = all[j] => i = j
      <4>1. \A i \in 1 .. 2 : i = 1 \/ i = 2
        OBVIOUS
      <4> QED
        BY <1>2, <4>1
    <3> QED
      BY <1>6, <1>8, <3>1
  <2>2. t[k] \in Int /\ ~(k < l) /\ ~(l < k)
    BY <1>4, <1>6, <2>1 DEF Increasing
  <2> QED
    BY <1>4, <2>2
<1>9. \A k \in 1 .. c : pins[d[k]] # None
  BY <1>3, <1>4
<1> QED
  BY <1>1, <1>4, <1>7, <1>8, <1>9

\* What is on a line of the list is in the catalog.
LEMMA ListedFromCatalog ==
  ASSUME NEW i \in Nat, i >= 1, i <= Len(Switch!Listed)
  PROVE  Switch!Listed[i] \in Catalogued
<1> DEFINE all == <<"near", "odd", "wide">>
           places == {j \in 1 .. Len(all) : all[j] \in Switch!Matching}
<1>1. Switch!Listed = Switch!Kept(all, places)
  BY DEF Switch!Listed
<1>2. Len(all) = 3 /\ all[1] = "near" /\ all[2] = "odd" /\ all[3] = "wide"
  OBVIOUS
<1> HIDE DEF all
<1>3. places \subseteq 1 .. 3 /\ 3 \in Nat
  BY <1>2
<1> HIDE DEF places
<1>4a. PICK c, t : Listing(all, places, c, t)
  BY <1>3, KeptLists
<1>4. /\ c \in Nat /\ t \in [1 .. c -> places] /\ Increasing(t, c)
      /\ Switch!Kept(all, places) = [k \in 1 .. c |-> all[t[k]]]
  BY <1>4a DEF Listing
<1>5. Len([k \in 1 .. c |-> all[t[k]]]) = c
  BY <1>4
<1>6. i \in 1 .. c
  BY <1>1, <1>4, <1>5
<1>7. \A j \in 1 .. 3 : all[j] \in Catalogued
  <2>1. \A j \in 1 .. 3 : j = 1 \/ j = 2 \/ j = 3
    OBVIOUS
  <2> QED
    BY <1>2, <2>1 DEF Catalogued
<1>8. t[i] \in 1 .. 3
  BY <1>3, <1>4, <1>6
<1> QED
  BY <1>1, <1>4, <1>6, <1>7, <1>8

---------------------------------------------------------------------------
\* The ids a file may hold.
LEMMA IdsCatalogued == Switch!Ids \subseteq Catalogued
<1> DEFINE all == <<"near", "odd", "wide">>
<1>1. Len(all) = 3 /\ all[1] = "near" /\ all[2] = "odd" /\ all[3] = "wide"
  OBVIOUS
<1>2. \A j \in 1 .. 3 : j = 1 \/ j = 2 \/ j = 3
  OBVIOUS
<1>3. Switch!Ids = {all[i] : i \in 1 .. Len(all)}
  BY DEF Switch!Ids
<1> HIDE DEF all
<1> QED
  BY <1>1, <1>2, <1>3 DEF Catalogued

\* A run starts with nothing read, chosen, written or said.
LEMMA SwitchStarts ==
  ASSUME SwitchConstants, Switch!Init
  PROVE  SwitchInv
<1>1. /\ order \in Switch!Orders /\ conf \in Switch!Files
      /\ step = "start" /\ targets = <<>> /\ nth = 1 /\ reads = <<>> /\ picked = <<>>
      /\ cursor = 1 /\ wrote = {} /\ wrong = {} /\ said = "nothing"
  BY DEF Switch!Init
<1>2. Switch!Ids \subseteq Catalogued
  BY IdsCatalogued
<1>3. conf \in FileTypes
  <2>1. Switch!Entries \subseteq EntryTypes /\ Switch!PlainEntry \in EntryTypes
    BY DEF Switch!Entries, Switch!PlainEntry, EntryTypes
  <2>2. conf \in [state : {"missing", "broken", "bare", "ok"}, default : Switch!Ids \cup {"other", None}, line : {"one", "other"},
                  models : {[m \in {} |-> Switch!PlainEntry]}
                    \cup {[m \in Switch!Ids |-> IF m = <<"near", "odd", "wide">>[1] THEN e ELSE Switch!PlainEntry] :
                            e \in Switch!Entries}]
    BY <1>1 DEF Switch!Files
  <2>3. conf.models \in UNION {[D -> EntryTypes] : D \in SUBSET Catalogued}
    <3>1. CASE conf.models = [m \in {} |-> Switch!PlainEntry]
      <4>1. conf.models \in [{} -> EntryTypes]
        BY <3>1
      <4> QED
        BY <4>1
    <3>2. CASE conf.models \in {[m \in Switch!Ids |-> IF m = <<"near", "odd", "wide">>[1] THEN e ELSE Switch!PlainEntry] :
                            e \in Switch!Entries}
      <4>1. conf.models \in [Switch!Ids -> EntryTypes]
        BY <2>1, <3>2
      <4> QED
        BY <1>2, <4>1
    <3> QED
      BY <2>2, <3>1, <3>2
  <2> QED
    BY <1>2, <2>2, <2>3 DEF FileTypes, Values, Present
<1>4. pins \in [Pinning -> Values]
  <2> DEFINE all == <<"local-mind", "reviewer">>
             cat == <<"near", "odd", "wide">>
  <2>1. Len(all) = 2 /\ all[1] = "local-mind" /\ all[2] = "reviewer" /\ cat[1] = "near"
    OBVIOUS
  <2>2. pins \in [{all[i] : i \in 1 .. Len(all)} -> {cat[1], None}]
    BY DEF Switch!Init
  <2>3. {all[i] : i \in 1 .. 2} = Pinning
    <3>1. \A i \in 1 .. 2 : i = 1 \/ i = 2
      OBVIOUS
    <3> HIDE DEF all
    <3> QED
      BY <2>1, <3>1 DEF Pinning
  <2> HIDE DEF all, cat
  <2>4. pins \in [Pinning -> {"near", None}]
    BY <2>1, <2>2, <2>3
  <2> QED
    BY <2>4 DEF Values, Present, Catalogued
<1>5. SwitchTypes
  BY <1>1, <1>3, <1>4 DEF SwitchTypes
<1>6. StageInv
  BY <1>1 DEF StageInv, Menued
<1>7. Switch!AbortIsClean /\ Switch!ChoicesApplied /\ Switch!WarningsComplete
  BY <1>1 DEF Switch!AbortIsClean, Switch!ChoicesApplied, Switch!WarningsComplete
<1> QED
  BY <1>5, <1>6, <1>7 DEF SwitchInv

\* A run that ends without a menu, having written nothing and promised nothing.
LEMMA SwitchEnds ==
  ASSUME SwitchInv, step = "start", NEW words \in {"usage", "error"}, Switch!End(words),
         UNCHANGED <<order, conf, pins, targets, nth, reads, picked, wrote, outside, wrong>>,
         cursor' = cursor
  PROVE  SwitchInv'
<1>1. step' = "ended" /\ said' = words /\ nth = 1
  BY DEF Switch!End, SwitchInv, StageInv
<1>2. SwitchTypes'
  BY <1>1 DEF SwitchInv, SwitchTypes
<1>3. StageInv'
  BY <1>1 DEF StageInv, Menued
<1>4. Switch!AbortIsClean' /\ Switch!ChoicesApplied' /\ Switch!WarningsComplete'
  <2>1. Switch!AbortIsClean' /\ Switch!WarningsComplete'
    BY <1>1 DEF Switch!AbortIsClean, Switch!WarningsComplete
  <2>2. nth' = 1 /\ 1 .. nth' - 1 = {}
    BY <1>1
  <2>3. Switch!ChoicesApplied'
    BY <2>2 DEF Switch!ChoicesApplied
  <2> QED
    BY <2>1, <2>3
<1> QED
  BY <1>2, <1>3, <1>4 DEF SwitchInv

\* help, an unknown command, arguments that are refused, and status, which only reads.
LEMMA SwitchPlain ==
  ASSUME SwitchInv, Switch!Usage \/ Switch!BadArguments \/ Switch!Status
  PROVE  SwitchInv'
<1>1. /\ step = "start" /\ cursor' = cursor
      /\ UNCHANGED <<order, conf, pins, targets, nth, reads, picked, wrote, outside, wrong>>
  BY DEF Switch!Usage, Switch!BadArguments, Switch!Status, Switch!menu
<1>2. CASE Switch!Usage \/ Switch!BadArguments
  <2>1. Switch!End("usage") \/ Switch!End("error")
    BY <1>2 DEF Switch!Usage, Switch!BadArguments
  <2> QED
    BY <1>1, <2>1, SwitchEnds
<1>3. CASE Switch!Status
  <2>1. order.cmd = "status" /\ (Switch!End("done") \/ Switch!End("error"))
    BY <1>3 DEF Switch!Status
  <2>2. step' = "ended" /\ said' \in {"done", "error"} /\ nth = 1
    BY <1>1, <2>1 DEF Switch!End, SwitchInv, StageInv
  <2>3. SwitchTypes'
    BY <1>1, <2>2 DEF SwitchInv, SwitchTypes
  <2>4. StageInv'
    BY <2>2 DEF StageInv, Menued
  <2>5. Switch!AbortIsClean' /\ Switch!ChoicesApplied' /\ Switch!WarningsComplete'
    BY <1>1, <2>1, <2>2 DEF Switch!AbortIsClean, Switch!ChoicesApplied, Switch!WarningsComplete, Switch!Menus
  <2> QED
    BY <2>3, <2>4, <2>5 DEF SwitchInv
<1> QED
  BY <1>2, <1>3

\* An edit of every entry keeps the file's shape.
LEMMA EditedFile ==
  ASSUME NEW c \in FileTypes, NEW f \in [DOMAIN c.models -> EntryTypes]
  PROVE  /\ [c EXCEPT !.models = f] \in FileTypes /\ [c EXCEPT !.models = f].models = f
         /\ [c EXCEPT !.models = f].state = c.state
         /\ [c EXCEPT !.state = "broken"] \in FileTypes
<1>1. PICK D \in SUBSET Catalogued : c.models \in [D -> EntryTypes]
  BY DEF FileTypes
<1>2. f \in [D -> EntryTypes]
  BY <1>1
<1>3. f \in UNION {[E -> EntryTypes] : E \in SUBSET Catalogued}
  BY <1>2
<1> QED
  BY <1>3 DEF FileTypes

\* The command lines.
LEMMA OrderCases ==
  ASSUME order \in Switch!Orders
  PROVE  \/ \E c \in {"help", "obsolete", "lm", "all", "status", "unknown", "ctx off"} :
              order = [cmd |-> c, size |-> None, preset |-> None, image |-> None]
         \/ \E i \in {"on", "off", "bad"} : order = [cmd |-> "image", size |-> None, preset |-> None, image |-> i]
         \/ order = [cmd |-> "ctx", size |-> None, preset |-> "safe", image |-> None]
         \/ order = [cmd |-> "ctx", size |-> 0, preset |-> "safe", image |-> None]
         \/ order = [cmd |-> "ctx", size |-> 100, preset |-> None, image |-> None]
         \/ order = [cmd |-> "ctx", size |-> 100, preset |-> "bad", image |-> None]
         \/ order = [cmd |-> "ctx", size |-> 1, preset |-> "aggressive", image |-> None]
         \/ \E i \in {"on", "off", "bad"} :
              order = [cmd |-> "ctx", size |-> 100, preset |-> "balanced", image |-> i]
  BY Zenon DEF Switch!Orders

\* The command lines of ctx whose arguments are accepted; image always has an argument.
LEMMA OrderFacts ==
  ASSUME order \in Switch!Orders
  PROVE  /\ order.cmd = "ctx" /\ order.preset \notin {None, "bad"} /\ order.size \notin {None, 0} =>
              \/ order.size = 1 /\ order.preset = "aggressive"
              \/ order.size = 100 /\ order.preset = "balanced"
         /\ order.cmd = "image" => order.image \in {"on", "off", "bad"}
<1> DEFINE P == /\ order.cmd = "ctx" /\ order.preset \notin {None, "bad"} /\ order.size \notin {None, 0} =>
                     \/ order.size = 1 /\ order.preset = "aggressive"
                     \/ order.size = 100 /\ order.preset = "balanced"
                /\ order.cmd = "image" => order.image \in {"on", "off", "bad"}
<1>1. ASSUME NEW c \in {"help", "obsolete", "lm", "all", "status", "unknown", "ctx off"},
             order = [cmd |-> c, size |-> None, preset |-> None, image |-> None]
      PROVE  P
  <2>1. order.cmd # "ctx" /\ order.cmd # "image"
    BY <1>1
  <2> QED
    BY <2>1
<1>2. ASSUME NEW i \in {"on", "off", "bad"},
             order = [cmd |-> "image", size |-> None, preset |-> None, image |-> i]
      PROVE  P
  <2>1. order.cmd = "image" /\ order.image = i
    BY <1>2
  <2> QED
    BY <2>1
<1>3. ASSUME order = [cmd |-> "ctx", size |-> None, preset |-> "safe", image |-> None]
      PROVE  P
  <2>1. order.cmd = "ctx" /\ order.size = None
    BY <1>3
  <2> QED
    BY <2>1
<1>4. ASSUME order = [cmd |-> "ctx", size |-> 0, preset |-> "safe", image |-> None]
      PROVE  P
  <2>1. order.cmd = "ctx" /\ order.size = 0
    BY <1>4
  <2> QED
    BY <2>1
<1>5. ASSUME \/ order = [cmd |-> "ctx", size |-> 100, preset |-> None, image |-> None]
             \/ order = [cmd |-> "ctx", size |-> 100, preset |-> "bad", image |-> None]
      PROVE  P
  <2>1. order.cmd = "ctx" /\ order.preset \in {None, "bad"}
    BY <1>5
  <2> QED
    BY <2>1
<1>6. ASSUME order = [cmd |-> "ctx", size |-> 1, preset |-> "aggressive", image |-> None]
      PROVE  P
  <2>1. order.cmd = "ctx" /\ order.size = 1 /\ order.preset = "aggressive"
    BY <1>6
  <2> QED
    BY <2>1
<1>7. ASSUME NEW i \in {"on", "off", "bad"},
             order = [cmd |-> "ctx", size |-> 100, preset |-> "balanced", image |-> i]
      PROVE  P
  <2>1. order.cmd = "ctx" /\ order.size = 100 /\ order.preset = "balanced"
    BY <1>7
  <2> QED
    BY <2>1
<1> HIDE DEF P
<1>8. P
  BY <1>1, <1>2, <1>3, <1>4, <1>5, <1>6, <1>7, OrderCases, Zenon
<1> QED
  BY <1>8 DEF P

\* A share of a context is a whole number of tokens.
LEMMA ShareIsWhole ==
  (1 * 92) \div 100 \in Int /\ (100 * 85) \div 100 \in Int
  OBVIOUS

\* What a command asks for is a number or nothing.
LEMMA WantedTypes ==
  ASSUME order \in Switch!Orders, order.cmd \in {"ctx", "ctx off"},
         order.cmd = "ctx" => order.preset \notin {None, "bad"} /\ order.size \notin {None, 0}
  PROVE  Switch!WantedContext \in Int \cup {None} /\ Switch!WantedInput \in Int \cup {None}
<1>1. CASE order.cmd = "ctx off"
  BY <1>1 DEF Switch!WantedContext, Switch!WantedInput
<1>2. CASE order.cmd = "ctx"
  <2>1. \/ order.size = 1 /\ order.preset = "aggressive"
        \/ order.size = 100 /\ order.preset = "balanced"
    BY <1>2, OrderFacts
  <2>2. CASE order.size = 1 /\ order.preset = "aggressive"
    <3>1. Switch!InputLimit(1, "aggressive") \in Int
      <4>1. Switch!InputLimit(1, "aggressive") = (1 * 92) \div 100
        BY DEF Switch!InputLimit
      <4> QED
        BY ONLY <4>1, ShareIsWhole
    <3> QED
      BY <1>2, <2>2, <3>1 DEF Switch!WantedContext, Switch!WantedInput
  <2>3. CASE order.size = 100 /\ order.preset = "balanced"
    <3>1. Switch!InputLimit(100, "balanced") \in Int
      <4>1. Switch!InputLimit(100, "balanced") = (100 * 85) \div 100
        BY DEF Switch!InputLimit
      <4> QED
        BY ONLY <4>1, ShareIsWhole
    <3> QED
      BY <1>2, <2>3, <3>1 DEF Switch!WantedContext, Switch!WantedInput
  <2> QED
    BY <2>1, <2>2, <2>3
<1> QED
  BY <1>1, <1>2

\* The models whose limits are not as the command asks, and those whose images are not.
Unapplied == {m \in DOMAIN conf.models : ~Switch!LimitsApplied(conf.models[m])}
Unimaged == {m \in DOMAIN conf.models : ~Switch!ImageApplied(conf.models[m])}

\* The commands that edit every entry.
Editing == {"ctx", "ctx off", "image"}

\* A run of such a command that ends with an error promises nothing.
LEMMA EditFails ==
  ASSUME SwitchTypes, order.cmd \in Editing, order' = order, pins' = pins, cursor' = cursor,
         conf' \in FileTypes, Switch!End("error")
  PROVE  SwitchInv'
<1>1. step' = "ended" /\ said' = "error"
  BY DEF Switch!End
<1>2. SwitchTypes'
  BY <1>1 DEF SwitchTypes
<1>3. StageInv'
  BY <1>1 DEF StageInv, Menued
<1>4. Switch!AbortIsClean' /\ Switch!ChoicesApplied' /\ Switch!WarningsComplete'
  BY <1>1 DEF Switch!AbortIsClean, Switch!ChoicesApplied, Switch!WarningsComplete, Editing, Switch!Menus
<1> QED
  BY <1>2, <1>3, <1>4 DEF SwitchInv

\* A run of such a command that ends well has named the models that are not as asked.
LEMMA EditDone ==
  ASSUME SwitchTypes, order.cmd \in Editing, order' = order, pins' = pins, cursor' = cursor,
         conf' \in FileTypes, Switch!End("done"), Switch!WarningsComplete'
  PROVE  SwitchInv'
<1>1. step' = "ended" /\ said' = "done"
  BY DEF Switch!End
<1>2. SwitchTypes'
  BY <1>1 DEF SwitchTypes
<1>3. StageInv'
  BY <1>1 DEF StageInv, Menued
<1>4. Switch!AbortIsClean' /\ Switch!ChoicesApplied'
  BY <1>1 DEF Switch!AbortIsClean, Switch!ChoicesApplied, Editing, Switch!Menus
<1> QED
  BY <1>2, <1>3, <1>4 DEF SwitchInv

\* Whatever becomes of a write, the file keeps its shape.
LEMMA WriteKeepsShape ==
  ASSUME conf \in FileTypes, NEW new \in FileTypes, NEW parses, NEW section,
         Switch!WriteConfig(new, parses, section)
  PROVE  conf' \in FileTypes
<1>1. [conf EXCEPT !.state = "broken"] \in FileTypes
  BY DEF FileTypes
<1> QED
  BY <1>1 DEF Switch!WriteConfig

\* The limits of the entries with every limit edited.
LEMMA LimitsEdited ==
  ASSUME conf \in FileTypes, Switch!WantedContext \in Int \cup {None}, Switch!WantedInput \in Int \cup {None}
  PROVE  Switch!update_limits \in FileTypes
<1> DEFINE f == [m \in DOMAIN conf.models |->
                   Switch!SetLimits(conf.models[m], Switch!WantedContext, Switch!WantedInput)]
<1>1. PICK D \in SUBSET Catalogued : conf.models \in [D -> EntryTypes]
  BY DEF FileTypes
<1>2. ASSUME NEW e \in EntryTypes
      PROVE  Switch!SetLimits(e, Switch!WantedContext, Switch!WantedInput) \in EntryTypes
  BY DEF EntryTypes, Switch!SetLimits, Switch!LimitOnLine
<1>3. f \in [DOMAIN conf.models -> EntryTypes]
  BY <1>1, <1>2
<1>4. Switch!update_limits = [conf EXCEPT !.models = f]
  <2>1. conf.models = conf["models"] /\ "models" \in DOMAIN conf
    BY DEF FileTypes
  <2> QED
    BY <2>1 DEF Switch!update_limits
<1> HIDE DEF f
<1> QED
  BY <1>3, <1>4, EditedFile

\* ctx, ctx off.
LEMMA SwitchLimits ==
  ASSUME SwitchConstants, SwitchInv, Switch!SetContext
  PROVE  SwitchInv'
<1> DEFINE new == Switch!update_limits
<1>1. /\ step = "start" /\ order.cmd \in {"ctx", "ctx off"}
      /\ order.cmd = "ctx" => order.preset \notin {None, "bad"} /\ order.size \notin {None, 0}
      /\ Switch!WriteConfig(new, conf.state # "broken", "limits")
      /\ UNCHANGED <<order, pins, targets, nth, reads, picked, filter, cursor, outside>>
  BY DEF Switch!SetContext, Switch!menu
<1>2. SwitchTypes /\ conf \in FileTypes /\ order \in Switch!Orders /\ order.cmd \in Editing
  BY <1>1 DEF SwitchInv, SwitchTypes, Editing
<1>3. Switch!WantedContext \in Int \cup {None} /\ Switch!WantedInput \in Int \cup {None}
  BY <1>1, <1>2, WantedTypes
<1>4. new \in FileTypes
  BY <1>2, <1>3, LimitsEdited
<1>5. conf' \in FileTypes
  <2> HIDE DEF new
  <2> QED
    BY <1>1, <1>2, <1>4, WriteKeepsShape
<1>6. CASE Switch!Written(new, "limits") /\ conf.state = "ok"
  <2>1. /\ conf' = new
        /\ wrong' = {m \in DOMAIN new.models : ~Switch!LimitsApplied(new.models[m])}
        /\ IF order.image = None THEN Switch!End("done") ELSE step' = "image" /\ UNCHANGED said
    BY <1>6 DEF Switch!SetContext, Switch!Written
  <2> HIDE DEF new
  <2>2. wrong' = Unapplied'
    BY <1>1, <2>1 DEF Unapplied, Switch!LimitsApplied, Switch!WantedContext, Switch!WantedInput
  <2>3. CASE order.image = None
    <3>1. Switch!WarningsComplete'
      <4>1. order'.cmd # "image" /\ ~(order'.image # None)
        BY <1>1, <2>3
      <4> QED
        BY <2>2, <4>1, Zenon DEF Switch!WarningsComplete, Unapplied
    <3>2. Switch!End("done")
      BY <2>1, <2>3
    <3> QED
      BY <1>1, <1>2, <1>5, <3>1, <3>2, EditDone
  <2>4. CASE order.image # None
    <3>1. step' = "image" /\ said' = said /\ said = "nothing"
      BY <1>1, <2>1, <2>4 DEF SwitchInv, StageInv
    <3>2. SwitchTypes'
      BY <1>1, <1>2, <1>5, <3>1 DEF SwitchTypes
    <3>3. StageInv'
      BY <1>1, <2>2, <2>4, <3>1 DEF StageInv, Menued, Unapplied
    <3>4. Switch!AbortIsClean' /\ Switch!ChoicesApplied' /\ Switch!WarningsComplete'
      BY <3>1 DEF Switch!AbortIsClean, Switch!ChoicesApplied, Switch!WarningsComplete
    <3> QED
      BY <3>2, <3>3, <3>4 DEF SwitchInv
  <2> QED
    BY <2>3, <2>4
<1>7. CASE ~(Switch!Written(new, "limits") /\ conf.state = "ok")
  <2>1. Switch!End("error")
    BY <1>7 DEF Switch!SetContext
  <2> QED
    BY <1>1, <1>2, <1>5, <2>1, EditFails
<1> QED
  BY <1>6, <1>7

\* Editing the images keeps every entry's limits.
LEMMA ImagesEdited ==
  ASSUME conf \in FileTypes
  PROVE  /\ Switch!update_image \in FileTypes
         /\ DOMAIN Switch!update_image.models = DOMAIN conf.models
         /\ \A m \in DOMAIN conf.models :
              /\ Switch!update_image.models[m].context = conf.models[m].context
              /\ Switch!update_image.models[m].input = conf.models[m].input
<1> DEFINE on == order.image = "on"
           f == [m \in DOMAIN conf.models |-> Switch!SetImage(conf.models[m], on)]
<1>1. PICK D \in SUBSET Catalogued : conf.models \in [D -> EntryTypes]
  BY DEF FileTypes
<1>2. ASSUME NEW e \in EntryTypes
      PROVE  /\ Switch!SetImage(e, on) \in EntryTypes
             /\ Switch!SetImage(e, on).context = e.context /\ Switch!SetImage(e, on).input = e.input
  <2>1. CASE on
    BY <2>1 DEF EntryTypes, Switch!SetImage
  <2>2. CASE ~on
    BY <2>2 DEF EntryTypes, Switch!SetImage
  <2> QED
    BY <2>1, <2>2
<1>4. Switch!update_image = [conf EXCEPT !.models = f]
  <2>1. "models" \in DOMAIN conf
    BY DEF FileTypes
  <2> QED
    BY <2>1 DEF Switch!update_image
<1> HIDE DEF on
<1>3. f \in [DOMAIN conf.models -> EntryTypes]
  BY <1>1, <1>2
<1>5. \A m \in DOMAIN conf.models : f[m].context = conf.models[m].context /\ f[m].input = conf.models[m].input
  BY <1>1, <1>2
<1> HIDE DEF f
<1>6. [conf EXCEPT !.models = f] \in FileTypes /\ [conf EXCEPT !.models = f].models = f
  BY <1>3, EditedFile
<1> QED
  BY <1>3, <1>4, <1>5, <1>6

\* image, and ctx with an image argument.
LEMMA SwitchImages ==
  ASSUME SwitchConstants, SwitchInv, Switch!SwitchImage
  PROVE  SwitchInv'
<1> DEFINE new == Switch!update_image
<1>1. /\ step = "image" \/ (step = "start" /\ order.cmd = "image")
      /\ UNCHANGED <<order, pins, targets, nth, reads, picked, filter, cursor, outside>>
  BY DEF Switch!SwitchImage, Switch!menu
<1>2. /\ SwitchTypes /\ conf \in FileTypes /\ order \in Switch!Orders /\ order.cmd \in Editing
      /\ step = "image" => order.image # None /\ wrong = Unapplied /\ order.cmd # "image"
      /\ step = "start" => wrong = {} /\ order.cmd = "image"
  BY <1>1 DEF SwitchInv, SwitchTypes, StageInv, Editing, Unapplied
<1>3. order.image # None
  <2>1. order.cmd = "image" => order.image \in {"on", "off", "bad"}
    BY <1>2, OrderFacts
  <2> QED
    BY <1>1, <1>2, <2>1 DEF SwitchConstants
<1>4. CASE order.image = "bad"
  <2>1. step' = "ended" /\ said' = "usage" /\ UNCHANGED <<conf, wrote, wrong>>
    BY <1>4 DEF Switch!SwitchImage, Switch!End
  <2>2. SwitchTypes'
    BY <1>1, <1>2, <2>1 DEF SwitchTypes
  <2>3. StageInv'
    BY <2>1 DEF StageInv, Menued
  <2>4. Switch!AbortIsClean' /\ Switch!ChoicesApplied' /\ Switch!WarningsComplete'
    BY <2>1 DEF Switch!AbortIsClean, Switch!ChoicesApplied, Switch!WarningsComplete
  <2> QED
    BY <2>2, <2>3, <2>4 DEF SwitchInv
<1>5. CASE order.image # "bad"
  <2>1. /\ Switch!WriteConfig(new, conf.state # "broken", "capabilities")
        /\ IF Switch!Written(new, "capabilities") /\ conf.state = "ok"
           THEN /\ wrong' = wrong \cup {m \in DOMAIN new.models : ~Switch!ImageApplied(new.models[m])}
                /\ Switch!End("done")
           ELSE Switch!End("error") /\ UNCHANGED wrong
    BY <1>5 DEF Switch!SwitchImage
  <2>2. /\ new \in FileTypes /\ DOMAIN new.models = DOMAIN conf.models
        /\ \A m \in DOMAIN conf.models : /\ new.models[m].context = conf.models[m].context
                                         /\ new.models[m].input = conf.models[m].input
    BY <1>2, ImagesEdited
  <2> HIDE DEF new
  <2>3. conf' \in FileTypes
    BY <1>2, <2>1, <2>2, WriteKeepsShape
  <2>4. CASE Switch!Written(new, "capabilities") /\ conf.state = "ok"
    <3>1. conf' = new /\ wrong' = wrong \cup {m \in DOMAIN new.models : ~Switch!ImageApplied(new.models[m])}
      BY <2>1, <2>4 DEF Switch!Written
    <3>2. Switch!End("done")
      BY <2>1, <2>4
    <3>3. wrong' = wrong \cup Unimaged'
      BY <1>1, <3>1 DEF Unimaged, Switch!ImageApplied
    <3>4. Unapplied' = Unapplied
      BY <1>1, <2>2, <3>1 DEF Unapplied, Switch!LimitsApplied, Switch!WantedContext, Switch!WantedInput
    <3>5. order'.image # None
      BY <1>1, <1>3
    <3>6. Switch!WarningsComplete'
      <4>1. CASE step = "image"
        <5>1. order'.cmd # "image" /\ wrong' = Unapplied' \cup Unimaged'
          BY <1>1, <1>2, <3>3, <3>4, <4>1
        <5> QED
          BY <3>5, <5>1, Zenon DEF Switch!WarningsComplete, Unapplied, Unimaged
      <4>2. CASE step = "start"
        <5>1. ~(order'.cmd # "image") /\ wrong' = Unimaged'
          BY <1>1, <1>2, <3>3, <4>2
        <5> QED
          BY <3>5, <5>1, Zenon DEF Switch!WarningsComplete, Unapplied, Unimaged
      <4> QED
        BY <1>1, <4>1, <4>2
    <3> QED
      BY <1>1, <1>2, <2>3, <3>2, <3>6, EditDone
  <2>5. CASE ~(Switch!Written(new, "capabilities") /\ conf.state = "ok")
    <3>1. Switch!End("error")
      BY <2>1, <2>5
    <3> QED
      BY <1>1, <1>2, <2>3, <3>1, EditFails
  <2> QED
    BY <2>4, <2>5
<1> QED
  BY <1>4, <1>5

\* What can be chosen for.
Targeted == Pinning \cup {"default"}

\* The targets other than t read as before.
Spared(t) == \A x \in Targeted : x # t => Switch!Read(x)' = Switch!Read(x)

\* The targets are the default and agents.
LEMMA TargetTypes ==
  ASSUME TargetsInv
  PROVE  \A k \in 1 .. Len(targets) : targets[k] \in Targeted
<1> SUFFICES ASSUME NEW k \in 1 .. Len(targets)
             PROVE  targets[k] \in Targeted
  OBVIOUS
<1>1. k = 1 \/ k \in 2 .. Len(targets)
  BY DEF TargetsInv
<1> QED
  BY <1>1 DEF TargetsInv, Targeted

\* What a target reads as is a model or nothing.
LEMMA ReadTypes ==
  ASSUME SwitchTypes, NEW x \in Targeted
  PROVE  Switch!Read(x) \in Values
  BY DEF SwitchTypes, FileTypes, Values, Targeted, Pinning, Switch!Read

\* A prompt opens on a line of the list.
LEMMA PlaceTypes ==
  ASSUME NEW v
  PROVE  Switch!Place(v) \in Nat /\ Switch!Place(v) >= 1
<1> DEFINE all == <<"near", "odd", "wide">>
           P(i) == all[i] = v
<1>1. Len(all) = 3
  OBVIOUS
<1>2. Switch!Place(v) = IF \E i \in 1 .. Len(all) : P(i) THEN CHOOSE i \in 1 .. Len(all) : P(i) ELSE 1
  BY DEF Switch!Place
<1> HIDE DEF all, P
<1>3. CASE \E i \in 1 .. 3 : P(i)
  <2>1. (CHOOSE i \in 1 .. 3 : P(i)) \in 1 .. 3
    BY <1>3
  <2> QED
    BY <1>1, <1>2, <1>3, <2>1
<1>4. CASE ~\E i \in 1 .. 3 : P(i)
  BY <1>1, <1>2, <1>4
<1> QED
  BY <1>3, <1>4

\* The state while the run is in a menu.
LEMMA MenuFacts ==
  ASSUME SwitchInv, step \in Menued
  PROVE  /\ SwitchTypes /\ MenuInv /\ ReadsInv /\ TargetsInv
         /\ \A k \in 1 .. Len(targets) : targets[k] \in Targeted
<1>1. SwitchTypes /\ MenuInv /\ ReadsInv
  BY DEF SwitchInv, StageInv
<1> QED
  BY <1>1, TargetTypes DEF MenuInv

\* In a menu nothing has been said, so only the choices already written matter.
LEMMA MenuSuffices ==
  ASSUME SwitchTypes', (step \in Menued)', MenuInv', ReadsInv',
         step' = "write" => Switch!ChoicesApplied'
  PROVE  SwitchInv'
<1>1. said' = "nothing" /\ step' # "start" /\ step' # "image"
  BY DEF MenuInv, Menued
<1>2. StageInv'
  BY <1>1 DEF StageInv
<1>3. Switch!AbortIsClean' /\ Switch!WarningsComplete'
  BY <1>1 DEF Switch!AbortIsClean, Switch!WarningsComplete
<1>4. Switch!ChoicesApplied'
  BY <1>1 DEF Switch!ChoicesApplied
<1> QED
  BY <1>2, <1>3, <1>4 DEF SwitchInv

\* The menu opens, or there is nothing to choose from.
LEMMA SwitchOpens ==
  ASSUME SwitchInv, Switch!OpenMenu
  PROVE  SwitchInv'
<1>1. /\ step = "start" /\ order.cmd \in Switch!Menus
      /\ UNCHANGED <<order, conf, pins, nth, picked, wrote, outside, wrong>>
  BY DEF Switch!OpenMenu
<1>2. CASE conf.state # "ok" \/ DOMAIN conf.models = {}
  <2>1. Switch!End("error") /\ UNCHANGED <<targets, reads, filter, cursor>>
    BY <1>2 DEF Switch!OpenMenu
  <2> QED
    BY <1>1, <2>1, SwitchEnds
<1>3. CASE ~(conf.state # "ok" \/ DOMAIN conf.models = {})
  <2> DEFINE d == Switch!discover_agents
             r == Switch!Read("default")
  <2>1. /\ targets' = <<"default">> \o d /\ reads' = <<r>> /\ cursor' = Switch!Place(r)
        /\ step' = "prompt" /\ said' = said
    BY <1>3 DEF Switch!OpenMenu
  <2>2. /\ d \in Seq(Pinning) /\ \A k, l \in 1 .. Len(d) : d[k] = d[l] => k = l
        /\ \A k \in 1 .. Len(d) : pins[d[k]] # None
    BY DiscoveredOnce
  <2>3. said = "nothing" /\ wrote = {} /\ nth = 1 /\ picked = <<>> /\ SwitchTypes
    BY <1>1 DEF SwitchInv, StageInv
  <2>4. r \in Values
    BY <2>3, ReadTypes DEF Targeted
  <2>5. Switch!Read("default")' = r
    BY <1>1 DEF Switch!Read
  <2> HIDE DEF d, r
  <2>6. TargetsInv'
    <3>1. Len(d) \in Nat /\ Len(targets') = 1 + Len(d) /\ targets'[1] = "default"
      BY <2>1, <2>2
    <3>2. \A k \in 2 .. Len(targets') : targets'[k] = d[k - 1] /\ k - 1 \in 1 .. Len(d) /\ d[k - 1] \in Pinning
      BY <2>1, <2>2, <3>1
    <3>3. "default" \notin Pinning
      BY DEF Pinning
    <3>4. ASSUME NEW k \in 1 .. Len(targets'), NEW l \in 1 .. Len(targets'), targets'[k] = targets'[l]
          PROVE  k = l
      <4>1. (k = 1 \/ k \in 2 .. Len(targets')) /\ (l = 1 \/ l \in 2 .. Len(targets'))
        BY <3>1
      <4>2. CASE k = 1 \/ l = 1
        BY <3>1, <3>2, <3>3, <3>4, <4>1, <4>2
      <4>3. CASE k \in 2 .. Len(targets') /\ l \in 2 .. Len(targets')
        <5>1. k - 1 = l - 1
          BY <2>2, <3>2, <3>4, <4>3
        <5> QED
          BY <4>3, <5>1
      <4> QED
        BY <4>1, <4>2, <4>3
    <3> QED
      BY <3>1, <3>2, <3>4 DEF TargetsInv
  <2>7. SwitchTypes'
    <3>1. cursor' \in Nat /\ cursor' >= 1
      BY <2>1, PlaceTypes
    <3> QED
      BY <1>1, <2>1, <2>3, <3>1 DEF SwitchTypes
  <2>8. MenuInv'
    <3>1. reads' \in Seq(Values) /\ Len(reads') = 1
      BY <2>1, <2>4
    <3>2. picked' \in Seq(Catalogued) /\ Len(picked') = 0
      BY <1>1, <2>3
    <3>3. nth' = 1 /\ nth' \in 1 .. Len(targets') + 1 /\ nth' <= Len(targets')
      BY <1>1, <2>3, <2>6 DEF TargetsInv
    <3>4. PinnedInv'
      <4> SUFFICES ASSUME NEW k \in 1 .. Len(targets'), targets'[k] # "default"
                   PROVE  pins[targets'[k]] # None
        BY <1>1 DEF PinnedInv, Switch!Read
      <4>1. k # 1 /\ Len(targets') = 1 + Len(d) /\ Len(d) \in Nat
        BY <2>1, <2>2
      <4>2. k - 1 \in 1 .. Len(d) /\ targets'[k] = d[k - 1]
        BY <2>1, <2>2, <4>1
      <4> QED
        BY <2>2, <4>2
    <3>5. Parses(conf)'
      BY <1>1, <1>3 DEF Parses
    <3> QED
      BY <1>1, <2>1, <2>3, <2>6, <3>1, <3>2, <3>3, <3>4, <3>5 DEF MenuInv
  <2>9. ReadsInv'
    <3>1. Len(reads') = 1 /\ reads'[1] = r /\ targets'[1] = "default"
      BY <2>1, <2>6 DEF TargetsInv
    <3>2. \A k \in 1 .. Len(reads') : k = 1
      BY <3>1
    <3>3. (Switch!Read(targets[1]) = reads[1])'
      BY <2>5, <3>1 DEF Switch!Read
    <3> QED
      BY <3>2, <3>3 DEF ReadsInv
  <2> QED
    BY <2>1, <2>7, <2>8, <2>9, MenuSuffices DEF Menued
<1> QED
  BY <1>2, <1>3

\* Moving in the list, or editing the filter.
LEMMA SwitchBrowses ==
  ASSUME SwitchInv, Switch!Browse
  PROVE  SwitchInv'
<1>1. /\ step = "prompt" /\ step' = step
      /\ UNCHANGED <<order, conf, pins, targets, nth, reads, picked, wrote, outside, wrong, said>>
  BY DEF Switch!Browse
<1>2. SwitchTypes /\ MenuInv /\ ReadsInv
  BY <1>1, MenuFacts DEF Menued
<1>3. cursor' \in Nat /\ cursor' >= 1
  <2>1. cursor \in Nat /\ cursor >= 1
    BY <1>2 DEF SwitchTypes
  <2>2. cursor' \in {cursor - 1, cursor, cursor + 1, 1} /\ (cursor' = cursor - 1 => cursor > 1)
    BY <2>1 DEF Switch!Browse
  <2> QED
    BY <2>1, <2>2
<1>4. SwitchTypes'
  BY <1>1, <1>2, <1>3 DEF SwitchTypes
<1>5. MenuInv'
  BY <1>1, <1>2 DEF MenuInv, TargetsInv, PinnedInv, Parses, Switch!Read
<1>6. ReadsInv'
  BY <1>1, <1>2 DEF ReadsInv, Switch!Read
<1> QED
  BY <1>1, <1>4, <1>5, <1>6, MenuSuffices DEF Menued

\* The run is given up.
LEMMA SwitchAborts ==
  ASSUME SwitchInv, Switch!Abort
  PROVE  SwitchInv'
<1>1. /\ step \in {"prompt", "confirm"} /\ step' = "ended" /\ said' = "aborted"
      /\ UNCHANGED <<order, conf, pins, cursor, wrote>>
  BY DEF Switch!Abort, Switch!End, Switch!menu
<1>2. SwitchTypes /\ wrote = {}
  BY <1>1, MenuFacts DEF Menued, MenuInv
<1>3. SwitchTypes'
  BY <1>1, <1>2 DEF SwitchTypes
<1>4. StageInv'
  BY <1>1 DEF StageInv, Menued
<1>5. Switch!AbortIsClean' /\ Switch!ChoicesApplied' /\ Switch!WarningsComplete'
  BY <1>1, <1>2 DEF Switch!AbortIsClean, Switch!ChoicesApplied, Switch!WarningsComplete
<1> QED
  BY <1>3, <1>4, <1>5 DEF SwitchInv

\* The choices are confirmed.
LEMMA SwitchConfirms ==
  ASSUME SwitchInv, Switch!Confirm
  PROVE  SwitchInv'
<1>1. /\ step = "confirm" /\ step' = "write"
      /\ UNCHANGED <<order, conf, pins, targets, nth, reads, picked, cursor, wrote, outside, wrong, said>>
  BY DEF Switch!Confirm, Switch!menu
<1>2. SwitchTypes /\ MenuInv /\ ReadsInv
  BY <1>1, MenuFacts DEF Menued
<1>3. SwitchTypes'
  BY <1>1, <1>2 DEF SwitchTypes
<1>4. MenuInv'
  BY <1>1, <1>2 DEF MenuInv, TargetsInv, PinnedInv, Parses, Switch!Read
<1>5. ReadsInv'
  BY <1>1, <1>2 DEF ReadsInv, Switch!Read
<1>6. Switch!ChoicesApplied'
  <2>1. nth' = 1 /\ 1 .. nth' - 1 = {}
    BY <1>1, <1>2 DEF MenuInv
  <2> QED
    BY <2>1 DEF Switch!ChoicesApplied
<1> QED
  BY <1>1, <1>3, <1>4, <1>5, <1>6, MenuSuffices DEF Menued

\* Everything has been written.
LEMMA SwitchFinishes ==
  ASSUME SwitchInv, Switch!AllWritten
  PROVE  SwitchInv'
<1>1. /\ step = "write" /\ step' = "ended" /\ said' \in {"unchanged", "done"}
      /\ said' = "unchanged" => wrote = {}
      /\ UNCHANGED <<order, conf, pins, targets, nth, picked, cursor, wrote, outside>>
  BY DEF Switch!AllWritten, Switch!End, Switch!menu
<1>2. SwitchTypes /\ order.cmd \in Switch!Menus /\ Switch!ChoicesApplied
  BY <1>1, MenuFacts DEF Menued, MenuInv, SwitchInv
<1>3. SwitchTypes'
  BY <1>1, <1>2 DEF SwitchTypes
<1>4. StageInv'
  BY <1>1 DEF StageInv, Menued
<1>5. Switch!AbortIsClean' /\ Switch!WarningsComplete'
  BY <1>1, <1>2 DEF Switch!AbortIsClean, Switch!WarningsComplete, Switch!Menus
<1>6. Switch!ChoicesApplied'
  BY <1>1, <1>2 DEF Switch!ChoicesApplied, Switch!Plain, Switch!Read
<1> QED
  BY <1>3, <1>4, <1>5, <1>6 DEF SwitchInv

\* A value is chosen.
LEMMA SwitchChooses ==
  ASSUME SwitchInv, Switch!Choose
  PROVE  SwitchInv'
<1> DEFINE v == Switch!Listed[cursor]
<1>1. /\ step = "prompt" /\ cursor <= Len(Switch!Listed)
      /\ UNCHANGED <<order, conf, pins, targets, wrote, outside, wrong, said>>
  BY DEF Switch!Choose
<1>2. /\ SwitchTypes /\ MenuInv /\ ReadsInv /\ TargetsInv
      /\ \A k \in 1 .. Len(targets) : targets[k] \in Targeted
  BY <1>1, MenuFacts DEF Menued
<1>3. v \in Catalogued
  <2>1. cursor \in Nat /\ cursor >= 1
    BY <1>2 DEF SwitchTypes
  <2> QED
    BY <1>1, <2>1, ListedFromCatalog
<1>4. TargetsInv' /\ PinnedInv' /\ Parses(conf)'
  BY <1>1, <1>2 DEF MenuInv, TargetsInv, PinnedInv, Parses, Switch!Read
<1>5. /\ reads \in Seq(Values) /\ picked \in Seq(Catalogued)
      /\ order.cmd \in Switch!Menus /\ said = "nothing" /\ wrote = {}
      /\ nth \in 1 .. Len(targets) /\ Len(reads) = nth /\ Len(picked) = nth - 1
      /\ order.cmd = "all" => nth = 1
  BY <1>1, <1>2 DEF MenuInv, TargetsInv
<1>6. Len(targets) \in Nat /\ Len(targets) >= 1
  BY <1>2 DEF TargetsInv
<1>7. CASE order.cmd = "all"
  <2>1. /\ picked' = [k \in 1 .. Len(targets) |-> v] /\ step' = "write"
        /\ UNCHANGED <<nth, reads, cursor>>
    BY <1>7 DEF Switch!Choose
  <2> HIDE DEF v
  <2>2. picked' \in Seq(Catalogued) /\ Len(picked') = Len(targets)
    <3>1. picked' \in [1 .. Len(targets) -> Catalogued]
      BY <1>3, <2>1
    <3> QED
      BY <1>6, <3>1
  <2>3. SwitchTypes'
    BY <1>1, <1>2, <2>1 DEF SwitchTypes
  <2>4. MenuInv'
    <3>1. nth' \in 1 .. Len(targets') + 1 /\ nth' = 1 /\ Len(reads') = 1
      BY <1>1, <1>5, <1>6, <1>7, <2>1
    <3> QED
      BY <1>1, <1>4, <1>5, <1>7, <2>1, <2>2, <3>1 DEF MenuInv
  <2>5. ReadsInv'
    BY <1>1, <1>2, <2>1 DEF ReadsInv, Switch!Read
  <2>6. Switch!ChoicesApplied'
    <3>1. nth' = 1 /\ 1 .. nth' - 1 = {}
      BY <1>5, <1>7, <2>1
    <3> QED
      BY <3>1 DEF Switch!ChoicesApplied
  <2> QED
    BY <2>1, <2>3, <2>4, <2>5, <2>6, MenuSuffices DEF Menued
<1>8. CASE order.cmd # "all" /\ nth < Len(targets)
  <2> DEFINE r == Switch!Read(targets[nth + 1])
  <2>1. /\ picked' = Append(picked, v) /\ reads' = Append(reads, r)
        /\ cursor' = Switch!Place(r) /\ nth' = nth + 1 /\ step' = step
    BY <1>8 DEF Switch!Choose
  <2>2. nth + 1 \in 1 .. Len(targets)
    BY <1>5, <1>6, <1>8
  <2>3. r \in Values
    BY <1>2, <2>2, ReadTypes
  <2>4. \A x \in Targeted : Switch!Read(x)' = Switch!Read(x)
    BY <1>1 DEF Switch!Read
  <2>0. r = Switch!Read(targets[nth + 1])
    OBVIOUS
  <2> HIDE DEF v, r
  <2>5. SwitchTypes'
    <3>1. cursor' \in Nat /\ cursor' >= 1
      BY <2>1, PlaceTypes
    <3> QED
      BY <1>1, <1>2, <2>1, <3>1 DEF SwitchTypes
  <2>6. /\ reads' \in Seq(Values) /\ Len(reads') = nth + 1 /\ reads'[nth + 1] = r
        /\ \A k \in 1 .. nth : reads'[k] = reads[k]
    BY <1>5, <2>1, <2>3
  <2>7. picked' \in Seq(Catalogued) /\ Len(picked') = nth
    BY <1>3, <1>5, <2>1
  <2>8. MenuInv'
    <3>1. nth' \in 1 .. Len(targets') + 1 /\ nth' <= Len(targets') /\ nth' - 1 = nth
      BY <1>1, <1>5, <1>6, <1>8, <2>1
    <3> QED
      BY <1>1, <1>4, <1>5, <1>8, <2>1, <2>6, <2>7, <3>1 DEF MenuInv
  <2>9. ReadsInv'
    <3> SUFFICES ASSUME NEW k \in 1 .. nth + 1, targets'[k] \notin outside'
                 PROVE  (Switch!Read(targets[k]))' = reads'[k]
      BY <2>6 DEF ReadsInv
    <3>0. k \in 1 .. Len(targets) /\ targets[k] \in Targeted
      BY <1>2, <1>5, <1>6, <2>2
    <3>1. (Switch!Read(targets[k]))' = Switch!Read(targets[k])
      BY <1>1 DEF Switch!Read
    <3>2. CASE k = nth + 1
      BY <2>6, <2>0, <3>1, <3>2
    <3>3. CASE k # nth + 1
      <4>1. k \in 1 .. nth /\ k \in 1 .. Len(reads)
        BY <1>5, <3>3
      <4>2. Switch!Read(targets[k]) = reads[k]
        BY <1>1, <1>2, <4>1 DEF ReadsInv
      <4> QED
        BY <2>6, <3>1, <4>1, <4>2
    <3> QED
      BY <3>2, <3>3
  <2> QED
    BY <1>1, <2>1, <2>5, <2>8, <2>9, MenuSuffices DEF Menued
<1>9. CASE order.cmd # "all" /\ ~(nth < Len(targets))
  <2>1. picked' = Append(picked, v) /\ step' = "confirm" /\ nth' = 1 /\ UNCHANGED <<reads, cursor>>
    BY <1>9 DEF Switch!Choose
  <2> HIDE DEF v
  <2>2. nth = Len(targets)
    BY <1>5, <1>6, <1>9
  <2>3. picked' \in Seq(Catalogued) /\ Len(picked') = Len(targets)
    BY <1>3, <1>5, <2>1, <2>2
  <2>4. SwitchTypes'
    BY <1>1, <1>2, <2>1 DEF SwitchTypes
  <2>5. MenuInv'
    <3>1. nth' \in 1 .. Len(targets') + 1
      BY <1>1, <1>6, <2>1
    <3> QED
      BY <1>1, <1>4, <1>5, <1>9, <2>1, <2>2, <2>3, <3>1 DEF MenuInv
  <2>6. ReadsInv'
    BY <1>1, <1>2, <2>1 DEF ReadsInv, Switch!Read
  <2> QED
    BY <2>1, <2>4, <2>5, <2>6, MenuSuffices DEF Menued
<1> QED
  BY <1>7, <1>8, <1>9

\* An edit of opencode.jsonc leaves the agents alone.
LEMMA DefaultEdited ==
  ASSUME Parses(conf)', pins' = pins
  PROVE  Switch!Read("default")' = conf'.default /\ Spared("default")
  BY DEF Parses, Spared, Switch!Read

\* The default alone is replaced.
LEMMA DefaultReplaced ==
  ASSUME conf \in FileTypes, Parses(conf), NEW v \in Values
  PROVE  /\ [conf EXCEPT !.default = v] \in FileTypes /\ Parses([conf EXCEPT !.default = v])
         /\ [conf EXCEPT !.default = v].default = v
  BY DEF FileTypes, Parses

\* Whatever is spliced in, a text that parses is a configuration; an id with nothing
\* to escape is its default.
LEMMA SplicedFile ==
  ASSUME conf \in FileTypes, Parses(conf), NEW v \in Catalogued, NEW new \in Switch!Spliced(v)
  PROVE  /\ new \in FileTypes /\ Parses(new)
         /\ v # "odd" => new.default = v
<1>1. CASE v # "odd"
  <2>1. new = [conf EXCEPT !.default = v]
    BY <1>1 DEF Switch!Spliced
  <2> QED
    BY <2>1, DefaultReplaced DEF Values, Present
<1>2. CASE v = "odd"
  <2> DEFINE bare == [m \in {} |-> Switch!PlainEntry]
  <2>1. PICK d \in Values : \/ new = [conf EXCEPT !.default = d]
                            \/ new = [conf EXCEPT !.default = d, !.state = "bare", !.models = bare]
    BY <1>2, IdsCatalogued DEF Switch!Spliced, Values, Present
  <2>2. bare \in UNION {[D -> EntryTypes] : D \in SUBSET Catalogued}
    <3>1. bare \in [{} -> EntryTypes]
      OBVIOUS
    <3> QED
      BY <3>1
  <2> HIDE DEF bare
  <2>3. CASE new = [conf EXCEPT !.default = d]
    BY <1>2, <2>3, DefaultReplaced
  <2>4. CASE new = [conf EXCEPT !.default = d, !.state = "bare", !.models = bare]
    BY <1>2, <2>2, <2>4 DEF FileTypes, Parses
  <2> QED
    BY <2>1, <2>3, <2>4
<1> QED
  BY <1>1, <1>2

\* What an agent is read to pin once an id was written: a text, and the id unless
\* something is trimmed of it.
LEMMA ReadBackTypes ==
  ASSUME NEW v \in Catalogued, NEW w \in Switch!ReadBack(v)
  PROVE  w \in Present /\ (v # "wide" => w = v)
  BY IdsCatalogued DEF Switch!ReadBack, Present

\* An edit of an agent's frontmatter leaves the other targets alone.
LEMMA AgentEdited ==
  ASSUME SwitchTypes, NEW a \in Pinning, NEW v \in Values, pins' = [pins EXCEPT ![a] = v], conf' = conf
  PROVE  pins' \in [Pinning -> Values] /\ Switch!Read(a)' = v /\ Spared(a)
<1>1. pins' \in [Pinning -> Values] /\ pins'[a] = v /\ a # "default"
  BY DEF SwitchTypes, Pinning
<1>2. Switch!Read(a)' = v
  BY <1>1 DEF Switch!Read
<1>3. Spared(a)
  BY <1>1 DEF Spared, Switch!Read, SwitchTypes, Targeted
<1> QED
  BY <1>1, <1>2, <1>3

\* The targets but one keep what stands in them.
LEMMA OthersKept ==
  ASSUME TargetsInv, NEW j \in 1 .. Len(targets), Spared(targets[j]), targets' = targets,
         \A k \in 1 .. Len(targets) : targets[k] \in Targeted
  PROVE  \A k \in 1 .. Len(targets) :
           k # j => (Switch!Read(targets[k]))' = Switch!Read(targets[k])
<1> SUFFICES ASSUME NEW k \in 1 .. Len(targets), k # j
             PROVE  (Switch!Read(targets[k]))' = Switch!Read(targets[k])
  OBVIOUS
<1>1. targets[k] # targets[j] /\ targets[k] \in Targeted
  BY DEF TargetsInv
<1>2. \A x : x = targets[k] => (Switch!Read(targets[k]))' = Switch!Read(x)'
  BY DEF Switch!Read
<1> QED
  BY <1>1, <1>2 DEF Spared

\* While the configuration parses and the agents pin models, no target stands empty.
LEMMA TargetsStand ==
  ASSUME PinnedInv', Parses(conf)', targets' = targets, NEW k \in 1 .. Len(targets)
  PROVE  (IF targets[k] = "default" THEN conf.state \in {"bare", "ok"} ELSE Switch!Read(targets[k]) # None)'
  BY DEF PinnedInv, Parses

\* A choice has reached its target, or stands there already.
LEMMA SwitchApplies ==
  ASSUME SwitchInv, step = "write", step' = step, nth \in 1 .. Len(targets), nth' = nth + 1,
         UNCHANGED <<order, targets, reads, picked, filter, cursor, outside, wrong, said>>,
         conf' \in FileTypes, Parses(conf)', pins' \in [Pinning -> Values], PinnedInv',
         \A k \in 1 .. Len(targets) :
           k = nth /\ targets[k] \notin outside /\ Switch!Plain(targets[k], picked[k]) =>
             (Switch!Read(targets[k]))' = picked[k],
         \A k \in 1 .. Len(targets) :
           k # nth => (Switch!Read(targets[k]))' = Switch!Read(targets[k])
  PROVE  SwitchInv'
<1>1. SwitchTypes /\ MenuInv /\ ReadsInv /\ TargetsInv
  BY MenuFacts DEF Menued
<1>2. SwitchTypes'
  BY <1>1 DEF SwitchTypes
<1>3. Len(targets) \in Nat /\ nth \in Nat /\ nth >= 1
  BY <1>1 DEF TargetsInv
<1>4. MenuInv'
  <2>1. TargetsInv'
    BY <1>1 DEF TargetsInv
  <2>2. nth' \in 1 .. Len(targets') + 1
    BY <1>3
  <2> QED
    BY <1>1, <2>1, <2>2 DEF MenuInv
<1>5. ReadsInv'
  <2> SUFFICES ASSUME NEW k \in 1 .. Len(reads), k >= nth + 1, targets[k] \notin outside
               PROVE  (Switch!Read(targets[k]))' = reads[k]
    BY DEF ReadsInv
  <2>1. k \in Nat /\ k # nth /\ k >= nth /\ k \in 1 .. Len(targets)
    BY <1>1, <1>3 DEF MenuInv
  <2>2. Switch!Read(targets[k]) = reads[k]
    BY <1>1, <2>1 DEF ReadsInv
  <2> QED
    BY <2>1, <2>2
<1>6. Switch!ChoicesApplied'
  <2> SUFFICES ASSUME NEW k \in 1 .. nth, targets[k] \notin outside, Switch!Plain(targets[k], picked[k])
               PROVE  (Switch!Read(targets[k]))' = picked[k]
    <3>1. nth' - 1 = nth /\ \A k \in 1 .. nth : k \in 1 .. Len(targets)
      BY <1>3
    <3>2. \A k \in 1 .. nth :
            (IF targets[k] = "default" THEN conf.state \in {"bare", "ok"} ELSE Switch!Read(targets[k]) # None)'
      BY <3>1, TargetsStand
    <3> QED
      BY <3>1, <3>2 DEF Switch!ChoicesApplied, Switch!Plain
  <2>1. CASE k = nth
    BY <2>1
  <2>2. CASE k # nth
    <3>1. k \in 1 .. nth - 1 /\ k \in 1 .. Len(targets)
      BY <1>3, <2>2
    <3>2. Switch!Read(targets[k]) = picked[k]
      BY <1>1, <3>1 DEF SwitchInv, Switch!ChoicesApplied, MenuInv
    <3> QED
      BY <2>2, <3>1, <3>2
  <2> QED
    BY <2>1, <2>2
<1> QED
  BY <1>2, <1>4, <1>5, <1>6, MenuSuffices DEF Menued

\* A write fails: what was written before stands.
LEMMA SwitchFails ==
  ASSUME SwitchInv, step = "write", nth \in 1 .. Len(targets), nth' = nth, Switch!End("error"),
         UNCHANGED <<order, targets, picked, cursor, outside>>,
         conf' \in FileTypes, pins' \in [Pinning -> Values],
         \A k \in 1 .. nth - 1 : conf' = conf /\ (Switch!Read(targets[k]))' = Switch!Read(targets[k])
  PROVE  SwitchInv'
<1>1. SwitchTypes /\ MenuInv /\ step' = "ended" /\ said' = "error"
  BY MenuFacts DEF Menued, Switch!End
<1>2. SwitchTypes'
  BY <1>1 DEF SwitchTypes
<1>3. StageInv'
  BY <1>1 DEF StageInv, Menued
<1>4. Switch!AbortIsClean' /\ Switch!WarningsComplete'
  BY <1>1 DEF Switch!AbortIsClean, Switch!WarningsComplete
<1>5. Switch!ChoicesApplied'
  <2> SUFFICES ASSUME NEW k \in 1 .. nth - 1
               PROVE  /\ targets[k] \notin outside /\ Switch!Plain(targets[k], picked[k]) =>
                           (Switch!Read(targets[k]))' = picked[k]
                      /\ (IF targets[k] = "default" THEN conf.state \in {"bare", "ok"}
                          ELSE Switch!Read(targets[k]) # None)'
    BY DEF Switch!ChoicesApplied, Switch!Plain
  <2>1. /\ targets[k] \notin outside /\ Switch!Plain(targets[k], picked[k]) => Switch!Read(targets[k]) = picked[k]
        /\ IF targets[k] = "default" THEN conf.state \in {"bare", "ok"} ELSE Switch!Read(targets[k]) # None
    BY <1>1 DEF SwitchInv, Switch!ChoicesApplied, MenuInv
  <2> QED
    BY <2>1
<1> QED
  BY <1>2, <1>3, <1>4, <1>5 DEF SwitchInv

\* The next choice is written, or found to stand already, or its write fails.
LEMMA SwitchWrites ==
  ASSUME SwitchConstants, SwitchInv, Switch!WriteChoice
  PROVE  SwitchInv'
<1>1. /\ step = "write" /\ nth <= Len(targets)
      /\ UNCHANGED <<order, targets, reads, picked, filter, cursor, outside, wrong>>
  BY DEF Switch!WriteChoice
<1>2. /\ SwitchTypes /\ MenuInv /\ ReadsInv /\ TargetsInv
      /\ \A k \in 1 .. Len(targets) : targets[k] \in Targeted
  BY <1>1, MenuFacts DEF Menued
<1>3. /\ Len(targets) \in Nat /\ nth \in 1 .. Len(targets) /\ Parses(conf) /\ PinnedInv
      /\ picked \in Seq(Catalogued) /\ Len(picked) = Len(targets)
      /\ conf \in FileTypes /\ pins \in [Pinning -> Values]
  BY <1>1, <1>2 DEF MenuInv, TargetsInv, SwitchTypes
<1>0. PICK t, v : t = targets[nth] /\ v = picked[nth]
  OBVIOUS
<1>4. t \in Targeted /\ v \in Catalogued
  BY <1>2, <1>3, <1>0
<1>5. /\ t = "default" => nth = 1
      /\ t # "default" => t \in Pinning
  <2>1. 1 \in 1 .. Len(targets) /\ targets[1] = "default"
    BY <1>2, <1>3 DEF TargetsInv
  <2> QED
    BY <1>2, <1>3, <1>4, <1>0, <2>1 DEF TargetsInv, Targeted
<1>6. CASE v = Switch!Before /\ nth' = nth + 1 /\ UNCHANGED <<conf, pins, wrote, step, said>>
  <2>1. t \notin outside => Switch!Read(t) = v
    <3>1. CASE order.cmd = "all" /\ nth > 1
      BY <1>0, <1>6, <3>1 DEF Switch!Before
    <3>2. CASE ~(order.cmd = "all" /\ nth > 1)
      <4>0. Len(reads) = IF order.cmd = "all" THEN 1 ELSE Len(targets)
        BY <1>1, <1>2 DEF MenuInv
      <4>1. nth \in 1 .. Len(reads)
        BY <1>3, <3>2, <4>0
      <4>2. v = reads[nth]
        BY <1>0, <1>6, <3>2 DEF Switch!Before
      <4> QED
        BY <1>2, <1>3, <1>0, <4>1, <4>2 DEF ReadsInv
    <3> QED
      BY <3>1, <3>2
  <2>2. \A k \in 1 .. Len(targets) : (Switch!Read(targets[k]))' = Switch!Read(targets[k])
    BY <1>1, <1>6 DEF Switch!Read
  <2>3. \A k \in 1 .. Len(targets) :
          k = nth /\ targets[k] \notin outside /\ Switch!Plain(targets[k], picked[k]) =>
            (Switch!Read(targets[k]))' = picked[k]
    BY <1>0, <2>1, <2>2
  <2>4. /\ conf' \in FileTypes /\ Parses(conf)' /\ pins' \in [Pinning -> Values]
        /\ step' = step /\ said' = said /\ nth' = nth + 1
    BY <1>3, <1>6 DEF Parses
  <2>5. PinnedInv'
    BY <1>1, <1>3, <2>2 DEF PinnedInv
  <2> QED
    BY <1>1, <1>3, <2>2, <2>3, <2>4, <2>5, SwitchApplies
<1>7. CASE Switch!Update(t, v, TRUE) /\ nth' = nth + 1 /\ UNCHANGED <<step, said>>
  <2>1. /\ conf' \in FileTypes /\ Parses(conf)' /\ pins' \in [Pinning -> Values] /\ Spared(t)
        /\ Switch!Plain(t, v) => Switch!Read(t)' = v
        /\ t # "default" => Switch!Read(t)' # None
    <3>1. CASE t = "default"
      <4>1. PICK new \in Switch!Spliced(v) : conf' = new /\ pins' = pins
        BY <1>7, <3>1 DEF Switch!Update, Switch!update_default_model, Switch!Written
      <4>2. conf' \in FileTypes /\ Parses(conf)' /\ (v # "odd" => conf'.default = v)
        BY <1>3, <1>4, <4>1, SplicedFile DEF Parses
      <4>3. Switch!Read("default")' = conf'.default /\ Spared("default")
        BY <4>1, <4>2, DefaultEdited
      <4> QED
        BY <1>3, <3>1, <4>1, <4>2, <4>3 DEF Switch!Plain
    <3>2. CASE t # "default"
      <4>1. PICK w \in Switch!ReadBack(v) : pins' = [pins EXCEPT ![t] = w] /\ conf' = conf
        BY <1>7, <3>2 DEF Switch!Update, Switch!update_agent_model
      <4>2. w \in Present /\ w # None /\ w \in Values /\ (v # "wide" => w = v)
        BY <1>4, ReadBackTypes DEF SwitchConstants, Values
      <4>3. pins' \in [Pinning -> Values] /\ Switch!Read(t)' = w /\ Spared(t)
        BY <1>2, <1>5, <3>2, <4>1, <4>2, AgentEdited
      <4> QED
        BY <1>3, <3>2, <4>1, <4>2, <4>3 DEF Parses, Switch!Plain
    <3> QED
      BY <3>1, <3>2
  <2>2. \A k \in 1 .. Len(targets) :
          k # nth => (Switch!Read(targets[k]))' = Switch!Read(targets[k])
    BY <1>0, <1>1, <1>2, <1>3, <2>1, OthersKept
  <2>4. \A k \in 1 .. Len(targets) : k = nth => (Switch!Read(targets[k]))' = Switch!Read(t)'
    BY <1>0, <1>1 DEF Switch!Read
  <2>3. \A k \in 1 .. Len(targets) :
          k = nth /\ targets[k] \notin outside /\ Switch!Plain(targets[k], picked[k]) =>
            (Switch!Read(targets[k]))' = picked[k]
    BY <1>0, <2>1, <2>4
  <2>5. PinnedInv'
    <3>1. \A k \in 1 .. Len(targets) : targets[k] # "default" => (Switch!Read(targets[k]))' # None
      BY <1>0, <1>3, <2>1, <2>2, <2>4 DEF PinnedInv
    <3> QED
      BY <1>1, <3>1 DEF PinnedInv
  <2> QED
    BY <1>1, <1>3, <1>7, <2>1, <2>2, <2>3, <2>5, SwitchApplies
<1>8. CASE Switch!Update(t, v, FALSE) /\ Switch!End("error") /\ nth' = nth
  <2>1. /\ conf' \in FileTypes /\ pins' \in [Pinning -> Values]
        /\ \A k \in 1 .. nth - 1 : conf' = conf /\ (Switch!Read(targets[k]))' = Switch!Read(targets[k])
    <3>1. CASE t = "default"
      <4> DEFINE parses == conf.line = "one"
      <4>1. PICK new \in Switch!Spliced(v) : Switch!WriteConfig(new, parses, "default") /\ pins' = pins
        BY <1>8, <3>1 DEF Switch!Update, Switch!update_default_model
      <4>2. new \in FileTypes
        BY <1>3, <1>4, SplicedFile
      <4> HIDE DEF parses
      <4>3. conf' \in FileTypes
        BY <1>3, <4>1, <4>2, WriteKeepsShape
      <4>4. 1 .. nth - 1 = {}
        BY <1>5, <3>1
      <4> QED
        BY <1>3, <4>1, <4>3, <4>4
    <3>2. CASE t # "default" /\ pins' = pins /\ conf' = conf
      <4>1. \A k \in 1 .. nth - 1 : (Switch!Read(targets[k]))' = Switch!Read(targets[k])
        BY <1>1, <3>2 DEF Switch!Read
      <4> QED
        BY <1>3, <3>2, <4>1
    <3>3. CASE t # "default" /\ pins' = [pins EXCEPT ![t] = None] /\ conf' = conf
      <4>1. None \in Values /\ t \in Pinning
        BY <1>5, <3>3 DEF Values
      <4>2. pins' \in [Pinning -> Values] /\ Spared(t)
        BY <1>2, <3>3, <4>1, AgentEdited
      <4>3. \A k \in 1 .. Len(targets) :
              k # nth => (Switch!Read(targets[k]))' = Switch!Read(targets[k])
        BY <1>0, <1>1, <1>2, <1>3, <4>2, OthersKept
      <4>4. \A k \in 1 .. nth - 1 : k # nth /\ k \in 1 .. Len(targets)
        BY <1>3
      <4> QED
        BY <1>3, <3>3, <4>2, <4>3, <4>4
    <3>4. t # "default" => conf' = conf /\ (pins' = pins \/ pins' = [pins EXCEPT ![t] = None])
      BY <1>8 DEF Switch!Update, Switch!update_agent_model
    <3> QED
      BY <3>1, <3>2, <3>3, <3>4
  <2> QED
    BY <1>1, <1>3, <1>8, <2>1, SwitchFails
<1>9. \/ v = Switch!Before /\ nth' = nth + 1 /\ UNCHANGED <<conf, pins, wrote, step, said>>
      \/ Switch!Update(t, v, TRUE) /\ nth' = nth + 1 /\ UNCHANGED <<step, said>>
      \/ Switch!Update(t, v, FALSE) /\ Switch!End("error") /\ nth' = nth
  BY <1>0 DEF Switch!WriteChoice
<1> QED
  BY <1>6, <1>7, <1>8, <1>9

\* Somebody else edits one target.
LEMMA SwitchDisturbed ==
  ASSUME SwitchConstants, SwitchInv, Switch!EditOutside
  PROVE  SwitchInv'
<1>1. /\ step \in Menued /\ outside = {}
      /\ UNCHANGED <<order, step, targets, nth, reads, picked, filter, cursor, wrote, wrong, said>>
  BY DEF Switch!EditOutside, Switch!menu, Menued
<1>2. /\ SwitchTypes /\ MenuInv /\ ReadsInv /\ TargetsInv
      /\ \A k \in 1 .. Len(targets) : targets[k] \in Targeted
  BY <1>1, MenuFacts
<1>3. PICK j \in 1 .. Len(targets), v \in Switch!Ids :
        /\ outside' = {targets[j]}
        /\ IF targets[j] = "default" THEN conf' = [conf EXCEPT !.default = v] /\ UNCHANGED pins
           ELSE pins' = [pins EXCEPT ![targets[j]] = v] /\ UNCHANGED conf
  BY DEF Switch!EditOutside
<1>4. v \in Values /\ v # None
  BY IdsCatalogued DEF Values, Present, SwitchConstants
<1>5. Parses(conf) /\ PinnedInv /\ conf \in FileTypes /\ pins \in [Pinning -> Values] /\ Len(targets) \in Nat
  BY <1>2 DEF MenuInv, SwitchTypes, TargetsInv
<1>6. /\ conf' \in FileTypes /\ Parses(conf)' /\ pins' \in [Pinning -> Values] /\ Spared(targets[j])
      /\ targets[j] # "default" => Switch!Read(targets[j])' # None
  <2>1. CASE targets[j] = "default"
    <3>1. conf' = [conf EXCEPT !.default = v] /\ pins' = pins
      BY <1>3, <2>1
    <3>2. conf' \in FileTypes /\ Parses(conf)'
      BY <1>4, <1>5, <3>1, DefaultReplaced DEF Parses
    <3> QED
      BY <1>5, <2>1, <3>1, <3>2, DefaultEdited
  <2>2. CASE targets[j] # "default"
    <3>1. pins' = [pins EXCEPT ![targets[j]] = v] /\ conf' = conf /\ targets[j] \in Pinning
      BY <1>2, <1>3, <2>2 DEF Targeted
    <3>2. PICK a : a = targets[j]
      OBVIOUS
    <3>3. pins' \in [Pinning -> Values] /\ Switch!Read(a)' = v /\ Spared(a)
      BY <1>2, <1>4, <3>1, <3>2, AgentEdited
    <3>4. Switch!Read(targets[j])' = Switch!Read(a)'
      BY <1>1, <3>2 DEF Switch!Read
    <3> QED
      BY <1>4, <1>5, <3>1, <3>2, <3>3, <3>4 DEF Parses
  <2> QED
    BY <2>1, <2>2
<1>7. \A k \in 1 .. Len(targets) : k # j => (Switch!Read(targets[k]))' = Switch!Read(targets[k])
  BY <1>1, <1>2, <1>6, OthersKept
<1>8. SwitchTypes'
  BY <1>1, <1>2, <1>6 DEF SwitchTypes
<1>9. MenuInv'
  <2>1. TargetsInv'
    BY <1>1, <1>2 DEF TargetsInv
  <2>2. PinnedInv'
    <3>1. \A k \in 1 .. Len(targets) : targets[k] # "default" => (Switch!Read(targets[k]))' # None
      BY <1>5, <1>6, <1>7 DEF PinnedInv
    <3> QED
      BY <1>1, <3>1 DEF PinnedInv
  <2> QED
    BY <1>1, <1>2, <1>6, <2>1, <2>2 DEF MenuInv
<1>10. \A k \in 1 .. Len(targets) : targets'[k] \notin outside' => k # j /\ targets[k] \notin outside
  BY <1>1, <1>3
<1>11. ReadsInv'
  <2> SUFFICES ASSUME NEW k \in 1 .. Len(reads), step = "write" => k >= nth, targets'[k] \notin outside'
               PROVE  (Switch!Read(targets[k]))' = reads[k]
    BY <1>1 DEF ReadsInv
  <2>1. k \in 1 .. Len(targets)
    BY <1>1, <1>2, <1>5 DEF MenuInv, Menued
  <2>2. Switch!Read(targets[k]) = reads[k]
    BY <1>2, <1>10, <2>1 DEF ReadsInv
  <2> QED
    BY <1>7, <1>10, <2>1, <2>2
<1>12. ASSUME step = "write"
       PROVE  Switch!ChoicesApplied'
  <2> SUFFICES ASSUME NEW k \in 1 .. nth - 1, targets'[k] \notin outside', Switch!Plain(targets[k], picked[k])
               PROVE  (Switch!Read(targets[k]))' = picked[k]
    <3>1. \A k \in 1 .. nth - 1 : k \in 1 .. Len(targets)
      BY <1>2, <1>5 DEF MenuInv
    <3>2. PinnedInv' /\ Parses(conf)' /\ targets' = targets
      BY <1>1, <1>6, <1>9 DEF MenuInv
    <3>3. \A k \in 1 .. nth - 1 :
            (IF targets[k] = "default" THEN conf.state \in {"bare", "ok"} ELSE Switch!Read(targets[k]) # None)'
      BY <3>1, <3>2, TargetsStand
    <3> QED
      BY <1>1, <3>3 DEF Switch!ChoicesApplied, Switch!Plain
  <2>1. k \in 1 .. Len(targets)
    BY <1>2, <1>5 DEF MenuInv
  <2>2. Switch!Read(targets[k]) = picked[k]
    BY <1>2, <1>10, <1>12, <2>1 DEF SwitchInv, Switch!ChoicesApplied, MenuInv
  <2> QED
    BY <1>7, <1>10, <2>1, <2>2
<1> QED
  BY <1>1, <1>8, <1>9, <1>11, <1>12, MenuSuffices

\* What the switcher promises, for every state a run can reach.
LEMMA SwitchKeeps ==
  ASSUME SwitchConstants, SwitchInv, Switch!Next
  PROVE  SwitchInv'
  BY SwitchPlain, SwitchLimits, SwitchImages, SwitchOpens, SwitchBrowses, SwitchChooses, SwitchAborts,
     SwitchConfirms, SwitchWrites, SwitchFinishes, SwitchDisturbed DEF Switch!Next

\* A step that leaves the switcher alone keeps what holds of it.
LEMMA SwitchStutters ==
  ASSUME SwitchInv, UNCHANGED switchVars
  PROVE  SwitchInv'
<1>1. /\ order' = order /\ conf' = conf /\ pins' = pins /\ step' = step /\ targets' = targets
      /\ nth' = nth /\ reads' = reads /\ picked' = picked /\ cursor' = cursor
      /\ wrote' = wrote /\ outside' = outside /\ wrong' = wrong /\ said' = said
  BY DEF switchVars
<1>2. SwitchTypes'
  BY <1>1 DEF SwitchInv, SwitchTypes
<1>3. StageInv'
  BY <1>1 DEF SwitchInv, StageInv, MenuInv, TargetsInv, PinnedInv, Parses, ReadsInv, Switch!Read, Switch!LimitsApplied,
     Switch!WantedContext, Switch!WantedInput
<1>4. Switch!AbortIsClean' /\ Switch!ChoicesApplied'
  BY <1>1 DEF SwitchInv, Switch!AbortIsClean, Switch!ChoicesApplied, Switch!Plain, Switch!Read
<1>5. Switch!WarningsComplete'
  BY <1>1 DEF SwitchInv, Switch!WarningsComplete, Switch!LimitsApplied, Switch!ImageApplied,
     Switch!WantedContext, Switch!WantedInput
<1> QED
  BY <1>2, <1>3, <1>4, <1>5 DEF SwitchInv

\* model-switcher (main.rs, config.rs): a run that says it was aborted, or that it changed
\* nothing, has written nothing; every target it is past holds what was chosen for it,
\* unless somebody else changed it meanwhile or the id is one the file would have to
\* escape or the reader trims, and then the file still parses or pins some model; and the models a command names in its
\* warnings are exactly those whose entries are not as it asked, whatever the file held,
\* whichever write failed and however long the user browsed.
THEOREM SwitcherIsHonest ==
  ASSUME SwitchConstants
  PROVE  Spec => []SwitchIsHonest
<1> DEFINE Inv == part = "switch" => SwitchInv
<1>1. Init => Inv
  BY SwitchStarts DEF Init
<1>2. Inv /\ [Next]_vars => Inv'
  <2> SUFFICES ASSUME Inv, [Next]_vars, part' = "switch"
               PROVE  SwitchInv'
    OBVIOUS
  <2>1. part = "switch" /\ SwitchInv
    BY DEF Next, vars
  <2>2. Switch!Next \/ UNCHANGED switchVars
    BY <2>1 DEF Next, vars
  <2> QED
    BY <2>1, <2>2, SwitchKeeps, SwitchStutters
<1>3. Inv => SwitchIsHonest
  BY DEF SwitchInv, SwitchIsHonest
<1> QED
  BY <1>1, <1>2, <1>3, PTL DEF Spec

---------------------------------------------------------------------------
(* Startup.                                                                *)

\* An absent key is no table, and the limit on timeouts allows the default one.
StartConstants ==
  /\ MAX_TIMEOUT_SECONDS \in Nat /\ MAX_TIMEOUT_SECONDS >= 1
  /\ \A f, D : None # [x \in D |-> f[x]]

\* The stages from one on.
Bound == {"bind", "serving"}
Probed == {"balance", "state"} \cup Bound
Gated == {"preflight"} \cup Probed
Validated == {"validated"} \cup Gated
Merged == {"merged"} \cup Validated
Loaded == {"loaded"} \cup Merged

\* The keys the program reads or overrides are there.
GroupShape(g) ==
  /\ {"nodes", "mappings", "failure_cooldown_secs"} \subseteq DOMAIN g
  /\ \A i \in DOMAIN g.nodes : /\ {"url", "timeout_seconds", "model"} \subseteq DOMAIN g.nodes[i]
                               /\ g.nodes[i].timeout_seconds \in Nat
Shaped(c) ==
  /\ DOMAIN c = {"server", "backend", "backends", "fixes", "stats", "influxdb", "streaming", "synthesis",
                 "augment_backend", "reprompt", "dump"}
  /\ {"port", "host"} \subseteq DOMAIN c.server
  /\ c.backend # None => /\ {"url", "timeout_seconds"} \subseteq DOMAIN c.backend
                         /\ c.backend.timeout_seconds \in Nat
  /\ c.backends # None => \A g \in DOMAIN c.backends : GroupShape(c.backends[g])

\* What the loader has seen to and nothing overrides.
SafeGroup(g) ==
  /\ g.failure_cooldown_secs <= MAX_FAILURE_COOLDOWN_SECS
  /\ \A i \in DOMAIN g.nodes : /\ Start!validate_http_url(g.nodes[i].url)
                               /\ g.nodes[i].timeout_seconds \in 1 .. MAX_TIMEOUT_SECONDS
Safe(c) ==
  /\ Start!validate_bind_host(c.server.host)
  /\ c.reprompt # None => c.reprompt.max_total_ms <= MAX_REPROMPT_TOTAL_MS
  /\ c.influxdb.enabled => Start!validate_http_url(c.influxdb.url)
  /\ c.backends = None /\ c.backend # None => c.backend.timeout_seconds \in 1 .. MAX_TIMEOUT_SECONDS
  /\ c.backends # None => /\ \A g \in DOMAIN c.backends : SafeGroup(c.backends[g])
                          /\ ~Start!MappedTwice(c.backends)

\* What a probe has learnt of its own server, and of no other.
ProbeInv(n) ==
  /\ {"at", "auto_model", "window"} \subseteq DOMAIN probe[n]
  /\ probe[n].at \in {"fetch", "props", "done", "skipped"}
  /\ probe[n].auto_model =
       IF probe[n].at \in {"fetch", "skipped"} THEN None
       ELSE Start!AutoModel(n, world[Start!NodeAt(settings, n).url.host])

StartInv ==
  /\ found.kind \in {"missing", "unreadable", "malformed", "parsed"}
  /\ found.kind = "parsed" => Shaped(found.config)
  /\ why # "host"
  /\ boot \in Loaded => found.kind = "parsed" /\ Shaped(settings) /\ Safe(settings)
  /\ boot \in Loaded \ Probed => settings.backends = found.config.backends
  /\ boot \in Merged => displayed = Start!render_config_summary(settings)
  /\ boot \in Validated => /\ settings.server.port # 0
                           /\ settings.backend # None => Start!validate_http_url(settings.backend.url)
  /\ boot \in Gated /\ settings.influxdb.enabled => exporters # {}
  /\ boot = "preflight" => DOMAIN probe = Start!NodeIds(settings) /\ \A n \in DOMAIN probe : ProbeInv(n)
  /\ Start!ModelsAsDiscovered

\* Groups of nodes of the kinds the model draws from have the keys that are read.
GroupsShape(B) == \A g \in DOMAIN B : GroupShape(B[g])

\* A group of one or two nodes.
LEMMA GroupMade ==
  ASSUME NEW mappings, NEW h, NEW m, NEW k, NEW n
  PROVE  /\ GroupShape(Start!Group(mappings, <<Start!Node(h, m)>>))
         /\ GroupShape(Start!Group(mappings, <<Start!Node(h, m), Start!Node(k, n)>>))
<1>1. ASSUME NEW nodes, \A i \in DOMAIN nodes : \E x, y : nodes[i] = Start!Node(x, y)
      PROVE  GroupShape(Start!Group(mappings, nodes))
  <2>1. \A x, y : /\ {"url", "timeout_seconds", "model"} \subseteq DOMAIN Start!Node(x, y)
                  /\ Start!Node(x, y).timeout_seconds \in Nat
    BY DEF Start!Node, Start!default_timeout
  <2>2. /\ {"nodes", "mappings", "failure_cooldown_secs"} \subseteq DOMAIN Start!Group(mappings, nodes)
        /\ Start!Group(mappings, nodes).nodes = nodes
    BY DEF Start!Group
  <2> QED
    BY <1>1, <2>1, <2>2 DEF GroupShape
<1> DEFINE a == Start!Node(h, m)
           b == Start!Node(k, n)
<1>2. \A i \in DOMAIN <<a>> : <<a>>[i] = a
  OBVIOUS
<1>3. \A i \in DOMAIN <<a, b>> : <<a, b>>[i] = a \/ <<a, b>>[i] = b
  OBVIOUS
<1> QED
  BY <1>1, <1>2, <1>3

\* A group with one of its settings varied.
LEMMA GroupVaried ==
  ASSUME MAX_TIMEOUT_SECONDS \in Nat, NEW g \in Start!BackendGroupConfig
  PROVE  GroupShape(g)
<1> DEFINE sane == Start!Group(<<Start!Model>>, <<Start!Node("east", None)>>)
<1>1. GroupShape(sane)
  BY GroupMade
<1>2. DOMAIN sane = {"mappings", "strategy", "failure_cooldown_secs", "exclusive", "nodes"}
  BY DEF Start!Group
<1>3. \/ \E s : g = [sane EXCEPT !.strategy = s]
      \/ \E n : g = [sane EXCEPT !.failure_cooldown_secs = n]
      \/ g = [sane EXCEPT !.nodes = <<>>]
      \/ \E n \in Start!BackendNodeConfig : g = [sane EXCEPT !.nodes = <<n>>]
  BY DEF Start!BackendGroupConfig
<1> HIDE DEF sane
<1>4. ASSUME NEW s, g = [sane EXCEPT !.strategy = s]
      PROVE  GroupShape(g)
  <2>1. DOMAIN g = DOMAIN sane /\ g.nodes = sane.nodes
    BY <1>2, <1>4
  <2> QED
    BY <1>1, <2>1 DEF GroupShape
<1>5. ASSUME NEW s, g = [sane EXCEPT !.failure_cooldown_secs = s]
      PROVE  GroupShape(g)
  <2>1. DOMAIN g = DOMAIN sane /\ g.nodes = sane.nodes
    BY <1>2, <1>5
  <2> QED
    BY <1>1, <2>1 DEF GroupShape
<1>6. ASSUME g = [sane EXCEPT !.nodes = <<>>]
      PROVE  GroupShape(g)
  <2>1. DOMAIN g = DOMAIN sane /\ g.nodes = <<>>
    BY <1>2, <1>6
  <2> QED
    BY <1>2, <2>1 DEF GroupShape
<1>7. ASSUME NEW n \in Start!BackendNodeConfig, g = [sane EXCEPT !.nodes = <<n>>]
      PROVE  GroupShape(g)
  <2>1. DOMAIN g = DOMAIN sane /\ g.nodes = <<n>>
    BY <1>2, <1>7
  <2>2. {"url", "timeout_seconds", "model"} \subseteq DOMAIN n /\ n.timeout_seconds \in Nat
    BY DEF Start!BackendNodeConfig, Start!Around
  <2>3. \A i \in DOMAIN <<n>> : <<n>>[i] = n
    OBVIOUS
  <2> QED
    BY <1>2, <2>1, <2>2, <2>3 DEF GroupShape
<1> QED
  BY <1>3, <1>4, <1>5, <1>6, <1>7

\* All the groups.
LEMMA GroupsMade ==
  ASSUME MAX_TIMEOUT_SECONDS \in Nat, NEW B \in Start!BackendsConfig \cup Start!Topologies
  PROVE  GroupsShape(B)
<1>1. ASSUME B = <<>>
      PROVE  GroupsShape(B)
  BY <1>1 DEF GroupsShape
<1>2. ASSUME NEW g \in Start!BackendGroupConfig, B = [g1 |-> g]
      PROVE  GroupsShape(B)
  <2>1. DOMAIN B = {"g1"} /\ B["g1"] = g
    BY <1>2
  <2> QED
    BY <2>1, GroupVaried DEF GroupsShape
<1>3. ASSUME NEW a, NEW b, GroupShape(a), GroupShape(b), B = [g1 |-> a, g2 |-> b]
      PROVE  GroupsShape(B)
  <2>1. DOMAIN B = {"g1", "g2"} /\ B["g1"] = a /\ B["g2"] = b
    BY <1>3
  <2> QED
    BY <1>3, <2>1 DEF GroupsShape
<1>4. ASSUME B \in Start!BackendsConfig
      PROVE  GroupsShape(B)
  <2>1. \/ B = <<>>
        \/ \E g \in Start!BackendGroupConfig : B = [g1 |-> g]
        \/ \E a, b : B = [g1 |-> Start!Group(a, <<Start!Node("east", None)>>),
                          g2 |-> Start!Group(b, <<Start!Node("east", None)>>)]
    BY <1>4 DEF Start!BackendsConfig
  <2> QED
    BY <1>1, <1>2, <1>3, <2>1, GroupMade
<1>5. ASSUME B \in Start!Topologies
      PROVE  GroupsShape(B)
  <2>1. PICK h, m, n, k : B = Start!Topology(h, m, n, k)
    BY <1>5 DEF Start!Topologies
  <2>2. /\ GroupShape(Start!Group(<<>>, <<Start!Node("east", m), Start!Node(h, n)>>))
        /\ GroupShape(Start!Group(<<Start!Other>>, <<Start!Node("west", k)>>))
    BY GroupMade
  <2> QED
    BY <1>3, <2>1, <2>2 DEF Start!Topology
<1> QED
  BY <1>4, <1>5

Keys == {"server", "backend", "backends", "fixes", "stats", "influxdb", "streaming", "synthesis",
         "augment_backend", "reprompt", "dump"}

\* The default configuration.
LEMMA SaneShaped ==
  /\ DOMAIN Start!Sane = Keys /\ {"port", "host"} \subseteq DOMAIN Start!Sane.server
  /\ Start!Sane.backend = None /\ Start!Sane.backends = None
  BY DEF Start!Sane, Start!SaneServer, Keys

\* One section of a sound configuration takes other values.
LEMMA SectionVaried ==
  ASSUME NEW c, NEW d, Shaped(c), DOMAIN d = DOMAIN c,
         d.server = c.server \/ {"port", "host"} \subseteq DOMAIN d.server,
         \/ d.backend = c.backend
         \/ {"url", "timeout_seconds"} \subseteq DOMAIN d.backend /\ d.backend.timeout_seconds \in Nat,
         d.backends = c.backends \/ GroupsShape(d.backends)
  PROVE  Shaped(d)
<1>1. DOMAIN d = Keys
  BY DEF Shaped, Keys
<1>2. {"port", "host"} \subseteq DOMAIN d.server
  BY DEF Shaped
<1>3. d.backend # None => /\ {"url", "timeout_seconds"} \subseteq DOMAIN d.backend
                          /\ d.backend.timeout_seconds \in Nat
  BY DEF Shaped
<1>4. d.backends # None => \A g \in DOMAIN d.backends : GroupShape(d.backends[g])
  BY DEF Shaped, GroupsShape
<1> QED
  BY <1>1, <1>2, <1>3, <1>4 DEF Shaped, Keys

\* Every configuration the model draws from has the keys the program reads.
LEMMA ConfigShaped ==
  ASSUME MAX_TIMEOUT_SECONDS \in Nat, NEW c \in Start!AppConfig
  PROVE  Shaped(c)
<1> DEFINE s == Start!Sane
           one == Start!OneGroup
<1>1. /\ Shaped(s) /\ DOMAIN s = Keys
  BY SaneShaped DEF Shaped, Keys
<1>2. GroupsShape(one)
  <2>1. DOMAIN one = {"g1"} /\ one["g1"] = Start!Group(<<>>, <<Start!Node("east", None)>>)
    BY DEF Start!OneGroup
  <2> HIDE DEF one
  <2> QED
    BY <2>1, GroupMade DEF GroupsShape
<1>3. \A b \in Start!BackendConfig : /\ {"url", "timeout_seconds"} \subseteq DOMAIN b
                                     /\ b.timeout_seconds \in Nat
  BY DEF Start!BackendConfig, Start!Around
<1>4. \A x \in Start!ServerConfig : {"port", "host"} \subseteq DOMAIN x
  BY DEF Start!ServerConfig
<1> DEFINE servers == {[s EXCEPT !.server = x] : x \in Start!ServerConfig}
           backends == {[s EXCEPT !.backend = x] : x \in Start!BackendConfig}
           tables == {[s EXCEPT !.backends = x] : x \in Start!BackendsConfig \cup Start!Topologies}
           both == {[s EXCEPT !.backends = one, !.backend = x] : x \in Start!BackendConfig}
           fixes == {[s EXCEPT !.fixes = x] : x \in Start!FixesConfig}
           stats == {[s EXCEPT !.stats = x] : x \in Start!StatsConfig}
           syntheses == {[s EXCEPT !.synthesis = x] : x \in Start!SynthesisConfig}
           augments == {[s EXCEPT !.augment_backend = x] : x \in Start!AugmentBackendConfig}
           influxes == {[s EXCEPT !.influxdb = x] : x \in Start!InfluxDbConfig}
           dumps == {[s EXCEPT !.dump = x] : x \in Start!DumpConfig}
<1>4a. Start!AppConfig = servers \cup backends \cup tables \cup both \cup fixes \cup stats \cup syntheses
             \cup augments \cup Start!Reprompting \cup influxes \cup dumps
  BY Zenon DEF Start!AppConfig
<1> HIDE DEF s, one
<1>6. ASSUME NEW x \in Start!ServerConfig, c = [s EXCEPT !.server = x]
      PROVE  Shaped(c)
  <2>1. DOMAIN c = DOMAIN s /\ c.server = x /\ c.backend = s.backend /\ c.backends = s.backends
    BY <1>1, <1>6 DEF Keys
  <2> QED
    BY <1>1, <1>4, <2>1, SectionVaried
<1>7. ASSUME NEW x \in Start!BackendConfig, c = [s EXCEPT !.backend = x]
      PROVE  Shaped(c)
  <2>1. DOMAIN c = DOMAIN s /\ c.server = s.server /\ c.backend = x /\ c.backends = s.backends
    BY <1>1, <1>7 DEF Keys
  <2> QED
    BY <1>1, <1>3, <2>1, SectionVaried
<1>8. ASSUME NEW x \in Start!BackendsConfig \cup Start!Topologies, c = [s EXCEPT !.backends = x]
      PROVE  Shaped(c)
  <2>1. DOMAIN c = DOMAIN s /\ c.server = s.server /\ c.backend = s.backend /\ c.backends = x
    BY <1>1, <1>8 DEF Keys
  <2>2. GroupsShape(x)
    BY GroupsMade
  <2> QED
    BY <1>1, <2>1, <2>2, SectionVaried
<1>9. ASSUME NEW x \in Start!BackendConfig, c = [s EXCEPT !.backends = one, !.backend = x]
      PROVE  Shaped(c)
  <2>1. DOMAIN c = DOMAIN s /\ c.server = s.server /\ c.backend = x /\ c.backends = one
    BY <1>1, <1>9 DEF Keys
  <2> QED
    BY <1>1, <1>2, <1>3, <2>1, SectionVaried
<1>10. ASSUME NEW x, NEW y,
              \/ c = [s EXCEPT !.fixes = x] \/ c = [s EXCEPT !.stats = x] \/ c = [s EXCEPT !.synthesis = x]
              \/ c = [s EXCEPT !.augment_backend = x] \/ c = [s EXCEPT !.reprompt = x, !.streaming = y]
              \/ c = [s EXCEPT !.influxdb = x] \/ c = [s EXCEPT !.dump = x]
      PROVE  Shaped(c)
  <2>1. DOMAIN c = DOMAIN s /\ c.server = s.server /\ c.backend = s.backend /\ c.backends = s.backends
    BY <1>1, <1>10 DEF Keys
  <2> QED
    BY <1>1, <2>1, SectionVaried
<1>11. /\ c \in servers => Shaped(c)
       /\ c \in backends => Shaped(c)
       /\ c \in tables => Shaped(c)
       /\ c \in both => Shaped(c)
  BY <1>6, <1>7, <1>8, <1>9
<1>12. /\ c \in fixes => Shaped(c)
       /\ c \in stats => Shaped(c)
       /\ c \in syntheses => Shaped(c)
       /\ c \in augments => Shaped(c)
  BY <1>10
<1>14. c \in Start!Reprompting => Shaped(c)
  <2>1. c \in Start!Reprompting => \E x, y : c = Start!WithReprompt(x, y)
    BY DEF Start!Reprompting
  <2>2. \A x, y : Start!WithReprompt(x, y) = [s EXCEPT !.reprompt = x, !.streaming = y]
    BY DEF Start!WithReprompt, s
  <2> QED
    BY <1>10, <2>1, <2>2
<1>13. /\ c \in influxes => Shaped(c)
       /\ c \in dumps => Shaped(c)
  BY <1>10
<1> HIDE DEF servers, backends, tables, both, fixes, stats, syntheses, augments, influxes, dumps
<1> QED
  BY <1>4a, <1>11, <1>12, <1>13, <1>14

\* The program starts with nothing loaded.
LEMMA StartStarts ==
  ASSUME StartConstants, Start!Init
  PROVE  StartInv
<1>0. MAX_TIMEOUT_SECONDS \in Nat
  BY DEF StartConstants
<1>1. boot = "start" /\ why = "running"
  BY DEF Start!Init
<1>2. /\ found.kind \in {"missing", "unreadable", "malformed", "parsed"}
      /\ found.kind = "parsed" => Shaped(found.config)
  <2> DEFINE s == Start!Sane
             one == Start!OneGroup
             some == {s, [s EXCEPT !.backend = Start!DefaultBackend], [s EXCEPT !.backends = one]}
             more == {[s EXCEPT !.backends = t] : t \in Start!Topologies}
  <2>1. \/ found \in {[kind |-> k] : k \in {"missing", "unreadable", "malformed"}}
        \/ found \in {[kind |-> "parsed", config |-> c] : c \in Start!AppConfig}
        \/ found \in {[kind |-> "parsed", config |-> c] : c \in some}
        \/ found \in {[kind |-> "parsed", config |-> [s EXCEPT !.backends = t]] : t \in Start!Topologies}
    BY Zenon DEF Start!Init
  <2>2. CASE found \in {[kind |-> k] : k \in {"missing", "unreadable", "malformed"}}
    BY <2>2
  <2>3. CASE found \in {[kind |-> "parsed", config |-> c] : c \in Start!AppConfig}
    BY <1>0, <2>3, ConfigShaped
  <2>4. Shaped(s) /\ DOMAIN s = Keys
    BY SaneShaped DEF Shaped, Keys
  <2>5. CASE found \in {[kind |-> "parsed", config |-> [s EXCEPT !.backends = t]] : t \in Start!Topologies}
    <3> HIDE DEF s
    <3>1. PICK t \in Start!Topologies : found = [kind |-> "parsed", config |-> [s EXCEPT !.backends = t]]
      BY <2>5
    <3> DEFINE d == [s EXCEPT !.backends = t]
    <3>2. DOMAIN d = DOMAIN s /\ d.server = s.server /\ d.backend = s.backend /\ d.backends = t
      BY <2>4 DEF Keys
    <3>3. GroupsShape(t)
      BY <1>0, GroupsMade
    <3>4. found.kind = "parsed" /\ found.config = d
      BY <3>1
    <3> HIDE DEF d
    <3>5. Shaped(d)
      BY <2>4, <3>2, <3>3, SectionVaried
    <3> QED
      BY <3>4, <3>5
  <2>6. CASE found \in {[kind |-> "parsed", config |-> c] : c \in some}
    <3>1. GroupsShape(one)
      <4>1. DOMAIN one = {"g1"} /\ one["g1"] = Start!Group(<<>>, <<Start!Node("east", None)>>)
        BY DEF Start!OneGroup
      <4> HIDE DEF one
      <4> QED
        BY <4>1, GroupMade DEF GroupsShape
    <3>2. /\ {"url", "timeout_seconds"} \subseteq DOMAIN Start!DefaultBackend
          /\ Start!DefaultBackend.timeout_seconds \in Nat
      BY DEF Start!DefaultBackend, Start!default_timeout
    <3> HIDE DEF one, s
    <3>3. ASSUME NEW d, d = [s EXCEPT !.backend = Start!DefaultBackend]
          PROVE  Shaped(d)
      <4>1. /\ DOMAIN d = DOMAIN s /\ d.server = s.server /\ d.backend = Start!DefaultBackend
            /\ d.backends = s.backends
        BY <2>4, <3>3 DEF Keys
      <4> QED
        BY <2>4, <3>2, <4>1, SectionVaried
    <3>4. ASSUME NEW d, d = [s EXCEPT !.backends = one]
          PROVE  Shaped(d)
      <4>1. DOMAIN d = DOMAIN s /\ d.server = s.server /\ d.backend = s.backend /\ d.backends = one
        BY <2>4, <3>4 DEF Keys
      <4> QED
        BY <2>4, <3>1, <4>1, SectionVaried
    <3>5. PICK c \in some : found = [kind |-> "parsed", config |-> c]
      BY <2>6
    <3>6. Shaped(c)
      BY <2>4, <3>3, <3>4
    <3>7. found.kind = "parsed" /\ found.config = c
      BY <3>5
    <3> QED
      BY <3>6, <3>7
  <2> QED
    BY <2>1, <2>2, <2>3, <2>5, <2>6
<1>3. Start!ModelsAsDiscovered
  BY <1>1 DEF Start!ModelsAsDiscovered
<1> QED
  BY <1>1, <1>2, <1>3 DEF StartInv, Loaded, Merged, Validated, Gated, Probed, Bound

\* A run that has ended, or only tests its backends, promises nothing.
LEMMA StartEnds ==
  ASSUME StartInv, found' = found, boot' \in {"exited", "testing"}, why' # "host"
  PROVE  StartInv'
<1>1. Start!ModelsAsDiscovered'
  BY DEF Start!ModelsAsDiscovered
<1> QED
  BY <1>1 DEF StartInv, Loaded, Merged, Validated, Gated, Probed, Bound

\* What the loader lets pass is safe.
LEMMA LoaderChecks ==
  ASSUME StartConstants, NEW f, f.kind \in {"missing", "unreadable", "malformed", "parsed"},
         f.kind = "parsed" => Shaped(f.config), Start!load_config(f) = "Ok"
  PROVE  f.kind = "parsed" /\ Safe(f.config)
<1> DEFINE c == f.config
<1>1. f.kind = "parsed"
  BY DEF Start!load_config
<1>2. /\ Start!validate_server_config(c.server) /\ Start!validate_reprompt(c.reprompt)
      /\ Start!validate_backends(c)
      /\ c.influxdb.enabled => Start!validate_http_url(c.influxdb.url)
  BY <1>1 DEF Start!load_config
<1>3. Shaped(c) /\ MAX_TIMEOUT_SECONDS \in Nat
  BY <1>1 DEF StartConstants
<1> HIDE DEF c
<1>4. Start!validate_bind_host(c.server.host)
  BY <1>2 DEF Start!validate_server_config
<1>5. c.reprompt # None => c.reprompt.max_total_ms <= MAX_REPROMPT_TOTAL_MS
  BY <1>2 DEF Start!validate_reprompt, Start!reject_over
<1>6. c.backends = None /\ c.backend # None => c.backend.timeout_seconds \in 1 .. MAX_TIMEOUT_SECONDS
  BY <1>2, <1>3 DEF Start!validate_backends, Start!validate_backend_config, Start!reject_over, Shaped
<1>7. ASSUME c.backends # None
      PROVE  ~Start!MappedTwice(c.backends) /\ \A g \in DOMAIN c.backends : SafeGroup(c.backends[g])
  <2>1. ~Start!MappedTwice(c.backends) /\ \A g \in DOMAIN c.backends : Start!ValidGroup(c.backends[g])
    BY <1>2, <1>7 DEF Start!validate_backends
  <2>2. \A g \in DOMAIN c.backends : GroupShape(c.backends[g])
    BY <1>3, <1>7 DEF Shaped
  <2>3. ASSUME NEW g, GroupShape(g), Start!ValidGroup(g)
        PROVE  SafeGroup(g)
    BY <1>3, <2>3 DEF GroupShape, Start!ValidGroup, SafeGroup, Start!reject_over
  <2> QED
    BY <2>1, <2>2, <2>3
<1>8. Safe(c)
  BY <1>2, <1>4, <1>5, <1>6, <1>7 DEF Safe
<1> QED
  BY <1>1, <1>8 DEF c

\* The configuration is loaded.
LEMMA StartLoads ==
  ASSUME StartConstants, StartInv, Start!Load
  PROVE  StartInv'
<1>1. boot = "start" /\ found' = found /\ why # "host"
  BY DEF Start!Load, Start!inputVars, StartInv
<1>2. Start!load_config(found) # "host"
  BY DEF Start!load_config
<1>3. \/ boot' \in {"exited", "testing"} /\ why' # "host"
      \/ boot' = "loaded" /\ why' = why /\ settings' = found.config /\ Start!load_config(found) = "Ok"
  <2>1. CASE cmd = "list-fixes" /\ found.kind = "missing"
    BY <1>1, <2>1 DEF Start!Load, Start!Exit
  <2>2. CASE ~(cmd = "list-fixes" /\ found.kind = "missing") /\ Start!load_config(found) # "Ok"
    BY <1>1, <1>2, <2>2 DEF Start!Load, Start!Exit
  <2>3. CASE ~(cmd = "list-fixes" /\ found.kind = "missing") /\ Start!load_config(found) = "Ok"
    <3> DEFINE c == found.config
    <3>1. /\ settings' = c
          /\ CASE cmd = "list-fixes" -> Start!Exit("listed") /\ displayed' = Start!fix_module_states(c.fixes) /\ UNCHANGED testing
               [] cmd = "check-config" -> Start!Exit("valid") /\ displayed' = Start!render_config_summary(c) /\ UNCHANGED testing
               [] cmd = "test-backend" -> /\ boot' = "testing" /\ UNCHANGED <<why, displayed>>
                                          /\ testing' = [testing EXCEPT !.left = Start!NodeIds(c)]
               [] OTHER -> boot' = "loaded" /\ UNCHANGED <<why, displayed, testing>>
      BY <2>3 DEF Start!Load
    <3> HIDE DEF c
    <3>2. CASE cmd = "list-fixes"
      BY <3>1, <3>2 DEF Start!Exit
    <3>3. CASE cmd = "check-config"
      BY <3>1, <3>3 DEF Start!Exit
    <3>4. CASE cmd = "test-backend"
      BY <1>1, <3>1, <3>4
    <3>5. CASE cmd \notin {"list-fixes", "check-config", "test-backend"}
      <4>1. boot' = "loaded" /\ why' = why
        BY <3>1, <3>5
      <4> QED
        BY <2>3, <3>1, <4>1 DEF c
    <3> QED
      BY <3>2, <3>3, <3>4, <3>5
  <2> QED
    BY <2>1, <2>2, <2>3
<1>4. CASE boot' \in {"exited", "testing"} /\ why' # "host"
  BY <1>1, <1>4, StartEnds
<1>5. CASE boot' = "loaded" /\ why' = why /\ settings' = found.config /\ Start!load_config(found) = "Ok"
  <2>1. found.kind = "parsed" /\ Safe(found.config)
    BY LoaderChecks, <1>5 DEF StartInv
  <2>2. Shaped(found.config)
    BY <2>1 DEF StartInv
  <2>3. Start!ModelsAsDiscovered'
    BY <1>5 DEF Start!ModelsAsDiscovered
  <2>4. Shaped(settings)' /\ Safe(settings)'
    BY <1>5, <2>1, <2>2 DEF Shaped, Safe, Start!validate_bind_host, Start!validate_http_url
  <2> QED
    BY <1>1, <1>5, <2>1, <2>2, <2>3, <2>4 DEF StartInv, Loaded, Merged, Validated, Gated, Probed, Bound
<1> QED
  BY <1>3, <1>4, <1>5

\* What is printed of a configuration does not depend on its dump.
LEMMA SameSummary ==
  ASSUME NEW c, NEW d, d.server = c.server, d.backend = c.backend, d.backends = c.backends,
         d.fixes = c.fixes, d.streaming = c.streaming, d.reprompt = c.reprompt, d.influxdb = c.influxdb
  PROVE  Start!render_config_summary(d) = Start!render_config_summary(c)
<1>1. Start!NodeIds(d) = Start!NodeIds(c) /\ \A n : Start!NodeAt(d, n) = Start!NodeAt(c, n)
  BY DEF Start!NodeIds, Start!NodeAt
<1>2. Start!gives_up(d) = Start!gives_up(c)
  BY DEF Start!gives_up
<1>3. {<<n, Start!NodeAt(d, n).url>> : n \in Start!NodeIds(d)} = {<<n, Start!NodeAt(c, n).url>> : n \in Start!NodeIds(c)}
  BY <1>1
<1> QED
  BY <1>2, <1>3 DEF Start!render_config_summary

\* A configuration that differs in what is not checked is as safe.
LEMMA SafeTransfers ==
  ASSUME NEW c, NEW d, Shaped(c), Safe(c), DOMAIN d = DOMAIN c,
         {"port", "host"} \subseteq DOMAIN d.server, d.server.host = c.server.host,
         d.backends = c.backends, d.reprompt = c.reprompt, d.influxdb = c.influxdb,
         \/ d.backend = c.backend
         \/ /\ {"url", "timeout_seconds"} \subseteq DOMAIN d.backend
            /\ d.backend.timeout_seconds \in Nat
            /\ c.backends = None => d.backend.timeout_seconds \in 1 .. MAX_TIMEOUT_SECONDS
  PROVE  Shaped(d) /\ Safe(d)
<1>1. Shaped(d)
  BY SectionVaried
<1>2. Safe(d)
  BY DEF Safe
<1> QED
  BY <1>1, <1>2

\* --backend-url.
LEMMA UrlOverridden ==
  ASSUME StartConstants, NEW c, NEW url, NEW d, Shaped(c), Safe(c), d = Start!WithBackendUrl(c, url)
  PROVE  /\ DOMAIN d = DOMAIN c /\ d.server = c.server /\ d.backends = c.backends
         /\ d.reprompt = c.reprompt /\ d.influxdb = c.influxdb /\ d.fixes = c.fixes
         /\ \/ d.backend = c.backend
            \/ /\ {"url", "timeout_seconds"} \subseteq DOMAIN d.backend
               /\ d.backend.timeout_seconds \in Nat
               /\ c.backends = None => d.backend.timeout_seconds \in 1 .. MAX_TIMEOUT_SECONDS
<1>1. DOMAIN c = Keys
  BY DEF Shaped, Keys
<1>2. CASE url = None \/ c.backends # None
  <2>1. d = c
    BY <1>2 DEF Start!WithBackendUrl
  <2> QED
    BY <2>1
<1>3. CASE ~(url = None \/ c.backends # None) /\ c.backend # None
  <2> DEFINE b == [c.backend EXCEPT !.url = url]
  <2>1. d = [c EXCEPT !.backend = b]
    BY <1>1, <1>3 DEF Start!WithBackendUrl, Keys
  <2>2. /\ {"url", "timeout_seconds"} \subseteq DOMAIN b
        /\ b.timeout_seconds = c.backend.timeout_seconds /\ b.timeout_seconds \in Nat
    BY <1>3 DEF Shaped
  <2>3. c.backends = None => b.timeout_seconds \in 1 .. MAX_TIMEOUT_SECONDS
    BY <1>3, <2>2 DEF Safe
  <2> HIDE DEF b
  <2>4. /\ DOMAIN d = DOMAIN c /\ d.server = c.server /\ d.backends = c.backends
        /\ d.reprompt = c.reprompt /\ d.influxdb = c.influxdb /\ d.fixes = c.fixes /\ d.backend = b
    BY <1>1, <2>1 DEF Keys
  <2> QED
    BY <2>2, <2>3, <2>4
<1>4. CASE ~(url = None \/ c.backends # None) /\ ~(c.backend # None)
  <2> DEFINE b == [Start!DefaultBackend EXCEPT !.url = url]
  <2>1. d = [c EXCEPT !.backend = b]
    BY <1>4 DEF Start!WithBackendUrl
  <2>2. {"url", "timeout_seconds"} \subseteq DOMAIN b /\ b.timeout_seconds = 1
    BY DEF Start!DefaultBackend, Start!default_timeout
  <2> HIDE DEF b
  <2>3. b.timeout_seconds \in Nat /\ b.timeout_seconds \in 1 .. MAX_TIMEOUT_SECONDS
    BY <2>2 DEF StartConstants
  <2>4. /\ DOMAIN d = DOMAIN c /\ d.server = c.server /\ d.backends = c.backends
        /\ d.reprompt = c.reprompt /\ d.influxdb = c.influxdb /\ d.fixes = c.fixes /\ d.backend = b
    BY <1>1, <2>1 DEF Keys
  <2> QED
    BY <2>2, <2>3, <2>4
<1> QED
  BY <1>2, <1>3, <1>4

\* The command line is merged in.
LEMMA StartOverrides ==
  ASSUME StartConstants, StartInv, Start!Override
  PROVE  StartInv'
<1> DEFINE mode == Start!resolve(cli.streaming_mode, settings.streaming)
           listening == IF cli.port = None THEN settings ELSE [settings EXCEPT !.server.port = cli.port]
           dialling == Start!WithBackendUrl(listening, cli.backend_url)
           merged == [dialling EXCEPT !.streaming = mode]
<1>1. boot = "loaded" /\ found' = found /\ why # "host"
  BY DEF Start!Override, Start!inputVars, StartInv
<1>2. CASE mode = "invalid"
  <2>1. boot' = "exited" /\ why' = "streaming mode"
    BY <1>2 DEF Start!Override, Start!Exit
  <2> QED
    BY <1>1, <2>1, StartEnds
<1>3. CASE mode # "invalid"
  <2>1. /\ settings' = IF cli.dump = None THEN merged
                       ELSE [merged EXCEPT !.dump = [enabled |-> TRUE, path |-> cli.dump]]
        /\ displayed' = Start!render_config_summary(merged)
        /\ boot' = "merged" /\ why' = why
    BY <1>3 DEF Start!Override
  <2>2. /\ found.kind = "parsed" /\ Shaped(settings) /\ Safe(settings)
        /\ settings.backends = found.config.backends
    BY <1>1 DEF StartInv, Loaded, Merged, Validated, Gated, Probed, Bound
  <2>3. DOMAIN settings = Keys /\ {"port", "host"} \subseteq DOMAIN settings.server
    BY <2>2 DEF Shaped, Keys
  <2> HIDE DEF mode
  <2>4. /\ DOMAIN listening = Keys /\ {"port", "host"} \subseteq DOMAIN listening.server
        /\ listening.server.host = settings.server.host
        /\ listening.backend = settings.backend /\ listening.backends = settings.backends
        /\ listening.reprompt = settings.reprompt /\ listening.influxdb = settings.influxdb
    <3>1. CASE cli.port = None
      BY <2>3, <3>1
    <3>2. CASE cli.port # None
      BY <2>3, <3>2 DEF Keys
    <3> QED
      BY <3>1, <3>2
  <2> HIDE DEF listening
  <2>5. Shaped(listening) /\ Safe(listening)
    BY <2>2, <2>3, <2>4, SafeTransfers
  <2>6. /\ DOMAIN dialling = Keys /\ dialling.server = listening.server
        /\ dialling.backends = listening.backends
        /\ dialling.reprompt = listening.reprompt /\ dialling.influxdb = listening.influxdb
        /\ \/ dialling.backend = listening.backend
           \/ /\ {"url", "timeout_seconds"} \subseteq DOMAIN dialling.backend
              /\ dialling.backend.timeout_seconds \in Nat
              /\ listening.backends = None => dialling.backend.timeout_seconds \in 1 .. MAX_TIMEOUT_SECONDS
    BY <2>4, <2>5, UrlOverridden
  <2> HIDE DEF dialling
  <2>7. /\ DOMAIN settings' = DOMAIN listening /\ settings'.server = dialling.server
        /\ settings'.backend = dialling.backend /\ settings'.backends = dialling.backends
        /\ settings'.reprompt = dialling.reprompt /\ settings'.influxdb = dialling.influxdb
        /\ settings'.fixes = merged.fixes /\ settings'.streaming = merged.streaming
        /\ merged.server = dialling.server /\ merged.backend = dialling.backend
        /\ merged.backends = dialling.backends /\ merged.reprompt = dialling.reprompt
        /\ merged.influxdb = dialling.influxdb
    <3>1. CASE cli.dump = None
      BY <2>1, <2>4, <2>6, <3>1 DEF Keys
    <3>2. CASE cli.dump # None
      BY <2>1, <2>4, <2>6, <3>2 DEF Keys
    <3> QED
      BY <3>1, <3>2
  <2> HIDE DEF merged
  <2>8. Shaped(settings') /\ Safe(settings')
    <3>1. /\ {"port", "host"} \subseteq DOMAIN settings'.server
          /\ settings'.server.host = listening.server.host
          /\ settings'.backends = listening.backends /\ settings'.reprompt = listening.reprompt
          /\ settings'.influxdb = listening.influxdb /\ DOMAIN settings' = DOMAIN listening
      BY <2>4, <2>6, <2>7
    <3> QED
      BY <2>5, <2>6, <2>7, <3>1, SafeTransfers
  <2>9. displayed' = Start!render_config_summary(settings')
    <3>1. Start!render_config_summary(settings') = Start!render_config_summary(merged)
      BY <2>7, SameSummary
    <3> QED
      BY <2>1, <3>1
  <2>10. Start!ModelsAsDiscovered'
    BY <2>1 DEF Start!ModelsAsDiscovered
  <2>11. Shaped(settings)' /\ Safe(settings)' /\ (displayed = Start!render_config_summary(settings))'
    BY <2>8, <2>9 DEF Shaped, Safe, Start!validate_bind_host, Start!validate_http_url
  <2>12. settings'.backends = found'.config.backends
    BY <1>1, <2>2, <2>4, <2>6, <2>7
  <2>13. found'.kind = "parsed" /\ (Shaped(found.config))'
    BY <1>1, <2>2 DEF StartInv, Shaped
  <2> QED
    BY <1>1, <2>1, <2>10, <2>11, <2>12, <2>13 DEF StartInv, Loaded, Merged, Validated, Gated, Probed, Bound
<1> QED
  BY <1>2, <1>3

\* A step that keeps the configuration and what was found, from one stage to a later one.
LEMMA StageKept ==
  ASSUME StartInv, UNCHANGED <<found, settings, displayed, world>>, why' # "host"
  PROVE  /\ found'.kind \in {"missing", "unreadable", "malformed", "parsed"}
         /\ (found.kind = "parsed" => Shaped(found.config))'
         /\ boot \in Loaded => found'.kind = "parsed" /\ Shaped(settings)' /\ Safe(settings)'
         /\ boot \in Loaded \ Probed => settings'.backends = found'.config.backends
         /\ boot \in Merged => (displayed = Start!render_config_summary(settings))'
         /\ boot \in Validated => /\ settings'.server.port # 0
                                  /\ (settings.backend # None => Start!validate_http_url(settings.backend.url))'
<1>1. found' = found /\ settings' = settings /\ displayed' = displayed
  OBVIOUS
<1>2. /\ Shaped(settings)' = Shaped(settings) /\ Safe(settings)' = Safe(settings)
      /\ Shaped(found.config)' = Shaped(found.config)
      /\ Start!render_config_summary(settings)' = Start!render_config_summary(settings)
      /\ Start!validate_http_url(settings.backend.url)' = Start!validate_http_url(settings.backend.url)
  BY <1>1
<1> QED
  BY <1>1, <1>2 DEF StartInv

\* What run checks before anything is built.
LEMMA StartValidates ==
  ASSUME StartInv, Start!ValidateFinal
  PROVE  StartInv'
<1>1. /\ boot = "merged" /\ UNCHANGED <<found, settings, displayed, world>> /\ why # "host"
      /\ \/ boot' = "validated" /\ why' = why /\ Start!validate_final(settings)
         \/ boot' = "exited" /\ why' = "final validation"
  BY DEF Start!ValidateFinal, Start!inputVars, Start!Exit, StartInv
<1>2. CASE boot' = "exited" /\ why' = "final validation"
  BY <1>1, <1>2, StartEnds
<1>3. CASE boot' = "validated" /\ why' = why /\ Start!validate_final(settings)
  <2>1. /\ settings'.server.port # 0
        /\ (settings.backend # None => Start!validate_http_url(settings.backend.url))'
    BY <1>1, <1>3 DEF Start!validate_final, Start!validate_http_url
  <2>2. Start!ModelsAsDiscovered'
    BY <1>3 DEF Start!ModelsAsDiscovered
  <2> QED
    BY <1>1, <1>3, <2>1, <2>2, StageKept DEF StartInv, Loaded, Merged, Validated, Gated, Probed, Bound
<1> QED
  BY <1>1, <1>2, <1>3

\* The exporter is built, and the probes start.
LEMMA StartExports ==
  ASSUME StartInv, Start!AddExporter
  PROVE  StartInv'
<1>1. /\ boot = "validated" /\ UNCHANGED <<found, settings, displayed, world>> /\ why # "host"
      /\ probe' = [n \in Start!NodeIds(settings) |-> [at |-> "fetch", auto_model |-> None, window |-> None]]
      /\ \/ boot' = "exited" /\ why' = "not built"
         \/ /\ boot' = "preflight" /\ why' = why
            /\ exporters' = IF settings.influxdb.enabled /\ Start!checked_client_url(settings.influxdb.url)
                            THEN {"influxdb"} ELSE {}
  BY DEF Start!AddExporter, Start!inputVars, Start!Exit, StartInv
<1>2. CASE boot' = "exited" /\ why' = "not built"
  BY <1>1, <1>2, StartEnds
<1>3. CASE /\ boot' = "preflight" /\ why' = why
           /\ exporters' = IF settings.influxdb.enabled /\ Start!checked_client_url(settings.influxdb.url)
                           THEN {"influxdb"} ELSE {}
  <2>1. settings'.influxdb.enabled => exporters' # {}
    <3>1. settings.influxdb.enabled => Start!validate_http_url(settings.influxdb.url)
      BY <1>1 DEF StartInv, Safe, Loaded, Merged, Validated
    <3> QED
      BY <1>1, <1>3, <3>1 DEF Start!validate_http_url, Start!checked_client_url
  <2>2. DOMAIN probe' = Start!NodeIds(settings') /\ \A n \in DOMAIN probe' : ProbeInv(n)'
    BY <1>1 DEF ProbeInv
  <2>3. (DOMAIN probe = Start!NodeIds(settings) /\ \A n \in DOMAIN probe : ProbeInv(n))'
    BY <2>2 DEF Start!NodeIds
  <2>4. Start!ModelsAsDiscovered'
    BY <1>3 DEF Start!ModelsAsDiscovered
  <2> QED
    BY <1>1, <1>3, <2>1, <2>3, <2>4, StageKept DEF StartInv, Loaded, Merged, Validated, Gated, Probed, Bound
<1> QED
  BY <1>1, <1>2, <1>3

\* One probe moves on.
LEMMA ProbeMoves ==
  ASSUME StartInv, boot = "preflight", boot' = boot, why' = why, exporters' = exporters,
         UNCHANGED <<found, settings, displayed, world>>,
         NEW n \in DOMAIN probe, NEW r, probe' = [probe EXCEPT ![n] = r],
         {"at", "auto_model", "window"} \subseteq DOMAIN r, r.at \in {"fetch", "props", "done", "skipped"},
         r.auto_model = IF r.at \in {"fetch", "skipped"} THEN None
                        ELSE Start!AutoModel(n, world[Start!NodeAt(settings, n).url.host])
  PROVE  StartInv'
<1>1. DOMAIN probe = Start!NodeIds(settings) /\ \A k \in DOMAIN probe : ProbeInv(k)
  BY DEF StartInv
<1>2. DOMAIN probe' = DOMAIN probe
  OBVIOUS
<1>3. ASSUME NEW k \in DOMAIN probe
      PROVE  ProbeInv(k)'
  <2>1. Start!AutoModel(k, world[Start!NodeAt(settings, k).url.host])' =
          Start!AutoModel(k, world[Start!NodeAt(settings, k).url.host])
    BY DEF Start!AutoModel, Start!NodeAt
  <2>2. CASE k = n
    BY <2>1, <2>2 DEF ProbeInv
  <2>3. CASE k # n
    BY <1>1, <2>1, <2>3 DEF ProbeInv
  <2> QED
    BY <2>2, <2>3
<1>4. (DOMAIN probe = Start!NodeIds(settings) /\ \A k \in DOMAIN probe : ProbeInv(k))'
  BY <1>1, <1>2, <1>3 DEF Start!NodeIds
<1>5. Start!ModelsAsDiscovered'
  BY DEF Start!ModelsAsDiscovered
<1>6. settings'.influxdb.enabled => exporters' # {}
  BY DEF StartInv, Gated
<1>7. why' # "host"
  BY DEF StartInv
<1> QED
  BY <1>4, <1>5, <1>6, <1>7, StageKept DEF StartInv, Loaded, Merged, Validated, Gated, Probed, Bound

\* A probe's three steps.
LEMMA StartProbes ==
  ASSUME StartInv, NEW n \in DOMAIN probe,
         Start!FetchModels(n) \/ Start!ProbeFails(n) \/ Start!FetchProps(n)
  PROVE  StartInv'
<1>1. /\ boot = "preflight" /\ boot' = boot /\ why' = why /\ exporters' = exporters
      /\ UNCHANGED <<found, settings, displayed, world>>
  BY DEF Start!FetchModels, Start!ProbeFails, Start!FetchProps, Start!inputVars
<1>2. ProbeInv(n)
  BY <1>1 DEF StartInv
<1>3. CASE Start!FetchModels(n)
  <2> DEFINE auto == Start!AutoModel(n, world[Start!NodeAt(settings, n).url.host])
             own == IF Start!NodeAt(settings, n).url.host \in llama THEN NCtx
                    ELSE Start!select_max_model_len(world[Start!NodeAt(settings, n).url.host], Start!NodeAt(settings, n).model)
             learnt == [at |-> "done", auto_model |-> auto, window |-> own]
  <2>1. \/ probe' = [probe EXCEPT ![n] = learnt]
        \/ probe' = [probe EXCEPT ![n] = [learnt EXCEPT !.at = "props"]]
    BY <1>3 DEF Start!FetchModels
  <2> HIDE DEF own, auto
  <2>2. /\ {"at", "auto_model", "window"} \subseteq DOMAIN learnt /\ learnt.at = "done" /\ learnt.auto_model = auto
        /\ {"at", "auto_model", "window"} \subseteq DOMAIN [learnt EXCEPT !.at = "props"]
        /\ [learnt EXCEPT !.at = "props"].at = "props" /\ [learnt EXCEPT !.at = "props"].auto_model = auto
    OBVIOUS
  <2>3. PICK r : /\ probe' = [probe EXCEPT ![n] = r] /\ {"at", "auto_model", "window"} \subseteq DOMAIN r
                 /\ r.at \in {"props", "done"} /\ r.auto_model = auto
    <3> HIDE DEF learnt
    <3> QED
      BY <2>1, <2>2
  <2> QED
    BY <1>1, <2>3, ProbeMoves DEF auto
<1>4. CASE Start!ProbeFails(n)
  <2> DEFINE r == [probe[n] EXCEPT !.at = "skipped"]
  <2>1. probe' = [probe EXCEPT ![n] = r] /\ probe[n].at = "fetch"
    BY <1>4 DEF Start!ProbeFails
  <2>2. /\ {"at", "auto_model", "window"} \subseteq DOMAIN r /\ r.at = "skipped" /\ r.auto_model = None
    BY <1>2, <2>1 DEF ProbeInv
  <2> HIDE DEF r
  <2> QED
    BY <1>1, <2>1, <2>2, ProbeMoves
<1>5. CASE Start!FetchProps(n)
  <2>0. PICK ok \in BOOLEAN :
          /\ probe[n].at = "props"
          /\ probe' = [probe EXCEPT ![n].at = "done", ![n].window = IF ok THEN @ ELSE None]
    BY <1>5 DEF Start!FetchProps
  <2> DEFINE w == IF ok THEN probe[n].window ELSE None
             r == [probe[n] EXCEPT !.at = "done", !.window = w]
  <2>1. probe' = [probe EXCEPT ![n] = r]
    BY <1>2, <2>0 DEF ProbeInv
  <2>2. /\ {"at", "auto_model", "window"} \subseteq DOMAIN r /\ r.at = "done"
        /\ r.auto_model = probe[n].auto_model
    <3> HIDE DEF w
    <3> QED
      BY <1>2 DEF ProbeInv
  <2>3. r.auto_model = Start!AutoModel(n, world[Start!NodeAt(settings, n).url.host])
    BY <1>2, <2>0, <2>2 DEF ProbeInv
  <2> HIDE DEF r
  <2> QED
    BY <1>1, <2>1, <2>2, <2>3, ProbeMoves
<1> QED
  BY <1>3, <1>4, <1>5

\* Only the models differ.
LEMMA OnlyModelsDiffer ==
  ASSUME NEW B, \A g \in DOMAIN B : GroupShape(B[g])
  PROVE  /\ DOMAIN Start!Discovered(B) = DOMAIN B
         /\ \A g \in DOMAIN B :
              /\ DOMAIN Start!Discovered(B)[g] = DOMAIN B[g]
              /\ Start!Discovered(B)[g].mappings = B[g].mappings
              /\ Start!Discovered(B)[g].failure_cooldown_secs = B[g].failure_cooldown_secs
              /\ DOMAIN Start!Discovered(B)[g].nodes = DOMAIN B[g].nodes
              /\ \A i \in DOMAIN B[g].nodes :
                   /\ DOMAIN Start!Discovered(B)[g].nodes[i] = DOMAIN B[g].nodes[i]
                   /\ Start!Discovered(B)[g].nodes[i].url = B[g].nodes[i].url
                   /\ Start!Discovered(B)[g].nodes[i].timeout_seconds = B[g].nodes[i].timeout_seconds
                   /\ Start!Discovered(B)[g].nodes[i].model = Start!Applied(g, i)
<1> DEFINE N(g) == [i \in DOMAIN B[g].nodes |-> [B[g].nodes[i] EXCEPT !.model = Start!Applied(g, i)]]
<1>1. DOMAIN Start!Discovered(B) = DOMAIN B /\ \A g \in DOMAIN B : Start!Discovered(B)[g] = [B[g] EXCEPT !.nodes = N(g)]
  BY DEF Start!Discovered
<1>2. \A g \in DOMAIN B :
        /\ DOMAIN N(g) = DOMAIN B[g].nodes
        /\ \A i \in DOMAIN B[g].nodes :
             /\ DOMAIN N(g)[i] = DOMAIN B[g].nodes[i] /\ N(g)[i].url = B[g].nodes[i].url
             /\ N(g)[i].timeout_seconds = B[g].nodes[i].timeout_seconds
             /\ N(g)[i].model = Start!Applied(g, i)
  BY DEF GroupShape
<1> HIDE DEF N
<1>3. \A g \in DOMAIN B :
        /\ DOMAIN Start!Discovered(B)[g] = DOMAIN B[g]
        /\ Start!Discovered(B)[g].mappings = B[g].mappings
        /\ Start!Discovered(B)[g].failure_cooldown_secs = B[g].failure_cooldown_secs
        /\ Start!Discovered(B)[g].nodes = N(g)
  BY <1>1 DEF GroupShape
<1> QED
  BY <1>1, <1>2, <1>3

\* What the probes found is written to the nodes.
LEMMA StartDiscovers ==
  ASSUME StartConstants, StartInv, Start!PreflightEnds
  PROVE  StartInv'
<1> DEFINE B == settings.backends
           D == Start!Discovered(B)
<1>1. /\ boot = "preflight" /\ boot' = "balance" /\ why' = why /\ why # "host"
      /\ UNCHANGED <<found, displayed, world, probe, exporters>>
      /\ \A n \in DOMAIN probe : probe[n].at \in {"done", "skipped"}
  BY DEF Start!PreflightEnds, Start!inputVars, StartInv
<1>2. /\ found.kind = "parsed" /\ Shaped(settings) /\ Safe(settings) /\ B = found.config.backends
      /\ displayed = Start!render_config_summary(settings)
      /\ settings.server.port # 0
      /\ settings.backend # None => Start!validate_http_url(settings.backend.url)
      /\ settings.influxdb.enabled => exporters # {}
      /\ DOMAIN probe = Start!NodeIds(settings) /\ \A n \in DOMAIN probe : ProbeInv(n)
  BY <1>1 DEF StartInv, Loaded, Merged, Validated, Gated, Probed, Bound
<1>3. CASE B = None
  <2>1. settings' = settings
    BY <1>3 DEF Start!PreflightEnds
  <2>2. Start!ModelsAsDiscovered'
    BY <1>3, <2>1 DEF Start!ModelsAsDiscovered
  <2>3. settings'.influxdb.enabled => exporters' # {}
    BY <1>1, <1>2, <2>1
  <2> QED
    BY <1>1, <2>1, <2>2, <2>3, StageKept DEF StartInv, Loaded, Merged, Validated, Gated, Probed, Bound
<1>4. CASE B # None
  <2>1. DOMAIN settings = Keys /\ \A g \in DOMAIN B : GroupShape(B[g])
    BY <1>2, <1>4 DEF Shaped, Keys
  <2>2. settings' = [settings EXCEPT !.backends = D]
    BY <1>4, <2>1 DEF Start!PreflightEnds, Start!Discovered, Keys
  <2>3. D # None
    <3>1. D = [g \in DOMAIN B |-> D[g]]
      BY DEF Start!Discovered
    <3> HIDE DEF D
    <3> QED
      BY <3>1 DEF StartConstants
  <2>4. /\ DOMAIN D = DOMAIN B
        /\ \A g \in DOMAIN B :
             /\ DOMAIN D[g] = DOMAIN B[g] /\ D[g].mappings = B[g].mappings
             /\ D[g].failure_cooldown_secs = B[g].failure_cooldown_secs
             /\ DOMAIN D[g].nodes = DOMAIN B[g].nodes
             /\ \A i \in DOMAIN B[g].nodes :
                  /\ DOMAIN D[g].nodes[i] = DOMAIN B[g].nodes[i]
                  /\ D[g].nodes[i].url = B[g].nodes[i].url
                  /\ D[g].nodes[i].timeout_seconds = B[g].nodes[i].timeout_seconds
                  /\ D[g].nodes[i].model = Start!Applied(g, i)
    BY <2>1, OnlyModelsDiffer
  <2>5. PICK s, d, b : s = settings' /\ d = D /\ b = B
    OBVIOUS
  <2>6. /\ DOMAIN s = DOMAIN settings /\ s.backends = d /\ s.server = settings.server
        /\ s.backend = settings.backend /\ s.reprompt = settings.reprompt /\ s.influxdb = settings.influxdb
        /\ s.fixes = settings.fixes /\ s.streaming = settings.streaming
    BY <2>1, <2>2, <2>5 DEF Keys
  <2> HIDE DEF D
  <2>7. GroupsShape(d)
    <3>1. ASSUME NEW g \in DOMAIN b
          PROVE  GroupShape(d[g])
      BY <2>1, <2>4, <2>5 DEF GroupShape
    <3> QED
      BY <2>4, <2>5, <3>1 DEF GroupsShape
  <2>8. Shaped(s)
    BY <1>2, <2>6, <2>7, SectionVaried
  <2>9. Safe(s)
    <3>1. \A g \in DOMAIN b : SafeGroup(b[g])
      BY <1>2, <1>4, <2>5 DEF Safe
    <3>2. \A g \in DOMAIN d : SafeGroup(d[g])
      BY <2>4, <2>5, <3>1 DEF SafeGroup
    <3>3. ~Start!MappedTwice(d)
      <4>1. ~Start!MappedTwice(b)
        BY <1>2, <1>4, <2>5 DEF Safe
      <4> QED
        BY <2>4, <2>5, <4>1 DEF Start!MappedTwice
    <3> QED
      BY <1>2, <2>3, <2>5, <2>6, <3>2, <3>3 DEF Safe
  <2>10. /\ Start!NodeIds(s) = Start!NodeIds(settings)
         /\ \A n \in Start!NodeIds(s) : \E g \in DOMAIN b : \E i \in DOMAIN b[g].nodes :
              n = <<g, i>> /\ Start!NodeAt(s, n) = d[g].nodes[i] /\ Start!NodeAt(settings, n) = b[g].nodes[i]
    <3>1. /\ Start!NodeIds(s) = UNION {{<<g, i>> : i \in DOMAIN d[g].nodes} : g \in DOMAIN d}
          /\ Start!NodeIds(settings) = UNION {{<<g, i>> : i \in DOMAIN b[g].nodes} : g \in DOMAIN b}
      BY <1>4, <2>3, <2>5, <2>6 DEF Start!NodeIds
    <3>2. UNION {{<<g, i>> : i \in DOMAIN d[g].nodes} : g \in DOMAIN d} =
            UNION {{<<g, i>> : i \in DOMAIN b[g].nodes} : g \in DOMAIN b}
      BY <2>4, <2>5
    <3>3. \A n : Start!NodeAt(s, n) = d[n[1]].nodes[n[2]] /\ Start!NodeAt(settings, n) = b[n[1]].nodes[n[2]]
      BY <1>4, <2>3, <2>5, <2>6 DEF Start!NodeAt
    <3>4. \A n \in Start!NodeIds(settings) : \E g \in DOMAIN b : \E i \in DOMAIN b[g].nodes : n = <<g, i>>
      BY <3>1
    <3> QED
      BY <3>1, <3>2, <3>3, <3>4
  <2>11. Start!render_config_summary(s) = Start!render_config_summary(settings)
    <3>1. {<<n, Start!NodeAt(s, n).url>> : n \in Start!NodeIds(s)} =
            {<<n, Start!NodeAt(settings, n).url>> : n \in Start!NodeIds(settings)}
      <4>1. \A n \in Start!NodeIds(s) : Start!NodeAt(s, n).url = Start!NodeAt(settings, n).url
        BY <2>4, <2>5, <2>10
      <4> QED
        BY <2>10, <4>1
    <3>2. Start!gives_up(s) = Start!gives_up(settings)
      BY <2>6 DEF Start!gives_up
    <3> QED
      BY <2>6, <3>1, <3>2 DEF Start!render_config_summary
  <2>12. \A n \in Start!NodeIds(s) :
           LET given == Start!NodeAt(found.config, n)
               held == Start!NodeAt(s, n).model
           IN  IF given.model # None THEN held = given.model
               ELSE held = IF probe[n].at = "done" /\ Len(world[given.url.host]) = 1
                           THEN world[given.url.host][1].id ELSE None
    <3> SUFFICES ASSUME NEW n \in Start!NodeIds(s)
                 PROVE  LET given == Start!NodeAt(found.config, n)
                            held == Start!NodeAt(s, n).model
                        IN  IF given.model # None THEN held = given.model
                            ELSE held = IF probe[n].at = "done" /\ Len(world[given.url.host]) = 1
                                        THEN world[given.url.host][1].id ELSE None
      OBVIOUS
    <3>0. PICK g \in DOMAIN b : \E i \in DOMAIN b[g].nodes :
            n = <<g, i>> /\ Start!NodeAt(s, n) = d[g].nodes[i] /\ Start!NodeAt(settings, n) = b[g].nodes[i]
      BY <2>10
    <3>1. PICK i \in DOMAIN b[g].nodes :
            n = <<g, i>> /\ Start!NodeAt(s, n) = d[g].nodes[i] /\ Start!NodeAt(settings, n) = b[g].nodes[i]
      BY <3>0
    <3>2. Start!NodeAt(found.config, n) = Start!NodeAt(settings, n)
      BY <1>2, <1>4 DEF Start!NodeAt
    <3>3. /\ ProbeInv(n) /\ probe[n].at \in {"done", "skipped"}
      BY <1>1, <1>2, <2>10
    <3>4. d[g].nodes[i].model = IF probe[n].auto_model # None THEN probe[n].auto_model ELSE b[g].nodes[i].model
      BY <2>4, <2>5, <3>1 DEF Start!Applied
    <3>5. probe[n].auto_model =
            IF probe[n].at = "done" /\ Len(world[b[g].nodes[i].url.host]) = 1 /\ b[g].nodes[i].model = None
            THEN world[b[g].nodes[i].url.host][1].id ELSE None
      BY <1>4, <3>1, <3>3 DEF ProbeInv, Start!AutoModel
    <3> QED
      BY <3>1, <3>2, <3>4, <3>5
  <2>13. Start!ModelsAsDiscovered'
    <3>1. found' = found /\ probe' = probe /\ world' = world /\ settings' = s
      BY <1>1, <2>5
    <3>2. \A n : Start!NodeAt(found.config, n)' = Start!NodeAt(found.config, n) /\ Start!NodeAt(settings, n)' = Start!NodeAt(s, n)
      BY <3>1 DEF Start!NodeAt
    <3>3. Start!NodeIds(settings)' = Start!NodeIds(s)
      BY <3>1 DEF Start!NodeIds
    <3> QED
      BY <2>12, <3>1, <3>2, <3>3 DEF Start!ModelsAsDiscovered
  <2>14. /\ Shaped(settings)' /\ Safe(settings)' /\ (displayed = Start!render_config_summary(settings))'
         /\ settings'.server.port # 0
         /\ (settings.backend # None => Start!validate_http_url(settings.backend.url))'
         /\ settings'.influxdb.enabled => exporters' # {}
    <3>1. settings' = s
      BY <2>5
    <3>2. displayed' = Start!render_config_summary(settings')
      BY <1>1, <1>2, <2>11, <3>1
    <3>3. Shaped(settings)' /\ Safe(settings)'
      BY <2>8, <2>9, <3>1
    <3>4. (displayed = Start!render_config_summary(settings))'
      BY <3>2
    <3> QED
      BY <1>1, <1>2, <2>6, <3>1, <3>3, <3>4
  <2>15. found'.kind = "parsed" /\ (Shaped(found.config))'
    BY <1>1, <1>2 DEF StartInv, Shaped
  <2> QED
    BY <1>1, <2>13, <2>14, <2>15 DEF StartInv, Loaded, Merged, Validated, Gated, Probed, Bound
<1> QED
  BY <1>3, <1>4

\* What is forwarded, while nothing it depends on changes.
LEMMA ModelsKept ==
  ASSUME Start!ModelsAsDiscovered, UNCHANGED <<found, settings, world, probe>>, boot \in Probed
  PROVE  Start!ModelsAsDiscovered'
<1>1. Start!NodeIds(settings)' = Start!NodeIds(settings)
  BY DEF Start!NodeIds
<1>2. \A n : /\ Start!NodeAt(found.config, n)' = Start!NodeAt(found.config, n)
             /\ Start!NodeAt(settings, n)' = Start!NodeAt(settings, n)
  BY DEF Start!NodeAt
<1> QED
  BY <1>1, <1>2 DEF Start!ModelsAsDiscovered, Probed, Bound

\* The steps of run_server change nothing that was checked.
LEMMA StartServes ==
  ASSUME StartInv, boot \in Probed, boot' \in Probed, UNCHANGED <<found, settings, displayed, world, probe, exporters, why>>
  PROVE  StartInv'
<1>1. Start!ModelsAsDiscovered'
  BY ModelsKept DEF StartInv
<1>2. settings'.influxdb.enabled => exporters' # {}
  BY DEF StartInv, Gated
<1>3. why' # "host"
  BY DEF StartInv
<1> QED
  BY <1>1, <1>2, <1>3, StageKept DEF StartInv, Loaded, Merged, Validated, Gated, Probed, Bound

\* Every step of the start.
LEMMA StartKeeps ==
  ASSUME StartConstants, StartInv, Start!Next
  PROVE  StartInv'
<1>1. CASE Start!TestNode
  <2>1. found' = found /\ why # "host" /\ boot = "testing"
    BY <1>1 DEF Start!TestNode, Start!inputVars, StartInv
  <2>2. boot' \in {"exited", "testing"} /\ why' # "host"
    BY <1>1, <2>1 DEF Start!TestNode, Start!Exit
  <2> QED
    BY <2>1, <2>2, StartEnds
<1>2. CASE Start!TestEnds
  <2>1. found' = found /\ boot' = "exited" /\ why' # "host"
    BY <1>2 DEF Start!TestEnds, Start!Exit, Start!inputVars
  <2> QED
    BY <2>1, StartEnds
<1>3. CASE Start!BuildBalancer
  <2>1. /\ boot = "balance" /\ UNCHANGED <<found, settings, displayed, world, probe, exporters>>
        /\ \/ boot' = "exited" /\ why' = "balancer"
           \/ boot' = "state" /\ why' = why
    BY <1>3 DEF Start!BuildBalancer, Start!Exit, Start!inputVars
  <2>2. CASE boot' = "exited" /\ why' = "balancer"
    BY <2>1, <2>2, StartEnds
  <2>3. CASE boot' = "state" /\ why' = why
    BY <2>1, <2>3, StartServes DEF Probed
  <2> QED
    BY <2>1, <2>2, <2>3
<1>4. CASE Start!BuildState
  <2>1. /\ boot = "state" /\ UNCHANGED <<found, settings, displayed, world, probe, exporters, why>>
        /\ boot' = "bind"
    BY <1>4 DEF Start!BuildState, Start!inputVars
  <2> QED
    BY <2>1, StartServes DEF Probed, Bound
<1>5. CASE Start!Bind
  <2>1. boot = "bind" /\ UNCHANGED <<found, settings, displayed, world, probe, exporters>>
    BY <1>5 DEF Start!Bind, Start!inputVars
  <2>2. ~Start!InvalidInput(settings.server.host)
    <3>1. Safe(settings)
      BY <2>1 DEF StartInv, Loaded, Merged, Validated, Gated, Probed, Bound
    <3> QED
      BY <3>1 DEF Safe, Start!InvalidInput
  <2>3. \/ boot' = "exited" /\ why' = "bind"
        \/ boot' = "serving" /\ why' = why
    BY <1>5, <2>2 DEF Start!Bind, Start!Exit
  <2>4. CASE boot' = "exited" /\ why' = "bind"
    BY <2>1, <2>4, StartEnds
  <2>5. CASE boot' = "serving" /\ why' = why
    BY <2>1, <2>5, StartServes DEF Probed, Bound
  <2> QED
    BY <2>3, <2>4, <2>5
<1>6. CASE \E n \in DOMAIN probe : Start!FetchModels(n) \/ Start!ProbeFails(n) \/ Start!FetchProps(n)
  BY <1>6, StartProbes
<1> QED
  BY <1>1, <1>2, <1>3, <1>4, <1>5, <1>6, StartLoads, StartOverrides, StartValidates, StartExports, StartDiscovers
     DEF Start!Next

\* The start keeps what it holds while another part runs.
LEMMA StartStutters ==
  ASSUME StartInv, UNCHANGED startVars
  PROVE  StartInv'
<1>1. /\ UNCHANGED <<found, settings, displayed, world, boot, probe, exporters, why>>
  BY DEF startVars
<1>2. why' # "host"
  BY <1>1 DEF StartInv
<1>3. Start!ModelsAsDiscovered'
  <2>1. CASE boot \in Probed
    BY <1>1, <2>1, ModelsKept DEF StartInv
  <2>2. CASE boot \notin Probed
    BY <1>1, <2>2 DEF Start!ModelsAsDiscovered, Probed, Bound
  <2> QED
    BY <2>1, <2>2
<1>4. boot' = "preflight" =>
        (DOMAIN probe = Start!NodeIds(settings) /\ \A n \in DOMAIN probe : ProbeInv(n))'
  <2> SUFFICES ASSUME boot' = "preflight"
               PROVE  (DOMAIN probe = Start!NodeIds(settings) /\ \A n \in DOMAIN probe : ProbeInv(n))'
    OBVIOUS
  <2>1. DOMAIN probe = Start!NodeIds(settings) /\ \A n \in DOMAIN probe : ProbeInv(n)
    BY <1>1 DEF StartInv
  <2>2. \A n : Start!AutoModel(n, world[Start!NodeAt(settings, n).url.host])' =
                 Start!AutoModel(n, world[Start!NodeAt(settings, n).url.host])
    BY <1>1 DEF Start!AutoModel, Start!NodeAt
  <2> QED
    BY <1>1, <2>1, <2>2 DEF ProbeInv, Start!NodeIds
<1>5. boot' \in Gated /\ settings'.influxdb.enabled => exporters' # {}
  BY <1>1 DEF StartInv, Gated
<1> QED
  BY <1>1, <1>2, <1>3, <1>4, <1>5, StageKept DEF StartInv, Loaded, Merged, Validated, Gated, Probed, Bound

\* What the invariant says of the proxy that serves.
LEMMA CheckedIsServed ==
  ASSUME StartConstants, StartInv
  PROVE  Start!ServesWhatWasChecked
<1>1. why # "host"
  BY DEF StartInv
<1>2. SUFFICES ASSUME boot = "serving"
               PROVE  Start!ServesWhatWasChecked
  BY <1>1 DEF Start!ServesWhatWasChecked
<1>3. /\ Shaped(settings) /\ Safe(settings) /\ displayed = Start!render_config_summary(settings)
      /\ settings.server.port # 0
      /\ settings.backend # None => Start!validate_http_url(settings.backend.url)
      /\ settings.influxdb.enabled => exporters # {}
  BY <1>2 DEF StartInv, Loaded, Merged, Validated, Gated, Probed, Bound
<1>4. ASSUME NEW n \in Start!Dialled(settings)
      PROVE  Start!validate_http_url(n.url) /\ n.timeout_seconds \in 1 .. MAX_TIMEOUT_SECONDS
  <2>1. PICK k \in Start!NodeIds(settings) : n = Start!NodeAt(settings, k)
    BY DEF Start!Dialled
  <2>2. CASE settings.backends # None
    <3>1. PICK g \in DOMAIN settings.backends : \E i \in DOMAIN settings.backends[g].nodes : k = <<g, i>>
      BY <2>1, <2>2 DEF Start!NodeIds
    <3>2. PICK i \in DOMAIN settings.backends[g].nodes : k = <<g, i>>
      BY <3>1
    <3>3. n = settings.backends[g].nodes[i]
      BY <2>1, <2>2, <3>2 DEF Start!NodeAt
    <3>4. SafeGroup(settings.backends[g])
      BY <1>3, <2>2 DEF Safe
    <3> QED
      BY <3>3, <3>4 DEF SafeGroup
  <2>3. CASE settings.backends = None
    <3>1. settings.backend # None /\ n = settings.backend
      BY <2>1, <2>3 DEF Start!NodeIds, Start!NodeAt
    <3> QED
      BY <1>3, <2>3, <3>1 DEF Safe
  <2> QED
    BY <2>2, <2>3
<1>5. ASSUME settings.backends # None
      PROVE  /\ \A g \in DOMAIN settings.backends :
                  settings.backends[g].failure_cooldown_secs <= MAX_FAILURE_COOLDOWN_SECS
             /\ \A g, h \in DOMAIN settings.backends : \A m \in {Start!Model, Start!Other} :
                  Start!Maps(settings.backends[g], m) /\ Start!Maps(settings.backends[h], m) => g = h
  <2>1. \A g \in DOMAIN settings.backends :
          settings.backends[g].failure_cooldown_secs <= MAX_FAILURE_COOLDOWN_SECS
    BY <1>3, <1>5 DEF Safe, SafeGroup
  <2>2. ~Start!MappedTwice(settings.backends)
    BY <1>3, <1>5 DEF Safe
  <2>3. \A g, h \in DOMAIN settings.backends : \A m :
          Start!Maps(settings.backends[g], m) /\ Start!Maps(settings.backends[h], m) => g = h
    BY <2>2 DEF Start!Maps, Start!MappedTwice
  <2> QED
    BY <2>1, <2>3
<1>6. settings.reprompt # None => settings.reprompt.max_total_ms <= MAX_REPROMPT_TOTAL_MS
  BY <1>3 DEF Safe
<1> QED
  BY <1>1, <1>3, <1>4, <1>5, <1>6 DEF Start!ServesWhatWasChecked

\* The invariant of the start holds wherever the start runs.
LEMMA StartHolds ==
  ASSUME StartConstants
  PROVE  Spec => [](part = "start" => StartInv)
<1> DEFINE Inv == part = "start" => StartInv
<1>1. Init => Inv
  BY StartStarts DEF Init
<1>2. Inv /\ [Next]_vars => Inv'
  <2> SUFFICES ASSUME Inv, [Next]_vars, part' = "start"
               PROVE  StartInv'
    OBVIOUS
  <2>1. part = "start" /\ StartInv
    BY DEF Next, vars
  <2>2. CASE Start!Next
    BY <2>1, <2>2, StartKeeps
  <2>3. CASE UNCHANGED startVars
    BY <2>1, <2>3, StartStutters
  <2> QED
    BY <2>2, <2>3 DEF Next, vars
<1> QED
  BY <1>1, <1>2, PTL DEF Spec

\* main.rs, config/: whatever the file and the command line say, the proxy that serves dials
\* only http URLs, within the limits on its timeouts, cooldowns and budgets, with one owner for
\* a model, the exporter it was asked for and a log that describes it; and the binder refuses
\* no host the loader let pass.
THEOREM OnlyTheCheckedServes ==
  ASSUME StartConstants
  PROVE  Spec => []ServesWhatWasChecked
<1>1. (part = "start" => StartInv) => ServesWhatWasChecked
  BY CheckedIsServed DEF ServesWhatWasChecked
<1> QED
  BY <1>1, StartHolds, PTL

\* preflight.rs: in whatever order the probes answer or fail, a node forwards the model it was
\* configured with, or else the only one its own server listed, or else what the client asked for.
THEOREM ProbesKeepToTheirNodes ==
  ASSUME StartConstants
  PROVE  Spec => []ModelsAsDiscovered
<1>1. (part = "start" => StartInv) => ModelsAsDiscovered
  BY DEF ModelsAsDiscovered, StartInv
<1> QED
  BY <1>1, StartHolds, PTL
===========================================================================
