------------------------- MODULE PriorityFreeProofs -------------------------
(***************************************************************************)
(* Type correctness and conservation of the busy counters of PriorityFree, *)
(* for any number of nodes and requests and any cooldown.                  *)
(***************************************************************************)
EXTENDS PriorityFreeHistory, FiniteSetTheorems, TLAPS

\* What the locals of a request are worth at each point of its code: which
\* units it holds there, and that the walks stay inside the node list.
Locals(r) ==
  /\ pc[r] \in {"idle", "free", "fallback"} => reserved[r] = {} /\ guard[r] = None
  /\ pc[r] \in {"idle", "free"} \cup Serving => best[r] = None
  /\ pc[r] = "busy" =>
       /\ guard[r] = None
       /\ \A n \in reserved[r] : n < idx[r]
       /\ best[r] = None => reserved[r] = {} /\ key[r] = UsizeMax
       /\ best[r] # None => best[r] \in reserved[r]
  /\ pc[r] = "release" => guard[r] = None /\ best[r] \in reserved[r]
  /\ pc[r] = "fallback" /\ idx[r] > 0 => best[r] # None
  /\ pc[r] \in Serving => reserved[r] = {} /\ guard[r] # None
  /\ pc[r] \in {"free", "busy"} /\ sub[r] # "health" => idx[r] < N

Shape == \A r \in Requests : Locals(r)

IInv == TypeOK /\ Shape /\ Conservation

---------------------------------------------------------------------------
\* candidate_order(0) visits node i at step i, so both scans of select see
\* every node exactly once, lowest index first.
LEMMA VisitIsIndex == ASSUME NEW i \in Nodes PROVE candidate_order(0, i) = i
  BY NodesAssumption DEF candidate_order, Nodes

\* A set of requests that misses one request has room for it.
LEMMA OneMore ==
  ASSUME NEW S \in SUBSET Requests, NEW r \in Requests, r \notin S
  PROVE  /\ Cardinality(S) \in Nat
         /\ Cardinality(S) < UsizeMax
         /\ Cardinality(S \cup {r}) = Cardinality(S) + 1
  <1>1. IsFiniteSet(S) /\ IsFiniteSet(S \cup {r})
    BY RequestsAssumption, FS_Subset
  <1>2. Cardinality(S) \in Nat /\ Cardinality(S \cup {r}) = Cardinality(S) + 1
    BY <1>1, FS_CardinalityType, FS_AddElement
  <1>3. Cardinality(S \cup {r}) <= Cardinality(Requests)
    BY RequestsAssumption, FS_Subset
  <1>4. Cardinality(Requests) \in Nat
    BY RequestsAssumption, FS_CardinalityType
  <1> QED BY <1>2, <1>3, <1>4, UsizeAssumption

\* Removing a request from a set of requests that has it.
LEMMA OneLess ==
  ASSUME NEW S \in SUBSET Requests, NEW r \in S
  PROVE  /\ Cardinality(S) \in 1 .. UsizeMax
         /\ Cardinality(S \ {r}) = Cardinality(S) - 1
  <1>1. r \notin S \ {r} /\ S \ {r} \in SUBSET Requests /\ (S \ {r}) \cup {r} = S
    OBVIOUS
  <1>2. /\ Cardinality(S \ {r}) \in Nat
        /\ Cardinality(S \ {r}) < UsizeMax
        /\ Cardinality(S) = Cardinality(S \ {r}) + 1
    BY <1>1, OneMore
  <1> QED BY <1>2, UsizeAssumption

\* A step that takes one unit of one node keeps the books balanced, and the
\* increment does not wrap.
LEMMA GainUnit ==
  ASSUME TypeOK, Conservation,
         NEW r \in Requests, NEW n \in Nodes, n \notin Held(r),
         Held(r)' = Held(r) \cup {n},
         \A q \in Requests \ {r} : Held(q)' = Held(q),
         active' = [active EXCEPT ![n] = FetchAdd(@)]
  PROVE  /\ Conservation'
         /\ active' \in [Nodes -> 0 .. UsizeMax]
         /\ active[n] < UsizeMax
  <1>1. Holders(n) \in SUBSET Requests /\ r \notin Holders(n)
    BY DEF Holders
  <1>2. active[n] = Cardinality(Holders(n)) /\ active[n] \in Nat /\ active[n] < UsizeMax
    BY <1>1, OneMore DEF Conservation
  <1>3. Holders(n)' = Holders(n) \cup {r}
    BY DEF Holders
  <1>4. Cardinality(Holders(n)') = active[n] + 1
    BY <1>1, <1>2, <1>3, OneMore
  <1>5. \A m \in Nodes \ {n} : Holders(m)' = Holders(m)
    BY DEF Holders
  <1>a. FetchAdd(active[n]) = active[n] + 1
    BY <1>2, UsizeAssumption DEF FetchAdd
  <1>6. active' = [active EXCEPT ![n] = active[n] + 1]
    BY <1>a
  <1>7. active' \in [Nodes -> 0 .. UsizeMax]
    BY <1>2, <1>6, UsizeAssumption DEF TypeOK
  <1>8. ASSUME NEW m \in Nodes PROVE active'[m] = Cardinality(Holders(m)')
    <2>1. CASE m = n
      BY <2>1, <1>4, <1>6 DEF TypeOK
    <2>2. CASE m # n
      BY <2>2, <1>5, <1>6 DEF TypeOK, Conservation
    <2> QED BY <2>1, <2>2
  <1> QED BY <1>2, <1>7, <1>8 DEF Conservation

\* A step that gives back one unit of one node keeps the books balanced, and
\* the decrement does not wrap.
LEMMA LoseUnit ==
  ASSUME TypeOK, Conservation,
         NEW r \in Requests, NEW n \in Nodes, n \in Held(r),
         Held(r)' = Held(r) \ {n},
         \A q \in Requests \ {r} : Held(q)' = Held(q),
         active' = [active EXCEPT ![n] = FetchSub(@)]
  PROVE  /\ Conservation'
         /\ active' \in [Nodes -> 0 .. UsizeMax]
         /\ active[n] > 0
  <1>1. Holders(n) \in SUBSET Requests /\ r \in Holders(n)
    BY DEF Holders
  <1>2. active[n] = Cardinality(Holders(n)) /\ active[n] \in 1 .. UsizeMax
    BY <1>1, OneLess DEF Conservation
  <1>3. Holders(n)' = Holders(n) \ {r}
    BY DEF Holders
  <1>4. Cardinality(Holders(n)') = active[n] - 1
    BY <1>1, <1>2, <1>3, OneLess
  <1>5. \A m \in Nodes \ {n} : Holders(m)' = Holders(m)
    BY DEF Holders
  <1>a. FetchSub(active[n]) = active[n] - 1
    BY <1>2, UsizeAssumption DEF FetchSub
  <1>6. active' = [active EXCEPT ![n] = active[n] - 1]
    BY <1>a
  <1>7. active' \in [Nodes -> 0 .. UsizeMax]
    BY <1>2, <1>6, UsizeAssumption DEF TypeOK
  <1>8. ASSUME NEW m \in Nodes PROVE active'[m] = Cardinality(Holders(m)')
    <2>1. CASE m = n
      BY <2>1, <1>4, <1>6 DEF TypeOK
    <2>2. CASE m # n
      BY <2>2, <1>5, <1>6 DEF TypeOK, Conservation
    <2> QED BY <2>1, <2>2
  <1> QED BY <1>2, <1>7, <1>8 DEF Conservation

\* A step that moves no unit keeps the books balanced.
LEMMA SameUnits ==
  ASSUME Conservation, active' = active, \A q \in Requests : Held(q)' = Held(q)
  PROVE  Conservation'
  <1>1. \A m \in Nodes : Holders(m)' = Holders(m)
    BY DEF Holders
  <1> QED BY <1>1 DEF Conservation

---------------------------------------------------------------------------
\* A step of one request leaves the locals of the others alone.
OthersKeep(r) ==
  \A q \in Requests \ {r} :
    /\ pc'[q] = pc[q] /\ sub'[q] = sub[q] /\ idx'[q] = idx[q]
    /\ best'[q] = best[q] /\ key'[q] = key[q]
    /\ guard'[q] = guard[q] /\ reserved'[q] = reserved[q]

\* Then only the locals and the units of that request need a look.
LEMMA OneMoves ==
  ASSUME Shape, NEW r \in Requests, OthersKeep(r), Locals(r)'
  PROVE  Shape' /\ \A q \in Requests \ {r} : Held(q)' = Held(q)
  <1>1. ASSUME NEW q \in Requests \ {r} PROVE Locals(q)'
    <2>1. Locals(q) BY DEF Shape
    <2> QED BY <2>1 DEF OthersKeep, Locals
  <1>2. Shape' BY <1>1 DEF Shape
  <1>3. \A q \in Requests \ {r} : Held(q)' = Held(q)
    BY DEF OthersKeep, Held
  <1> QED BY <1>2, <1>3

\* The invariant holds initially: every counter is 0 and nothing is held.
LEMMA InitIInv == Init => IInv
  <1> SUFFICES ASSUME Init PROVE IInv
    OBVIOUS
  <1>1. TypeOK
    BY NodesAssumption, ClockAssumption, UsizeAssumption
    DEF Init, NodeInit, TypeOK, Nodes, Selecting, Serving
  <1>2. Shape
    BY DEF Init, NodeInit, Shape, Locals, Serving
  <1>3. \A n \in Nodes : Holders(n) = {}
    BY DEF Init, NodeInit, Holders, Held
  <1>4. Conservation
    BY <1>3, FS_EmptySet DEF Init, NodeInit, Conservation
  <1> QED BY <1>1, <1>2, <1>4 DEF IInv

\* Steps that move no unit: the beginning and the bookkeeping of the walks.
LEMMA BeginStep ==
  ASSUME IInv, NEW r \in Requests, Begin(r) PROVE IInv'
  <1> USE DEF Begin, Walk, nodeVars
  <1>1. TypeOK'
    BY NodesAssumption DEF IInv, TypeOK, Selecting
  <1>2. Locals(r) /\ pc[r] = "idle" BY DEF IInv, Shape
  <1>3. OthersKeep(r) BY DEF OthersKeep, IInv, TypeOK
  <1>4. Locals(r)'
    BY <1>2 DEF Locals, IInv, TypeOK, Serving
  <1>5. Held(r)' = Held(r) BY DEF Held
  <1>6. Shape' /\ \A q \in Requests : Held(q)' = Held(q)
    BY <1>3, <1>4, <1>5, OneMoves DEF IInv
  <1> QED BY <1>1, <1>6, SameUnits DEF IInv

\* The two reads of in_cooldown.
LEMMA CheckStep ==
  ASSUME IInv, NEW r \in Requests, Check(r) PROVE IInv'
  <1> USE DEF Check, LoadHealthy, ReadUntil, Visited, nodeVars
  <1>0. Locals(r) BY DEF IInv, Shape
  <1>1. TypeOK'
    BY <1>0, NodesAssumption DEF IInv, TypeOK, Selecting, Serving, Locals
  <1>3. OthersKeep(r) BY DEF OthersKeep, IInv, TypeOK
  <1>4. Locals(r)'
    <2>1. CASE \E phase \in {"free", "busy"} : LoadHealthy(r, phase, Visiting(r))
      BY <2>1, <1>0, NodesAssumption DEF Locals, IInv, TypeOK, Serving, Nodes
    <2>2. CASE \E phase \in {"free", "busy"} : ReadUntil(r, phase, Visiting(r))
      BY <2>2, <1>0, NodesAssumption DEF Locals, IInv, TypeOK, Serving, Nodes
    <2> QED BY <2>1, <2>2
  <1>5. Held(r)' = Held(r) BY DEF Held
  <1>6. Shape' /\ \A q \in Requests : Held(q)' = Held(q)
    BY <1>3, <1>4, <1>5, OneMoves DEF IInv
  <1> QED BY <1>1, <1>6, SameUnits DEF IInv

\* The end of the first walk.
LEMMA FreeExhaustedStep ==
  ASSUME IInv, NEW r \in Requests, FreeExhausted(r) PROVE IInv'
  <1> USE DEF FreeExhausted, Walk, nodeVars
  <1>0. Locals(r) BY DEF IInv, Shape
  <1>1. TypeOK'
    BY <1>0, NodesAssumption, UsizeAssumption DEF IInv, TypeOK, Selecting, Serving, Locals
  <1>3. OthersKeep(r) BY DEF OthersKeep, IInv, TypeOK
  <1>4. Locals(r)'
    BY <1>0, NodesAssumption, UsizeAssumption DEF Locals, IInv, TypeOK, Serving
  <1>5. Held(r)' = Held(r) BY DEF Held
  <1>6. Shape' /\ \A q \in Requests : Held(q)' = Held(q)
    BY <1>3, <1>4, <1>5, OneMoves DEF IInv
  <1> QED BY <1>1, <1>6, SameUnits DEF IInv

\* The end of the second walk.
LEMMA BusyExhaustedStep ==
  ASSUME IInv, NEW r \in Requests, BusyExhausted(r) PROVE IInv'
  <1> USE DEF BusyExhausted, Walk, nodeVars
  <1>0. Locals(r) BY DEF IInv, Shape
  <1>1. TypeOK'
    BY <1>0, NodesAssumption DEF IInv, TypeOK, Selecting, Serving, Locals
  <1>3. OthersKeep(r) BY DEF OthersKeep, IInv, TypeOK
  <1>4. Locals(r)'
    BY <1>0, NodesAssumption DEF Locals, IInv, TypeOK, Serving
  <1>5. Held(r)' = Held(r) BY DEF Held
  <1>6. Shape' /\ \A q \in Requests : Held(q)' = Held(q)
    BY <1>3, <1>4, <1>5, OneMoves DEF IInv
  <1> QED BY <1>1, <1>6, SameUnits DEF IInv

\* One visit of soonest_recovering_node.
LEMMA FallbackVisitStep ==
  ASSUME IInv, NEW r \in Requests, FallbackVisit(r), UNCHANGED reserved PROVE IInv'
  <1> USE DEF FallbackVisit, Visited, nodeVars
  <1>0. Locals(r) BY DEF IInv, Shape
  <1>a. idx[r] \in Nodes /\ cooldown_until[idx[r]] \in Nat
    BY NodesAssumption DEF IInv, TypeOK, Nodes
  <1>b. idx' \in [Requests -> 0 .. N]
    BY <1>a, NodesAssumption, SMTT(30) DEF IInv, TypeOK, Nodes
  <1>c. best' \in [Requests -> Nodes \cup {None}] /\ key' \in [Requests -> Nat]
    BY <1>a DEF IInv, TypeOK
  <1>1. TypeOK'
    BY <1>b, <1>c DEF IInv, TypeOK
  <1>3. OthersKeep(r) BY DEF OthersKeep, IInv, TypeOK
  <1>4. Locals(r)'
    BY <1>0, NodesAssumption, NoneAssumption, SMTT(30) DEF Locals, IInv, TypeOK, Serving, Nodes
  <1>5. Held(r)' = Held(r) BY DEF Held
  <1>6. Shape' /\ \A q \in Requests : Held(q)' = Held(q)
    BY <1>3, <1>4, <1>5, OneMoves DEF IInv
  <1> QED BY <1>1, <1>6, SameUnits DEF IInv

\* mark_healthy touches the flag only.
LEMMA MarkHealthyStep ==
  ASSUME IInv, NEW r \in Requests, MarkHealthy(r), UNCHANGED reserved PROVE IInv'
  <1> USE DEF MarkHealthy, walkVars
  <1>0. Locals(r) BY DEF IInv, Shape
  <1>1. TypeOK'
    BY <1>0, NodesAssumption DEF IInv, TypeOK, Selecting, Serving, Locals
  <1>3. OthersKeep(r) BY DEF OthersKeep, IInv, TypeOK
  <1>4. Locals(r)'
    BY <1>0, NodesAssumption DEF Locals, IInv, TypeOK, Serving
  <1>5. Held(r)' = Held(r) BY DEF Held
  <1>6. Shape' /\ \A q \in Requests : Held(q)' = Held(q)
    BY <1>3, <1>4, <1>5, OneMoves DEF IInv
  <1> QED BY <1>1, <1>6, SameUnits DEF IInv

\* mark_failed: the clock, the expiry and the flag.
LEMMA MarkFailedStep ==
  ASSUME IInv, NEW r \in Requests, MarkFailed(r), UNCHANGED reserved PROVE IInv'
  <1> USE DEF MarkFailed, nodeVars
  <1>0. Locals(r) BY DEF IInv, Shape
  <1>1. TypeOK'
    BY <1>0, NodesAssumption DEF IInv, TypeOK, Selecting, Serving, Locals
  <1>3. OthersKeep(r) BY DEF OthersKeep, IInv, TypeOK
  <1>4. Locals(r)'
    BY <1>0, NodesAssumption DEF Locals, IInv, TypeOK, Serving
  <1>5. Held(r)' = Held(r) BY DEF Held
  <1>6. Shape' /\ \A q \in Requests : Held(q)' = Held(q)
    BY <1>3, <1>4, <1>5, OneMoves DEF IInv
  <1> QED BY <1>1, <1>6, SameUnits DEF IInv

\* The expiry, written under the mutex.
LEMMA MarkFailedExpiryStep ==
  ASSUME IInv, NEW r \in Requests, MarkFailedExpiry(r), UNCHANGED reserved PROVE IInv'
  <1> USE DEF MarkFailedExpiry, walkVars
  <1>0. Locals(r) BY DEF IInv, Shape
  <1>1. TypeOK'
    BY <1>0, ClockAssumption DEF IInv, TypeOK, Selecting, Serving, Locals
  <1>3. OthersKeep(r) BY DEF OthersKeep, IInv, TypeOK
  <1>4. Locals(r)'
    BY <1>0, ClockAssumption DEF Locals, IInv, TypeOK, Serving
  <1>5. Held(r)' = Held(r) BY DEF Held
  <1>6. Shape' /\ \A q \in Requests : Held(q)' = Held(q)
    BY <1>3, <1>4, <1>5, OneMoves DEF IInv
  <1> QED BY <1>1, <1>6, SameUnits DEF IInv

\* The flag, and the end of the critical section.
LEMMA MarkFailedFlagStep ==
  ASSUME IInv, NEW r \in Requests, MarkFailedFlag(r), UNCHANGED reserved PROVE IInv'
  <1> USE DEF MarkFailedFlag, walkVars
  <1>0. Locals(r) BY DEF IInv, Shape
  <1>1. TypeOK'
    BY <1>0, NodesAssumption DEF IInv, TypeOK, Selecting, Serving, Locals
  <1>3. OthersKeep(r) BY DEF OthersKeep, IInv, TypeOK
  <1>4. Locals(r)'
    BY <1>0, NodesAssumption DEF Locals, IInv, TypeOK, Serving
  <1>5. Held(r)' = Held(r) BY DEF Held
  <1>6. Shape' /\ \A q \in Requests : Held(q)' = Held(q)
    BY <1>3, <1>4, <1>5, OneMoves DEF IInv
  <1> QED BY <1>1, <1>6, SameUnits DEF IInv

\* Visiting a node and returning a guard keep the locals of the walk typed.
LocalTypes ==
  /\ pc \in [Requests -> {"idle"} \cup Selecting \cup Serving]
  /\ sub \in [Requests -> {"health", "until", "act"}]
  /\ now \in [Requests -> 0 .. MaxClock]
  /\ idx \in [Requests -> 0 .. N]
  /\ best \in [Requests -> Nodes \cup {None}]
  /\ key \in [Requests -> Nat]
  /\ guard \in [Requests -> Nodes \cup {None}]

\* The end of a loop body stays within the node list.
LEMMA VisitedTypes ==
  ASSUME TypeOK, NEW r \in Requests, idx[r] \in Nodes, Visited(r)
  PROVE  idx' \in [Requests -> 0 .. N] /\ sub' \in [Requests -> {"health", "until", "act"}]
  BY NodesAssumption, SMTT(30) DEF TypeOK, Visited, Nodes

\* from_claimed leaves every local typed.
LEMMA FromClaimedTypes ==
  ASSUME TypeOK, NEW r \in Requests, NEW n \in Nodes, FromClaimed(r, n)
  PROVE  LocalTypes'
  <1>1. pc' \in [Requests -> {"idle"} \cup Selecting \cup Serving]
    BY DEF TypeOK, FromClaimed, Serving
  <1>2. guard' \in [Requests -> Nodes \cup {None}] /\ best' \in [Requests -> Nodes \cup {None}]
    BY DEF TypeOK, FromClaimed
  <1>3. /\ now' \in [Requests -> 0 .. MaxClock]
        /\ idx' \in [Requests -> 0 .. N]
        /\ key' \in [Requests -> Nat]
        /\ sub' \in [Requests -> {"health", "until", "act"}]
    BY NodesAssumption, ClockAssumption DEF TypeOK, FromClaimed
  <1> QED BY <1>1, <1>2, <1>3 DEF LocalTypes

\* The compare_exchange: a success takes one unit of an idle node.
LEMMA FreeClaimStep ==
  ASSUME IInv, NEW r \in Requests, FreeClaim(r) PROVE IInv'
  <1> USE DEF FreeClaim, FromClaimed, Visited
  <1> DEFINE n == Visiting(r)
  <1>0. Locals(r) BY DEF IInv, Shape
  <1>1. idx[r] \in Nodes BY <1>0, NodesAssumption DEF Locals, IInv, TypeOK, Nodes
  <1>2. n \in Nodes BY <1>1, VisitIsIndex DEF Visiting
  <1>3. OthersKeep(r) BY DEF OthersKeep, IInv, TypeOK
  <1>4. CASE active[n] = 0
    <2>1. Locals(r)'
      BY <1>0, <1>2, <1>4, NoneAssumption DEF Locals, IInv, TypeOK, Serving
    <2>2. Held(r) = {} /\ Held(r)' = {n}
      BY <1>0, <1>2, <1>4, NoneAssumption DEF Locals, Held, IInv, TypeOK
    <2>3. Shape' /\ \A q \in Requests \ {r} : Held(q)' = Held(q)
      BY <1>3, <2>1, OneMoves DEF IInv
    <2>4. UsizeMax # 0
      <3>1. {} \in SUBSET Requests /\ r \notin {} OBVIOUS
      <3>2. 0 < UsizeMax BY <3>1, OneMore, FS_EmptySet, UsizeAssumption
      <3> QED BY <3>2, UsizeAssumption
    <2>5. active' = [active EXCEPT ![n] = FetchAdd(@)]
      BY <1>4, <2>4 DEF FetchAdd, IInv, TypeOK
    <2>6. Conservation' /\ active' \in [Nodes -> 0 .. UsizeMax]
      BY <1>2, <2>2, <2>3, <2>5, GainUnit DEF IInv
    <2>7. LocalTypes'
      BY <1>2, <1>4, FromClaimedTypes DEF IInv
    <2>9. TypeOK'
      BY <2>6, <2>7 DEF IInv, TypeOK, LocalTypes
    <2> QED BY <2>3, <2>6, <2>9 DEF IInv
  <1>5. CASE active[n] # 0
    <2>0. idx' \in [Requests -> 0 .. N] /\ sub' \in [Requests -> {"health", "until", "act"}]
      BY <1>1, <1>5, VisitedTypes DEF IInv
    <2>1. TypeOK'
      BY <1>5, <2>0 DEF IInv, TypeOK
    <2>2. Locals(r)'
      BY <1>0, <1>5 DEF Locals, IInv, TypeOK, Serving
    <2>3. Held(r)' = Held(r) BY <1>5 DEF Held
    <2>4. Shape' /\ \A q \in Requests : Held(q)' = Held(q)
      BY <1>3, <2>2, <2>3, OneMoves DEF IInv
    <2> QED BY <1>5, <2>1, <2>4, SameUnits DEF IInv
  <1> QED BY <1>4, <1>5

\* The fetch_add of the second walk: one unit more, and recorded as such.
LEMMA ReserveStep ==
  ASSUME IInv, NEW r \in Requests, Reserve(r) PROVE IInv'
  <1> USE DEF Reserve
  <1> DEFINE n == Visiting(r)
  <1>0. Locals(r) /\ pc[r] = "busy" BY DEF IInv, Shape
  <1>1. idx[r] \in Nodes BY <1>0, NodesAssumption DEF Locals, IInv, TypeOK, Nodes
  <1>2. n = idx[r] BY <1>1, VisitIsIndex DEF Visiting
  <1>3. OthersKeep(r) BY DEF OthersKeep, IInv, TypeOK, Visited
  <1>4. n \notin reserved[r] /\ guard[r] = None
    BY <1>0, <1>1, <1>2 DEF Locals, Nodes
  <1>5. n \notin Held(r) /\ Held(r)' = Held(r) \cup {n}
    BY <1>1, <1>2, <1>4 DEF Held, IInv, TypeOK
  <1>6. \A q \in Requests \ {r} : Held(q)' = Held(q)
    BY <1>3 DEF OthersKeep, Held
  <1>7. Conservation' /\ active' \in [Nodes -> 0 .. UsizeMax] /\ active[n] < UsizeMax
    BY <1>1, <1>2, <1>5, <1>6, GainUnit DEF IInv
  <1>8. active[n] \in Nat BY <1>1, <1>2, UsizeAssumption DEF IInv, TypeOK
  <1>9. reserved'[r] = reserved[r] \cup {n} /\ idx'[r] = idx[r] + 1 /\ pc'[r] = "busy"
    BY <1>0 DEF IInv, TypeOK, Visited
  <1>a. best'[r] # None /\ best'[r] \in reserved'[r]
    <2>1. CASE active[n] < key[r]
      <3>1. best'[r] = n
        BY <2>1, <1>8 DEF IInv, TypeOK
      <3> QED BY <3>1, <1>1, <1>2, <1>9, NoneAssumption
    <2>2. CASE active[n] >= key[r]
      <3>1. best'[r] = best[r]
        BY <2>2, <1>8 DEF IInv, TypeOK
      <3>2. best[r] # None
        BY <2>2, <1>0, <1>7, <1>8, UsizeAssumption DEF Locals
      <3> QED BY <3>1, <3>2, <1>0, <1>9 DEF Locals
    <2> QED BY <2>1, <2>2, <1>8 DEF IInv, TypeOK
  <1>b. \A m \in reserved'[r] : m < idx'[r]
    <2>1. reserved[r] \subseteq Nodes /\ idx[r] \in Nat
      BY NodesAssumption DEF IInv, TypeOK
    <2> QED BY <1>0, <1>2, <1>9, <2>1 DEF Locals, Nodes
  <1>c. Locals(r)'
    BY <1>4, <1>9, <1>a, <1>b DEF Locals, Serving, IInv, TypeOK, Visited
  <1>d. Shape' BY <1>3, <1>c, OneMoves DEF IInv
  <1>e. idx' \in [Requests -> 0 .. N] /\ sub' \in [Requests -> {"health", "until", "act"}]
    BY <1>1, VisitedTypes DEF IInv
  <1>f. /\ best' \in [Requests -> Nodes \cup {None}]
        /\ key' \in [Requests -> Nat]
        /\ reserved' \in [Requests -> SUBSET Nodes]
    BY <1>1, <1>2, <1>8 DEF IInv, TypeOK
  <1>g. TypeOK' BY <1>7, <1>e, <1>f DEF IInv, TypeOK
  <1> QED BY <1>7, <1>d, <1>g DEF IInv

\* The release loop: each losing reservation gives its unit back once.
LEMMA ReleaseLoserStep ==
  ASSUME IInv, NEW r \in Requests, ReleaseLoser(r) PROVE IInv'
  <1> USE DEF ReleaseLoser, walkVars
  <1>0. Locals(r) /\ pc[r] = "release" BY DEF IInv, Shape
  <1>1. PICK n \in reserved[r] \ {best[r]} :
               /\ active' = [active EXCEPT ![n] = FetchSub(@)]
               /\ reserved' = [reserved EXCEPT ![r] = @ \ {n}]
    OBVIOUS
  <1>2. n \in Nodes BY <1>1 DEF IInv, TypeOK
  <1>3. OthersKeep(r) BY <1>1 DEF OthersKeep, IInv, TypeOK
  <1>4. n \in Held(r) /\ Held(r)' = Held(r) \ {n}
    BY <1>0, <1>1 DEF Held, Locals, IInv, TypeOK
  <1>5. \A q \in Requests \ {r} : Held(q)' = Held(q)
    BY <1>3 DEF OthersKeep, Held
  <1>6. Conservation' /\ active' \in [Nodes -> 0 .. UsizeMax]
    BY <1>1, <1>2, <1>4, <1>5, LoseUnit DEF IInv
  <1>7. Locals(r)'
    BY <1>0, <1>1 DEF Locals, IInv, TypeOK, Serving
  <1>8. Shape' BY <1>3, <1>7, OneMoves DEF IInv
  <1>9. reserved' \in [Requests -> SUBSET Nodes]
    BY <1>1 DEF IInv, TypeOK
  <1>a. TypeOK' BY <1>6, <1>9 DEF IInv, TypeOK
  <1> QED BY <1>6, <1>8, <1>a DEF IInv

\* from_claimed: the winner's unit passes from the reservation to the guard.
LEMMA KeepWinnerStep ==
  ASSUME IInv, NEW r \in Requests, KeepWinner(r) PROVE IInv'
  <1> USE DEF KeepWinner, nodeVars
  <1>0. Locals(r) /\ pc[r] = "release" BY DEF IInv, Shape
  <1>1. best[r] \in Nodes /\ reserved[r] = {best[r]} /\ guard[r] = None
    BY <1>0 DEF Locals, IInv, TypeOK
  <1>2. /\ pc'[r] = "holding" /\ guard'[r] = best[r] /\ best'[r] = None
        /\ reserved'[r] = {}
    BY DEF FromClaimed, IInv, TypeOK
  <1>3. OthersKeep(r) BY DEF OthersKeep, FromClaimed, IInv, TypeOK
  <1>4. Locals(r)'
    BY <1>1, <1>2, NoneAssumption DEF Locals, Serving
  <1>5. Held(r)' = Held(r)
    BY <1>1, <1>2, NoneAssumption DEF Held
  <1>6. Shape' /\ \A q \in Requests : Held(q)' = Held(q)
    BY <1>3, <1>4, <1>5, OneMoves DEF IInv
  <1>7. LocalTypes' BY <1>1, FromClaimedTypes DEF IInv
  <1>8. TypeOK' BY <1>7 DEF IInv, TypeOK, LocalTypes
  <1> QED BY <1>6, <1>8, SameUnits DEF IInv

\* BackendGuard::new on the soonest node to recover: one unit more.
LEMMA FallbackClaimStep ==
  ASSUME IInv, NEW r \in Requests, FallbackClaim(r), UNCHANGED reserved PROVE IInv'
  <1> USE DEF FallbackClaim, NewGuard
  <1> DEFINE n == best[r]
  <1>0. Locals(r) /\ pc[r] = "fallback" BY DEF IInv, Shape
  <1>1. n \in Nodes /\ guard[r] = None /\ reserved[r] = {}
    BY <1>0, NodesAssumption DEF Locals, IInv, TypeOK
  <1>2. /\ pc'[r] = "holding" /\ guard'[r] = n /\ best'[r] = None
        /\ reserved'[r] = {}
    BY <1>1 DEF FromClaimed, IInv, TypeOK
  <1>3. OthersKeep(r) BY DEF OthersKeep, FromClaimed, IInv, TypeOK
  <1>4. Locals(r)'
    BY <1>1, <1>2, NoneAssumption DEF Locals, Serving
  <1>5. n \notin Held(r) /\ Held(r)' = Held(r) \cup {n}
    BY <1>1, <1>2, NoneAssumption DEF Held
  <1>6. Shape' /\ \A q \in Requests \ {r} : Held(q)' = Held(q)
    BY <1>3, <1>4, OneMoves DEF IInv
  <1>7. Conservation' /\ active' \in [Nodes -> 0 .. UsizeMax]
    BY <1>1, <1>5, <1>6, GainUnit DEF IInv
  <1>8. LocalTypes' BY <1>1, FromClaimedTypes DEF IInv
  <1>9. TypeOK' BY <1>7, <1>8 DEF IInv, TypeOK, LocalTypes
  <1> QED BY <1>6, <1>7, <1>9 DEF IInv

\* The drop of the last clone: the guard's unit goes back, and the saturating
\* repair in Drop for BusyHandle is never needed.
LEMMA DropGuardStep ==
  ASSUME IInv, NEW r \in Requests, DropGuard(r), UNCHANGED reserved PROVE IInv'
  <1> USE DEF DropGuard, walkVars
  <1> DEFINE n == guard[r]
  <1>0. Locals(r) BY DEF IInv, Shape
  <1>1. n \in Nodes /\ n # None /\ reserved[r] = {} /\ best[r] = None
    BY <1>0 DEF Locals, Serving, IInv, TypeOK
  <1>2. pc'[r] = "idle" /\ guard'[r] = None /\ reserved'[r] = {} /\ best'[r] = None
    BY <1>1 DEF IInv, TypeOK
  <1>3. OthersKeep(r) BY DEF OthersKeep, IInv, TypeOK
  <1>4. Locals(r)' BY <1>2 DEF Locals, Serving
  <1>5. n \in Held(r) /\ Held(r)' = Held(r) \ {n}
    BY <1>1, <1>2 DEF Held
  <1>6. Shape' /\ \A q \in Requests \ {r} : Held(q)' = Held(q)
    BY <1>3, <1>4, OneMoves DEF IInv
  <1>7. r \in Holders(n) /\ Holders(n) \in SUBSET Requests
    BY <1>5 DEF Holders
  <1>8. active[n] \in 1 .. UsizeMax
    BY <1>1, <1>7, OneLess DEF IInv, Conservation
  <1>9. ReleaseSlot(active[n]) = FetchSub(active[n])
    BY <1>8 DEF ReleaseSlot
  <1>a. active' = [active EXCEPT ![n] = FetchSub(@)]
    BY <1>9
  <1>b. Conservation' /\ active' \in [Nodes -> 0 .. UsizeMax]
    BY <1>1, <1>5, <1>6, <1>a, LoseUnit DEF IInv
  <1>c. TypeOK' BY <1>b DEF IInv, TypeOK
  <1> QED BY <1>6, <1>b, <1>c DEF IInv

\* The clock moves nothing else.
LEMMA TickStep ==
  ASSUME IInv, Tick, UNCHANGED reserved PROVE IInv'
  <1> USE DEF Tick, nodeVars, walkVars
  <1>1. TypeOK' BY ClockAssumption DEF IInv, TypeOK
  <1>2. Shape' BY DEF IInv, Shape, Locals
  <1>3. \A q \in Requests : Held(q)' = Held(q) BY DEF Held
  <1> QED BY <1>1, <1>2, <1>3, SameUnits DEF IInv

\* IInv is inductive: one case per action of Next.
LEMMA NextIInv == IInv /\ [Next]_pfVars => IInv'
  <1> SUFFICES ASSUME IInv, [Next]_pfVars PROVE IInv'
    OBVIOUS
  <1>1. ASSUME NEW r \in Requests, Select(r) PROVE IInv'
    BY <1>1, BeginStep, CheckStep, FreeClaimStep, FreeExhaustedStep, ReserveStep,
       BusyExhaustedStep, ReleaseLoserStep, KeepWinnerStep, FallbackVisitStep,
       FallbackClaimStep
    DEF Select, Fallback
  <1>2. ASSUME NEW r \in Requests, Serve(r), UNCHANGED reserved PROVE IInv'
    BY <1>2, MarkHealthyStep, MarkFailedStep, MarkFailedExpiryStep,
       MarkFailedFlagStep, DropGuardStep
    DEF Serve
  <1>3. CASE UNCHANGED pfVars
    <2> USE <1>3 DEF pfVars, vars
    <2>1. TypeOK' BY DEF IInv, TypeOK
    <2>2. Shape' BY DEF IInv, Shape, Locals
    <2>3. \A q \in Requests : Held(q)' = Held(q) BY DEF Held
    <2> QED BY <2>1, <2>2, <2>3, SameUnits DEF IInv
  <1> QED BY <1>1, <1>2, <1>3, TickStep DEF Next, Step

---------------------------------------------------------------------------
\* The inductive invariant holds in every reachable state.
LEMMA Invariance == Spec => []IInv
  BY InitIInv, NextIInv, PTL DEF Spec

\* Every variable keeps its type: in particular no busy counter wraps and no
\* walk of select leaves the node list.
THEOREM TypeCorrect == Spec => []TypeOK
  <1>1. IInv => TypeOK BY DEF IInv
  <1> QED BY <1>1, Invariance, PTL

\* A node's busy counter is at every instant the number of guards on it plus
\* the number of transient reservations on it, for any number of nodes and
\* requests and any interleaving.
THEOREM CountersConserved == Spec => []Conservation
  <1>1. IInv => Conservation BY DEF IInv
  <1> QED BY <1>1, Invariance, PTL

\* Two requests never free-claim the same idle node: a successful
\* compare_exchange of select finds nobody serving from or reserving the node.
THEOREM FreeClaimsExclusive == Spec => FreeClaimExclusive
  <1> DEFINE Exclusive ==
        \A r \in Requests :
          pc[r] = "free" /\ pc'[r] = "holding" => Holders(guard'[r]) = {}
  <1>1. ASSUME IInv, Next, NEW r \in Requests, pc[r] = "free", pc'[r] = "holding"
        PROVE  active[guard'[r]] = 0 /\ guard'[r] \in Nodes
    <2> USE DEF Select, Begin, Check, LoadHealthy, ReadUntil, FreeExhausted, Reserve,
               BusyExhausted, ReleaseLoser, KeepWinner, Fallback, FallbackVisit,
               FallbackClaim, NewGuard, FromClaimed, Serve, MarkHealthy, MarkFailed,
               MarkFailedExpiry, MarkFailedFlag, DropGuard, Walk
    <2>1. PICK q \in Requests : Step(q)
      BY <1>1 DEF Next, Tick
    <2>2. CASE q # r
      <3>1. pc'[r] = pc[r]
        BY <2>1, <2>2, <1>1 DEF Step, FreeClaim, IInv, TypeOK
      <3> QED BY <3>1, <1>1
    <2>3. CASE q = r
      <3>1. FreeClaim(r)
        BY <2>1, <2>3, <1>1 DEF Step, IInv, TypeOK
      <3>2. Locals(r) BY <1>1 DEF IInv, Shape
      <3>3. idx[r] \in Nodes
        BY <3>1, <3>2, NodesAssumption, <1>1 DEF FreeClaim, Locals, IInv, TypeOK, Nodes
      <3>4. Visiting(r) \in Nodes BY <3>3, VisitIsIndex DEF Visiting
      <3>5. active[Visiting(r)] = 0 /\ guard'[r] = Visiting(r)
        BY <3>1, <3>4, <1>1 DEF FreeClaim, Visited, IInv, TypeOK
      <3> QED BY <3>4, <3>5
    <2> QED BY <2>2, <2>3
  <1>2. IInv /\ [Next]_pfVars => [Exclusive]_pfVars
    <2> SUFFICES ASSUME IInv, Next, NEW r \in Requests, pc[r] = "free", pc'[r] = "holding"
                 PROVE  Holders(guard'[r]) = {}
      OBVIOUS
    <2>1. active[guard'[r]] = 0 /\ guard'[r] \in Nodes
      BY <1>1
    <2>2. Cardinality(Holders(guard'[r])) = 0
      BY <2>1 DEF IInv, Conservation
    <2>3. IsFiniteSet(Holders(guard'[r]))
      BY RequestsAssumption, FS_Subset DEF Holders
    <2> QED BY <2>2, <2>3, FS_EmptySet
  <1> QED BY <1>2, Invariance, PTL DEF Spec, FreeClaimExclusive

---------------------------------------------------------------------------
(* What a select may answer, judged with the history of PriorityFreeHistory. *)

\* What the histories of a request are worth at each point of its select.  The busy
\* walk leaves no steady node behind while it has nothing, although it reads the flag
\* and the expiry in two steps: if a steady node was found unhealthy, an expiry that
\* is in the future now was written under a mutex that has not been released since.
Judged(r) ==
  /\ steady[r] \subseteq Nodes
  /\ pc[r] \in Selecting =>
       steady[r] \subseteq Selectable(now[r]) /\ barred[r] \cap Selectable(now[r]) = {}
  /\ pc[r] = "busy" /\ best[r] = None => \A n \in steady[r] : idx[r] <= n
  /\ pc[r] = "busy" /\ sub[r] = "until" /\ idx[r] \in steady[r] =>
       cooldown_until[idx[r]] <= now[r] \/ lock[idx[r]] # None
  /\ pc[r] = "fallback" => steady[r] = {}
  /\ pc[r] \in {"free", "busy"} /\ sub[r] = "act" => idx[r] \notin barred[r]
  /\ pc[r] \in {"busy", "release"} => reserved[r] \cap barred[r] = {}

HInv == IInv /\ \A r \in Requests : Judged(r)

\* A history only loses nodes during a select, and holds what qualifies now.
LEMMA HistoryStep ==
  ASSUME HNext, NEW r \in Requests
  PROVE  /\ pc'[r] \notin Selecting => steady'[r] = {} /\ barred'[r] = {}
         /\ pc'[r] \in Selecting =>
              /\ steady'[r] \subseteq Selectable(now[r])'
              /\ barred'[r] \cap Selectable(now[r])' = {}
         /\ pc[r] # "idle" => steady'[r] \subseteq steady[r] /\ barred'[r] \subseteq barred[r]
         /\ steady'[r] \subseteq Nodes
  <1>1. /\ steady'[r] = Still(r, steady[r], Selectable(now[r])')
        /\ barred'[r] = Still(r, barred[r], Nodes \ Selectable(now[r])')
    BY DEF HNext
  <1>2. Selectable(now[r])' \subseteq Nodes
    BY DEF Selectable
  <1>3. CASE pc'[r] \notin Selecting
    <2>1. steady'[r] = {} /\ barred'[r] = {}
      BY <1>1, <1>3 DEF Still
    <2> QED BY <2>1, <1>3
  <1>4. CASE pc'[r] \in Selecting /\ pc[r] = "idle"
    <2>1. steady'[r] = Selectable(now[r])' /\ barred'[r] = Nodes \ Selectable(now[r])'
      BY <1>1, <1>4 DEF Still
    <2> QED BY <2>1, <1>2, <1>4
  <1>5. CASE pc'[r] \in Selecting /\ pc[r] # "idle"
    <2>1. /\ steady'[r] = steady[r] \cap Selectable(now[r])'
          /\ barred'[r] = barred[r] \cap (Nodes \ Selectable(now[r])')
      BY <1>1, <1>5 DEF Still
    <2> QED BY <2>1, <1>2, <1>5
  <1> QED BY <1>3, <1>4, <1>5

\* mark_failed: an expiry is written only with the mutex taken, and the mutex is
\* released only with the flag down.
LEMMA MutexCoversFlag ==
  ASSUME IInv, Next, NEW n \in Nodes
  PROVE  \/ lock'[n] # None
         \/ cooldown_until'[n] = cooldown_until[n] /\ (lock'[n] = lock[n] \/ ~healthy'[n])
  <1>1. CASE UNCHANGED <<cooldown_until, lock>>
    BY <1>1
  <1>2. ASSUME NEW q \in Requests, MarkFailedExpiry(q)
        PROVE  lock'[n] # None \/ (cooldown_until'[n] = cooldown_until[n] /\ lock'[n] = lock[n])
    BY <1>2, NoneAssumption DEF MarkFailedExpiry, IInv, TypeOK
  <1>3. ASSUME NEW q \in Requests, MarkFailedFlag(q)
        PROVE  cooldown_until'[n] = cooldown_until[n] /\ (lock'[n] = lock[n] \/ ~healthy'[n])
    BY <1>3 DEF MarkFailedFlag, IInv, TypeOK
  <1>4. ASSUME NEW q \in Requests, Select(q)
        PROVE  UNCHANGED <<cooldown_until, lock>>
    BY <1>4 DEF Select, Begin, Check, LoadHealthy, ReadUntil, FreeClaim, FreeExhausted,
       Reserve, BusyExhausted, ReleaseLoser, KeepWinner, Fallback, FallbackVisit,
       FallbackClaim, nodeVars
  <1>5. ASSUME NEW q \in Requests, MarkHealthy(q) \/ MarkFailed(q) \/ DropGuard(q)
        PROVE  UNCHANGED <<cooldown_until, lock>>
    BY <1>5 DEF MarkHealthy, MarkFailed, DropGuard, nodeVars
  <1>6. ASSUME Tick PROVE UNCHANGED <<cooldown_until, lock>>
    BY <1>6 DEF Tick, nodeVars
  <1> QED BY <1>1, <1>2, <1>3, <1>4, <1>5, <1>6 DEF Next, Step, Serve

\* What a request has concluded survives the steps of the others and of the clock.
LEMMA OthersCannotMislead ==
  ASSUME IInv, HNext, NEW r \in Requests, Judged(r),
         pc'[r] = pc[r], sub'[r] = sub[r], idx'[r] = idx[r], best'[r] = best[r],
         pc[r] \in Selecting => now'[r] = now[r], reserved'[r] = reserved[r]
  PROVE  Judged(r)'
  <1>1. CASE pc[r] \notin Selecting
    BY <1>1, HistoryStep DEF Judged, Selecting
  <1>2. CASE pc[r] \in Selecting
    <2>1. /\ steady'[r] \subseteq steady[r] /\ barred'[r] \subseteq barred[r]
          /\ steady'[r] \subseteq Selectable(now[r])' /\ barred'[r] \cap Selectable(now[r])' = {}
          /\ steady'[r] \subseteq Nodes
      BY <1>2, HistoryStep DEF Selecting
    <2>2. ASSUME pc[r] = "busy", sub[r] = "until", idx[r] \in steady'[r]
          PROVE  cooldown_until'[idx[r]] <= now[r] \/ lock'[idx[r]] # None
      <3>1. idx[r] \in Nodes /\ (cooldown_until[idx[r]] <= now[r] \/ lock[idx[r]] # None)
        BY <2>1, <2>2 DEF Judged
      <3>2. healthy'[idx[r]] \/ ~(now[r] < cooldown_until'[idx[r]])
        BY <1>2, <2>1, <2>2 DEF Selectable, Cooled
      <3>3. \/ lock'[idx[r]] # None
            \/ /\ cooldown_until'[idx[r]] = cooldown_until[idx[r]]
               /\ lock'[idx[r]] = lock[idx[r]] \/ ~healthy'[idx[r]]
        BY <3>1, MutexCoversFlag DEF HNext
      <3>4. cooldown_until[idx[r]] \in Nat /\ now[r] \in Nat
        BY <3>1, ClockAssumption DEF IInv, TypeOK
      <3> QED BY <3>1, <3>2, <3>3, <3>4
    <2> QED BY <1>2, <2>1, <2>2 DEF Judged
  <1> QED BY <1>1, <1>2
\* The request's own steps.  A select begins with fresh histories, ...
LEMMA BeginJudged ==
  ASSUME IInv, HNext, NEW r \in Requests, Begin(r) PROVE Judged(r)'
  <1>1. pc'[r] = "free" /\ sub'[r] = "health"
    BY DEF Begin, Walk, IInv, TypeOK
  <1> QED BY <1>1, HistoryStep DEF Judged, Selecting

\* ... in_cooldown lets a visit act only on a node that is not barred, and pass over
\* only a node that is not steady, ...
LEMMA CheckJudged ==
  ASSUME IInv, HNext, NEW r \in Requests, Judged(r), Check(r) PROVE Judged(r)'
  <1>1. /\ UNCHANGED <<nodeVars, pc, now, best, reserved>>
        /\ pc[r] \in {"free", "busy"} /\ pc[r] \in Selecting
    BY DEF Check, LoadHealthy, ReadUntil, Selecting
  <1>2. Locals(r) BY DEF IInv, Shape
  <1>3. idx[r] \in Nodes /\ Visiting(r) = idx[r]
    <2>1. idx[r] \in Nodes
      BY <1>2, NodesAssumption, SMTT(30) DEF Check, LoadHealthy, ReadUntil, Locals, IInv, TypeOK, Nodes
    <2> QED BY <2>1, VisitIsIndex DEF Visiting
  <1>4. /\ steady'[r] \subseteq steady[r] /\ barred'[r] \subseteq barred[r]
        /\ steady'[r] \subseteq Selectable(now[r])' /\ barred'[r] \cap Selectable(now[r])' = {}
        /\ steady'[r] \subseteq Nodes
        /\ steady[r] \subseteq Selectable(now[r]) /\ barred[r] \cap Selectable(now[r]) = {}
    BY <1>1, HistoryStep DEF Selecting, Judged
  <1>5. cooldown_until[idx[r]] \in Nat /\ now[r] \in Nat /\ idx[r] \in Nat
    BY <1>3, ClockAssumption, NodesAssumption DEF IInv, TypeOK, Nodes
  <1>6. CASE \E phase \in {"free", "busy"} : LoadHealthy(r, phase, Visiting(r))
    <2>1. sub'[r] = (IF healthy[idx[r]] THEN "act" ELSE "until") /\ idx' = idx
      BY <1>3, <1>6 DEF LoadHealthy, IInv, TypeOK
    <2>2. CASE healthy[idx[r]]
      <3>1. idx[r] \in Selectable(now[r])
        BY <1>3, <2>2 DEF Selectable, Cooled
      <3> QED BY <1>1, <1>4, <2>1, <2>2, <3>1 DEF Judged, Selecting
    <2>3. CASE ~healthy[idx[r]]
      <3>1. idx[r] \in steady[r] => cooldown_until[idx[r]] <= now[r]
        BY <1>4, <1>5, <2>3 DEF Selectable, Cooled
      <3> QED BY <1>1, <1>4, <2>1, <2>3, <3>1 DEF Judged, Selecting, nodeVars
    <2> QED BY <2>2, <2>3
  <1>7. CASE \E phase \in {"free", "busy"} : ReadUntil(r, phase, Visiting(r))
    <2>0. sub[r] = "until" /\ lock[idx[r]] = None
      BY <1>3, <1>7 DEF ReadUntil
    <2>1. CASE now[r] < cooldown_until[idx[r]]
      <3>1. sub'[r] = "health" /\ idx'[r] = idx[r] + 1
        BY <1>3, <1>5, <1>7, <2>1 DEF ReadUntil, Visited, IInv, TypeOK
      <3>2. pc[r] = "busy" => idx[r] \notin steady[r]
        BY <1>5, <2>0, <2>1 DEF Judged
      <3>3. pc[r] = "busy" /\ best[r] = None => \A n \in steady[r] : idx[r] + 1 <= n
        BY <1>5, <3>2 DEF Judged, Nodes
      <3> QED BY <1>1, <1>4, <3>1, <3>3 DEF Judged, Selecting
    <2>2. CASE ~(now[r] < cooldown_until[idx[r]])
      <3>1. sub'[r] = "act" /\ idx' = idx
        BY <1>3, <1>5, <1>7, <2>2 DEF ReadUntil, IInv, TypeOK
      <3>2. idx[r] \in Selectable(now[r])
        BY <1>3, <2>2 DEF Selectable, Cooled
      <3> QED BY <1>1, <1>4, <3>1, <3>2 DEF Judged, Selecting
    <2> QED BY <2>1, <2>2
  <1> QED BY <1>6, <1>7 DEF Check

\* ... the first walk claims or goes on, ...
LEMMA FreeJudged ==
  ASSUME IInv, HNext, NEW r \in Requests, Judged(r), FreeClaim(r) \/ FreeExhausted(r)
  PROVE  Judged(r)'
  <1>1. Locals(r) /\ pc[r] = "free"
    BY DEF IInv, Shape, FreeClaim, FreeExhausted
  <1>2. /\ pc'[r] \notin Selecting => steady'[r] = {} /\ barred'[r] = {}
        /\ steady'[r] \subseteq Nodes
        /\ pc'[r] \in Selecting => /\ steady'[r] \subseteq Selectable(now[r])'
                                  /\ barred'[r] \cap Selectable(now[r])' = {}
    BY HistoryStep
  <1>3. CASE FreeClaim(r)
    <2>1. \/ pc'[r] = "holding"
          \/ pc'[r] = "free" /\ sub'[r] = "health"
      BY <1>1, <1>3 DEF FreeClaim, FromClaimed, Visited, IInv, TypeOK
    <2> QED BY <1>2, <2>1 DEF Judged, Selecting
  <1>4. CASE FreeExhausted(r)
    <2>1. /\ pc'[r] = "busy" /\ sub'[r] = "health" /\ idx'[r] = 0
          /\ reserved'[r] = {}
      BY <1>1, <1>4 DEF FreeExhausted, Walk, Locals, IInv, TypeOK
    <2> QED BY <1>2, <2>1 DEF Judged, Selecting, Nodes
  <1> QED BY <1>3, <1>4

\* ... the second walk has a best node once it has reserved one, ...
LEMMA ReserveJudged ==
  ASSUME IInv, HNext, NEW r \in Requests, Judged(r), Reserve(r) PROVE Judged(r)'
  <1>1. Locals(r) /\ pc[r] = "busy" /\ sub[r] = "act" BY DEF IInv, Shape, Reserve
  <1>2. idx[r] \in Nodes /\ Visiting(r) = idx[r]
    <2>1. idx[r] \in Nodes
      BY <1>1, NodesAssumption DEF Locals, IInv, TypeOK, Nodes
    <2> QED BY <2>1, VisitIsIndex DEF Visiting
  <1>3. /\ steady'[r] \subseteq steady[r] /\ barred'[r] \subseteq barred[r]
        /\ steady'[r] \subseteq Nodes
        /\ pc'[r] \in Selecting => /\ steady'[r] \subseteq Selectable(now[r])'
                                  /\ barred'[r] \cap Selectable(now[r])' = {}
    BY <1>1, HistoryStep
  <1>4. /\ pc'[r] = "busy" /\ sub'[r] = "health"
        /\ reserved'[r] = reserved[r] \cup {idx[r]}
    BY <1>1, <1>2 DEF Reserve, Visited, IInv, TypeOK
  <1>5. best'[r] # None
    <2>1. IInv' BY ReserveStep
    <2>2. Locals(r)' BY <2>1 DEF IInv, Shape
    <2> QED BY <1>4, <2>2 DEF Locals
  <1>6. reserved'[r] \cap barred'[r] = {}
    BY <1>1, <1>3, <1>4 DEF Judged
  <1> QED BY <1>3, <1>4, <1>5, <1>6 DEF Judged, Selecting

\* ... so that a walk that ends without one has passed over no steady node, ...
LEMMA BusyExhaustedJudged ==
  ASSUME IInv, HNext, NEW r \in Requests, Judged(r), BusyExhausted(r) PROVE Judged(r)'
  <1>1. pc[r] = "busy" /\ idx[r] = N BY DEF BusyExhausted
  <1>2. /\ steady'[r] \subseteq steady[r] /\ barred'[r] \subseteq barred[r]
        /\ steady'[r] \subseteq Nodes
        /\ pc'[r] \in Selecting => /\ steady'[r] \subseteq Selectable(now[r])'
                                  /\ barred'[r] \cap Selectable(now[r])' = {}
    BY <1>1, HistoryStep
  <1>3. reserved'[r] = reserved[r] BY DEF BusyExhausted
  <1>4. CASE best[r] # None
    <2>1. pc'[r] = "release"
      BY <1>1, <1>4 DEF BusyExhausted, IInv, TypeOK
    <2> QED BY <1>1, <1>2, <1>3, <2>1 DEF Judged, Selecting
  <1>5. CASE best[r] = None
    <2>1. pc'[r] = "fallback"
      BY <1>1, <1>5 DEF BusyExhausted, Walk, IInv, TypeOK
    <2>2. steady[r] = {}
      BY <1>1, <1>5, NodesAssumption DEF Judged, Nodes
    <2> QED BY <1>2, <2>1, <2>2 DEF Judged, Selecting
  <1> QED BY <1>4, <1>5

\* ... and the rest of the select, and what follows it, concludes nothing new.
LEMMA LateJudged ==
  ASSUME IInv, HNext, NEW r \in Requests, Judged(r),
         ReleaseLoser(r) \/ KeepWinner(r) \/ Fallback(r) \/ Serve(r)
  PROVE  Judged(r)'
  <1>1. /\ pc[r] # "idle" /\ pc'[r] \notin {"free", "busy"}
        /\ pc'[r] = "fallback" => pc[r] = "fallback"
        /\ pc'[r] = "release" => pc[r] = "release"
    BY DEF ReleaseLoser, KeepWinner, Fallback, FallbackVisit, FallbackClaim, NewGuard,
       FromClaimed, Serve, MarkHealthy, MarkFailed, MarkFailedExpiry, MarkFailedFlag,
       DropGuard, Serving, IInv, TypeOK
  <1>2. pc'[r] = "release" => reserved'[r] \subseteq reserved[r]
    <2> SUFFICES ASSUME pc'[r] = "release" PROVE reserved'[r] \subseteq reserved[r]
      OBVIOUS
    <2>1. ReleaseLoser(r)
      BY <1>1 DEF KeepWinner, Fallback, FallbackVisit, FallbackClaim, NewGuard,
         FromClaimed, Serve, MarkHealthy, MarkFailed, MarkFailedExpiry, MarkFailedFlag,
         DropGuard, IInv, TypeOK
    <2> QED BY <2>1 DEF ReleaseLoser, IInv, TypeOK
  <1>3. /\ pc'[r] \notin Selecting => steady'[r] = {} /\ barred'[r] = {}
        /\ steady'[r] \subseteq steady[r] /\ barred'[r] \subseteq barred[r]
        /\ steady'[r] \subseteq Nodes
        /\ pc'[r] \in Selecting => /\ steady'[r] \subseteq Selectable(now[r])'
                                  /\ barred'[r] \cap Selectable(now[r])' = {}
    BY <1>1, HistoryStep
  <1> QED BY <1>1, <1>2, <1>3 DEF Judged, Selecting

\* Every step of the walks, of the nodes and of the clock preserves HInv.
LEMMA HistoryInvariant == HInv /\ [HNext]_histVars => HInv'
  <1> SUFFICES ASSUME HInv, [HNext]_histVars PROVE HInv'
    OBVIOUS
  <1>1. CASE UNCHANGED histVars
    <2>1. IInv'
      BY <1>1, NextIInv DEF HInv, histVars
    <2>2. ASSUME NEW r \in Requests PROVE Judged(r)'
      BY <1>1, <2>2 DEF HInv, Judged, histVars, history, pfVars, vars, Selectable, Cooled
    <2> QED BY <2>1, <2>2 DEF HInv
  <1>2. CASE HNext
    <2>0. IInv' BY <1>2, NextIInv DEF HInv, HNext
    <2>1. ASSUME NEW r \in Requests PROVE Judged(r)'
      <3>0. Judged(r) /\ IInv BY <2>1 DEF HInv
      <3>1. CASE Step(r)
        BY <1>2, <3>0, <3>1, BeginJudged, CheckJudged, FreeJudged, ReserveJudged,
           BusyExhaustedJudged, LateJudged DEF Step, Select
      <3>2. CASE Tick /\ UNCHANGED reserved
        BY <1>2, <3>0, <3>2, OthersCannotMislead DEF Tick, walkVars
      <3>3. ASSUME NEW q \in Requests \ {r}, Step(q) PROVE Judged(r)'
        <4>1. /\ pc'[r] = pc[r] /\ sub'[r] = sub[r] /\ idx'[r] = idx[r]
              /\ best'[r] = best[r] /\ now'[r] = now[r] /\ reserved'[r] = reserved[r]
          BY <3>0, <3>3 DEF Step, Select, Begin, Check, LoadHealthy, ReadUntil, FreeClaim,
             FreeExhausted, Reserve, BusyExhausted, ReleaseLoser, KeepWinner, Fallback,
             FallbackVisit, FallbackClaim, NewGuard, FromClaimed, Serve, MarkHealthy,
             MarkFailed, MarkFailedExpiry, MarkFailedFlag, DropGuard, Walk, Visited,
             walkVars, IInv, TypeOK
        <4> QED BY <1>2, <3>0, <4>1, OthersCannotMislead
      <3> QED BY <1>2, <3>1, <3>2, <3>3 DEF HNext, Next
    <2> QED BY <2>0, <2>1 DEF HInv
  <1> QED BY <1>1, <1>2

\* HInv holds in every state of the specification with its history variables.
LEMMA HistoryInvariance == HSpec => []HInv
  <1>1. HInit => HInv
    <2> SUFFICES ASSUME HInit PROVE HInv
      OBVIOUS
    <2>1. IInv BY InitIInv DEF HInit
    <2>2. ASSUME NEW r \in Requests PROVE Judged(r)
      BY DEF HInit, Init, NodeInit, Judged, Selecting
    <2> QED BY <2>1, <2>2 DEF HInv
  <1> QED BY <1>1, HistoryInvariant, PTL DEF HSpec

\* soonest_recovering_node is reached only if no node was selectable for the whole of
\* the select: in_cooldown's two reads can be torn by a mark_healthy and a mark_failed
\* between them, and the mutex of mark_failed makes that harmless.
THEOREM FallbackIsNeeded == HSpec => []NoNeedlessFallback
  <1>1. HInv => NoNeedlessFallback BY DEF HInv, Judged, NoNeedlessFallback
  <1> QED BY <1>1, HistoryInvariance, PTL

\* The two walks of select return no node that was in cooldown for the whole of it.
THEOREM CooledNodesAreSkipped == HSpec => CooledNodeSkipped
  <1> DEFINE Skipped ==
        \A r \in Requests : Returns(r, {"free", "release"}) => guard'[r] \notin barred[r]
  <1>1. ASSUME HInv, HNext, NEW r \in Requests, Returns(r, {"free", "release"})
        PROVE  guard'[r] \notin barred[r]
    <2>0. Judged(r) /\ IInv /\ Locals(r) /\ pc[r] \in {"free", "release"} /\ pc'[r] = "holding"
      BY <1>1 DEF HInv, IInv, Shape, Returns
    <2>1. PICK q \in Requests : Step(q)
      BY <1>1, <2>0 DEF HNext, Next, Tick
    <2> USE DEF Select, Begin, Check, LoadHealthy, ReadUntil, FreeExhausted, Reserve,
               BusyExhausted, ReleaseLoser, Fallback, FallbackVisit,
               FallbackClaim, NewGuard, FromClaimed, Serve, MarkHealthy, MarkFailed,
               MarkFailedExpiry, MarkFailedFlag, DropGuard, Walk
    <2>2. CASE q # r
      <3>1. pc'[r] = pc[r]
        BY <2>0, <2>1, <2>2 DEF Step, FreeClaim, KeepWinner, IInv, TypeOK
      <3> QED BY <2>0, <3>1
    <2>3. CASE q = r
      <3>1. FreeClaim(r) \/ KeepWinner(r)
        BY <2>0, <2>1, <2>3 DEF Step, IInv, TypeOK
      <3>2. CASE FreeClaim(r)
        <4>1. pc[r] = "free" /\ sub[r] = "act"
          BY <3>2 DEF FreeClaim
        <4>2. idx[r] \in Nodes
          BY <2>0, <4>1, NodesAssumption DEF Locals, IInv, TypeOK, Nodes
        <4>3. Visiting(r) = idx[r] BY <4>2, VisitIsIndex DEF Visiting
        <4>4. guard'[r] = idx[r]
          BY <2>0, <3>2, <4>3 DEF FreeClaim, IInv, TypeOK
        <4> QED BY <2>0, <4>1, <4>4 DEF Judged
      <3>3. CASE KeepWinner(r)
        <4>1. pc[r] = "release" /\ guard'[r] = best[r] /\ best[r] \in reserved[r]
          BY <2>0, <3>3 DEF KeepWinner, Locals, IInv, TypeOK
        <4> QED BY <2>0, <4>1 DEF Judged
      <3> QED BY <3>1, <3>2, <3>3
    <2> QED BY <2>2, <2>3
  <1>2. HInv /\ [HNext]_histVars => [Skipped]_histVars
    BY <1>1
  <1> QED BY <1>2, HistoryInvariance, PTL DEF HSpec, CooledNodeSkipped
===========================================================================
