----------------------- MODULE RequestLifecycleProofs -----------------------
(***************************************************************************)
(* Proofs about RequestLifecycle, for any number of requests and nodes and *)
(* any limit, retry budget and configuration: the books of the handler     *)
(* balance, a success is never invented, a node is blamed only for its own *)
(* answers, and the handler implements the abstract limiter.               *)
(***************************************************************************)
EXTENDS RequestLifecycle, FiniteSetTheorems, TLAPS

\* The types, without the ranges of the counters: those follow from what the
\* counters count.
Types ==
  /\ gauge \in Int /\ available \in Nat /\ active \in [Nodes -> Int]
  /\ healthy \in [Nodes -> BOOLEAN]
  /\ pc \in [Requests -> Awaits \cup Running \cup {"idle", "streaming", "dropping"}]
  /\ kind \in [Requests -> Kinds \cup {NoKind}]
  /\ gauged \in [Requests -> BOOLEAN]
  /\ guard \in [Requests -> Nodes \cup {None}]
  /\ permit \in [Requests -> BOOLEAN]
  /\ follow \in [Requests -> BOOLEAN]
  /\ rounds \in [Requests -> 0 .. MaxRetries]
  /\ sent \in [Requests -> BOOLEAN]
  /\ status \in [Requests -> {"none", "2xx", "fault", "other"}]
  /\ outcome \in [Requests -> {"none", "bad_body", "no_backend", "local", "unknown",
        "at_capacity", "augment_error", "connect_error", "read_error", "ok",
        "backend_error", "sse_error", "gone"}]
  /\ counted \in [Requests -> SUBSET {"vram_served", "vram_unknown", "rejected",
        "anthropic_buffered", "routed_stream", "fallback", "nonsse"}]

\* The requests that own a unit of each shared counter.
Gauged == {r \in Requests : gauged[r]}
Permitted == {r \in Requests : permit[r]}
Claimed(n) == {r \in Requests : guard[r] = n}
Following(n) == {r \in Requests : follow[r] /\ guard[r] = n}

\* Every counter counts its owners.
Books ==
  /\ gauge = Cardinality(Gauged)
  /\ available + Cardinality(Permitted) = MaxConcurrent
  /\ \A n \in Nodes : active[n] = Cardinality(Claimed(n)) + Cardinality(Following(n))

\* What a request owns at each place of the handler.
Owns(r) ==
  /\ pc[r] \in Awaits \cup Running => gauged[r]
  /\ pc[r] = "idle" => ~gauged[r]
  /\ Working(r) \/ pc[r] \in {"routing", "vram", "admitting"} => guard[r] # None
  /\ pc[r] \in {"idle", "reading", "selecting"} => guard[r] = None
  /\ follow[r] => guard[r] # None /\ pc[r] \in {"following", "dropping"}
  /\ pc[r] = "following" => follow[r]

\* A permit is lent exactly to the completions in progress, until it drops.
Lent(r) ==
  /\ permit[r] => MaxConcurrent > 0 /\ outcome[r] # "at_capacity"
                  /\ (Completing(r) \/ pc[r] = "dropping")
  /\ MaxConcurrent > 0 /\ Completing(r) => permit[r]
  /\ pc[r] = "admitting" => kind[r].route = "forward"

\* An answer exists once the handler has returned, and a success has its status.
Answered(r) ==
  /\ outcome[r] # "none" => pc[r] = "dropping"
  /\ outcome[r] = "ok" => status[r] = "2xx"

\* Nothing is counted before the request is sent; from then on the flag on the
\* wire is the one that was computed.
Wired(r) ==
  /\ pc[r] \in {"idle", "reading", "selecting", "routing", "vram", "admitting", "augmenting",
                "sending"} => counted[r] = {}
  /\ kind[r].route = "forward"
     /\ pc[r] \in {"awaiting", "buffering", "reprompting", "following", "measuring", "handoff",
                   "streaming"} => (sent[r] <=> WireStream(kind[r]))
  /\ kind[r].shaped => /\ "fallback" \in counted[r] => ~sent[r]
                       /\ "nonsse" \in counted[r] => sent[r]
                       /\ "routed_stream" \in counted[r] => sent[r]

\* What holds of each request by itself.
Local(r) == Owns(r) /\ Lent(r) /\ Answered(r) /\ Wired(r)

\* The inductive invariant.
IInv == Types /\ Books /\ \A r \in Requests : Local(r)

\* The steps of one request.
Moves(r) == Arrive(r) \/ PrepareRequest(r) \/ Step(r) \/ StreamEnds(r) \/ Cancel(r)

\* Those that take or give back nothing.
Quiet(r) ==
  \/ PrepareRequest(r) \/ Route(r) \/ VramEstimate(r) \/ Augment(r) \/ Send(r)
  \/ ConnectError(r) \/ StreamAnswer(r) \/ BufferedAnswer(r) \/ ReadAnswer(r) \/ Respond(r)
  \/ StreamEnds(r) \/ Cancel(r)

---------------------------------------------------------------------------
(* Sets of requests.                                                       *)

\* One more owner.
LEMMA OneMore ==
  ASSUME NEW S \in SUBSET Requests, NEW T \in SUBSET Requests, NEW r \in Requests,
         r \notin S, T = S \cup {r}
  PROVE  Cardinality(T) = Cardinality(S) + 1 /\ Cardinality(S) \in Nat /\ Cardinality(T) \in Nat
<1>1. IsFiniteSet(S)
  BY RequestsAssumption, FS_Subset
<1>2. IsFiniteSet(T) /\ Cardinality(T) = Cardinality(S) + 1
  BY <1>1, FS_AddElement
<1> QED BY <1>1, <1>2, FS_CardinalityType

\* One owner less.
LEMMA OneLess ==
  ASSUME NEW S \in SUBSET Requests, NEW T \in SUBSET Requests, NEW r \in Requests,
         r \in S, T = S \ {r}
  PROVE  Cardinality(T) = Cardinality(S) - 1 /\ Cardinality(S) \in Nat /\ Cardinality(T) \in Nat
<1>1. r \notin T /\ S = T \cup {r}
  OBVIOUS
<1>2. Cardinality(S) = Cardinality(T) + 1 /\ Cardinality(S) \in Nat /\ Cardinality(T) \in Nat
  BY <1>1, OneMore
<1> QED BY <1>2

\* The counters are within their ranges.
LEMMA Ranges ==
  ASSUME Types, Books
  PROVE  TypeOK
<1>1. ASSUME NEW S \in SUBSET Requests
      PROVE  Cardinality(S) \in 0 .. Cardinality(Requests)
  BY RequestsAssumption, FS_Subset, FS_CardinalityType
<1>2. gauge \in 0 .. Cardinality(Requests)
  <2>1. Gauged \in SUBSET Requests
    BY DEF Gauged
  <2> QED BY <1>1, <2>1 DEF Books
<1>3. available \in 0 .. MaxConcurrent
  <2>1. Permitted \in SUBSET Requests
    BY DEF Permitted
  <2>2. Cardinality(Permitted) \in Nat /\ available \in Nat
    BY <1>1, <2>1, RequestsAssumption, FS_CardinalityType DEF Types
  <2> QED BY <2>2, ConfigAssumption DEF Books
<1>4. active \in [Nodes -> Nat]
  <2> SUFFICES ASSUME NEW n \in Nodes PROVE active[n] \in Nat
    BY DEF Types
  <2>1. Claimed(n) \in SUBSET Requests /\ Following(n) \in SUBSET Requests
    BY DEF Claimed, Following
  <2>2. Cardinality(Claimed(n)) \in Nat /\ Cardinality(Following(n)) \in Nat
    BY <1>1, <2>1, RequestsAssumption, FS_CardinalityType
  <2> QED BY <2>2 DEF Books
<1> QED BY <1>2, <1>3, <1>4 DEF Types, TypeOK

---------------------------------------------------------------------------
(* The inductive invariant.                                                *)

\* A fresh server owes nothing.
LEMMA InitIInv == Init => IInv
<1> SUFFICES ASSUME Init PROVE IInv
  OBVIOUS
<1>1. Types
  BY ConfigAssumption DEF Init, Types
<1>2. Books
  <2>1. Gauged = {} /\ Permitted = {}
    BY DEF Init, Gauged, Permitted
  <2>2. \A n \in Nodes : Claimed(n) = {} /\ Following(n) = {}
    BY NoneAssumption DEF Init, Claimed, Following
  <2>3. Cardinality({}) = 0
    BY FS_EmptySet
  <2> QED BY <2>1, <2>2, <2>3, ConfigAssumption, SMTT(30) DEF Init, Books
<1>3. ASSUME NEW r \in Requests PROVE Local(r)
  BY DEF Init, Local, Owns, Lent, Answered, Wired, Working, Completing, Awaits, Running
<1> QED BY <1>1, <1>2, <1>3 DEF IInv

\* A step of one request does not touch what the others know and own.
LEMMA Frame ==
  ASSUME Types, NEW r \in Requests, Moves(r), NEW q \in Requests, q # r
  PROVE  /\ pc'[q] = pc[q] /\ kind'[q] = kind[q] /\ gauged'[q] = gauged[q]
         /\ guard'[q] = guard[q] /\ permit'[q] = permit[q] /\ follow'[q] = follow[q]
         /\ sent'[q] = sent[q] /\ status'[q] = status[q] /\ outcome'[q] = outcome[q]
         /\ counted'[q] = counted[q]
<1> USE DEF Types, shared, owned, facts, Goto, Count, Return
<1>1. CASE Quiet(r)
  BY <1>1 DEF Quiet, PrepareRequest, Route, VramEstimate, Augment, Send, ConnectError,
     StreamAnswer, BufferedAnswer, ReadAnswer, Respond, StreamEnds, Cancel, Observe
<1>2. CASE Arrive(r) \/ SelectBackend(r) \/ Admit(r) \/ Reprompt(r) \/ FollowUp(r) \/ HandOff(r)
  BY <1>2 DEF Arrive, SelectBackend, Admit, Reprompt, FollowUp, HandOff
<1>3. CASE Drop(r)
  BY <1>3 DEF Drop, DropFollow, DropPermit, DropGuard, DropGauge
<1> QED BY <1>1, <1>2, <1>3 DEF Moves, Step, Quiet

\* ... so what holds of them still does.
LEMMA OthersKeep ==
  ASSUME Types, NEW r \in Requests, Moves(r), NEW q \in Requests, q # r, Local(q)
  PROVE  Local(q)'
BY Frame DEF Local, Owns, Lent, Answered, Wired, Working, Completing

\* The kinds are records of Booleans, and so is the flag computed from them.
LEMMA KindFields ==
  ASSUME NEW k \in Kinds \cup {NoKind}
  PROVE  /\ k.shaped \in BOOLEAN /\ k.stream \in BOOLEAN /\ k.anthropic \in BOOLEAN
         /\ KeepStream(k) \in BOOLEAN /\ WireStream(k) \in BOOLEAN
<1>1. k \in [route : {"vram", "monitor", "metrics", "forward"}, json : BOOLEAN,
             shaped : BOOLEAN, stream : BOOLEAN, anthropic : BOOLEAN]
  <2>1. CASE k = NoKind
    BY <2>1 DEF NoKind
  <2>2. CASE k \in Kinds
    BY <2>2, KindsAssumption DEF AllKinds
  <2> QED BY <2>1, <2>2
<1> QED BY <1>1, ConfigAssumption DEF KeepStream, WireStream, AllowStream

\* observe_backend_outcome leaves a flag a flag.
LEMMA ObserveTypes ==
  ASSUME Types, NEW r \in Requests, NEW s \in {"2xx", "fault", "other"}, Observe(r, s)
  PROVE  /\ healthy' \in [Nodes -> BOOLEAN]
         /\ status' \in [Requests -> {"none", "2xx", "fault", "other"}]
<1>1. CASE s = "fault"
  BY <1>1 DEF Types, Observe
<1>2. CASE s = "2xx"
  BY <1>2 DEF Types, Observe
<1>3. CASE s = "other"
  <2>1. healthy' = [healthy EXCEPT ![guard[r]] = healthy[guard[r]]]
    BY <1>3 DEF Observe
  <2>2. healthy' = healthy
    BY <2>1 DEF Types
  <2> QED BY <1>3, <2>2 DEF Types, Observe
<1> QED BY <1>1, <1>2, <1>3

\* The steps that take or give back nothing keep the types ...
LEMMA QuietTypes ==
  ASSUME Types, NEW r \in Requests, Quiet(r)
  PROVE  Types'
<1> USE DEF Types, shared, owned, facts, Goto, Count, Return, Awaits, Running
<1>1. CASE PrepareRequest(r)
  BY <1>1 DEF PrepareRequest
<1>2. CASE Route(r)
  BY <1>2 DEF Route
<1>3. CASE VramEstimate(r)
  BY <1>3 DEF VramEstimate
<1>4. CASE Augment(r)
  BY <1>4 DEF Augment
<1>5. CASE Send(r)
  BY <1>5, KindFields DEF Send
<1>6. CASE ConnectError(r)
  BY <1>6 DEF ConnectError
<1>7. CASE StreamAnswer(r)
  BY <1>7, ObserveTypes DEF StreamAnswer
<1>8. CASE BufferedAnswer(r)
  BY <1>8, ObserveTypes DEF BufferedAnswer
<1>9. CASE ReadAnswer(r)
  BY <1>9 DEF ReadAnswer, Forwarded
<1>10. CASE Respond(r)
  BY <1>10 DEF Respond, Forwarded
<1>11. CASE StreamEnds(r)
  BY <1>11 DEF StreamEnds
<1>12. CASE Cancel(r)
  BY <1>12 DEF Cancel
<1> QED BY <1>1, <1>2, <1>3, <1>4, <1>5, <1>6, <1>7, <1>8, <1>9, <1>10, <1>11, <1>12 DEF Quiet

\* ... and the books.
LEMMA QuietBooks ==
  ASSUME Books, NEW r \in Requests, Quiet(r)
  PROVE  Books'
<1>1. UNCHANGED <<gauge, available, active, gauged, guard, permit, follow>>
  BY DEF Quiet, PrepareRequest, Route, VramEstimate, Augment, Send, ConnectError, StreamAnswer,
     BufferedAnswer, ReadAnswer, Respond, StreamEnds, Cancel, shared, owned, facts
<1>2. UNCHANGED <<Gauged, Permitted>> /\ \A n \in Nodes : UNCHANGED <<Claimed(n), Following(n)>>
  BY <1>1 DEF Gauged, Permitted, Claimed, Following
<1> QED BY <1>1, <1>2 DEF Books

\* Each of them leaves its request with what the next place of the handler needs.
LEMMA QuietLocal ==
  ASSUME Types, NEW r \in Requests, Local(r), Quiet(r)
  PROVE  Local(r)'
<1> USE DEF Types, shared, owned, facts, Goto, Count, Return, Awaits, Running, Local, Owns,
            Lent, Answered, Wired, Working, Completing
<1>1. CASE PrepareRequest(r)
  BY <1>1 DEF PrepareRequest
<1>2. CASE Route(r)
  BY <1>2 DEF Route
<1>3. CASE VramEstimate(r)
  BY <1>3 DEF VramEstimate
<1>4. CASE Augment(r)
  BY <1>4 DEF Augment
<1>5. CASE Send(r)
  BY <1>5, KindFields DEF Send, WireStream
<1>6. CASE ConnectError(r)
  BY <1>6 DEF ConnectError
<1>7. CASE StreamAnswer(r)
  BY <1>7, KindFields DEF StreamAnswer, Observe, WireStream
<1>8. CASE BufferedAnswer(r)
  BY <1>8, KindFields DEF BufferedAnswer, Observe, WireStream
<1>9. CASE ReadAnswer(r)
  BY <1>9 DEF ReadAnswer, Forwarded
<1>10. CASE Respond(r)
  BY <1>10 DEF Respond, Forwarded, Synthesized
<1>11. CASE StreamEnds(r)
  BY <1>11 DEF StreamEnds
<1>12. CASE Cancel(r)
  BY <1>12 DEF Cancel
<1> QED BY <1>1, <1>2, <1>3, <1>4, <1>5, <1>6, <1>7, <1>8, <1>9, <1>10, <1>11, <1>12 DEF Quiet

---------------------------------------------------------------------------
(* The steps that take or give back a unit.                                *)

\* They keep the types: a counter that goes down had somebody to count.
LEMMA TakingTypes ==
  ASSUME Types, NEW r \in Requests, Local(r),
         Arrive(r) \/ SelectBackend(r) \/ Admit(r) \/ Reprompt(r) \/ FollowUp(r) \/ HandOff(r)
         \/ Drop(r)
  PROVE  Types'
<1> USE DEF Types, shared, owned, facts, Goto, Count, Return, Awaits, Running
<1>1. CASE Arrive(r)
  BY <1>1 DEF Arrive
<1>2. CASE SelectBackend(r)
  BY <1>2 DEF SelectBackend
<1>3. CASE Admit(r)
  <2>1. available' \in Nat
    BY <1>3 DEF Admit
  <2>2. counted' \in [Requests -> SUBSET {"vram_served", "vram_unknown", "rejected",
          "anthropic_buffered", "routed_stream", "fallback", "nonsse"}]
    BY <1>3 DEF Admit
  <2>3. permit' \in [Requests -> BOOLEAN]
    BY <1>3 DEF Admit
  <2> QED BY <1>3, <2>1, <2>2, <2>3 DEF Admit
<1>4. CASE Reprompt(r)
  <2>1. guard[r] \in Nodes
    BY <1>4 DEF Reprompt, Local, Owns, Working
  <2>2. active' \in [Nodes -> Int]
    BY <1>4, <2>1 DEF Reprompt
  <2>3. rounds' \in [Requests -> 0 .. MaxRetries]
    BY <1>4, ConfigAssumption DEF Reprompt
  <2> QED BY <1>4, <2>2, <2>3 DEF Reprompt
<1>5. CASE FollowUp(r)
  <2>1. guard[r] \in Nodes
    BY <1>5 DEF FollowUp, Local, Owns, Working
  <2>2. active' \in [Nodes -> Int]
    BY <1>5, <2>1 DEF FollowUp
  <2> QED BY <1>5, <2>2 DEF FollowUp
<1>6. CASE HandOff(r)
  BY <1>6 DEF HandOff
<1>7. CASE DropFollow(r)
  <2>1. guard[r] \in Nodes
    BY <1>7 DEF DropFollow, Local, Owns
  <2>2. active' \in [Nodes -> Int]
    BY <1>7, <2>1 DEF DropFollow
  <2> QED BY <1>7, <2>2 DEF DropFollow
<1>8. CASE DropPermit(r)
  BY <1>8 DEF DropPermit
<1>9. CASE DropGuard(r)
  BY <1>9 DEF DropGuard
<1>10. CASE DropGauge(r)
  BY <1>10, ConfigAssumption DEF DropGauge
<1> QED BY <1>1, <1>2, <1>3, <1>4, <1>5, <1>6, <1>7, <1>8, <1>9, <1>10 DEF Drop

\* They leave their request with what its next place needs.
LEMMA TakingLocal ==
  ASSUME Types, NEW r \in Requests, Local(r),
         Arrive(r) \/ SelectBackend(r) \/ Admit(r) \/ Reprompt(r) \/ FollowUp(r) \/ HandOff(r)
         \/ Drop(r)
  PROVE  Local(r)'
<1> USE DEF Types, shared, owned, facts, Goto, Count, Return, Awaits, Running, Local, Owns,
            Lent, Answered, Wired, Working, Completing
<1>1. CASE Arrive(r)
  BY <1>1 DEF Arrive
<1>2. CASE SelectBackend(r)
  BY <1>2, NoneAssumption DEF SelectBackend
<1>3. CASE Admit(r)
  BY <1>3 DEF Admit
<1>4. CASE Reprompt(r)
  BY <1>4 DEF Reprompt
<1>5. CASE FollowUp(r)
  BY <1>5 DEF FollowUp
<1>6. CASE HandOff(r)
  BY <1>6 DEF HandOff
<1>7. CASE DropFollow(r)
  BY <1>7 DEF DropFollow
<1>8. CASE DropPermit(r)
  BY <1>8 DEF DropPermit
<1>9. CASE DropGuard(r)
  BY <1>9 DEF DropGuard
<1>10. CASE DropGauge(r)
  BY <1>10 DEF DropGauge, NoKind
<1> QED BY <1>1, <1>2, <1>3, <1>4, <1>5, <1>6, <1>7, <1>8, <1>9, <1>10 DEF Drop

\* The gauge: one owner more at the arrival, one less at the return.
LEMMA GaugeBooks ==
  ASSUME Types, Books, NEW r \in Requests, Local(r), Arrive(r) \/ HandOff(r) \/ DropGauge(r)
  PROVE  Books'
<1>1. UNCHANGED <<available, active, guard, permit, follow>>
  BY DEF Arrive, HandOff, DropGauge
<1>2. UNCHANGED Permitted /\ \A n \in Nodes : UNCHANGED <<Claimed(n), Following(n)>>
  BY <1>1 DEF Permitted, Claimed, Following
<1>3. Gauged \in SUBSET Requests /\ Gauged' \in SUBSET Requests
  BY DEF Gauged
<1>4. gauge' = Cardinality(Gauged')
  <2>1. CASE Arrive(r)
    <3>1. r \notin Gauged /\ Gauged' = Gauged \cup {r}
      BY <2>1 DEF Arrive, Gauged, Local, Owns, Types
    <3>2. Cardinality(Gauged') = Cardinality(Gauged) + 1
      BY <1>3, <3>1, OneMore
    <3> QED BY <2>1, <3>2 DEF Arrive, Books
  <2>2. CASE gauged[r] /\ (HandOff(r) \/ DropGauge(r))
    <3>1. r \in Gauged /\ Gauged' = Gauged \ {r}
      BY <2>2 DEF HandOff, DropGauge, Gauged, Types
    <3>2. Cardinality(Gauged') = Cardinality(Gauged) - 1
      BY <1>3, <3>1, OneLess
    <3> QED BY <2>2, <3>2 DEF HandOff, DropGauge, Books
  <2>3. CASE ~gauged[r] /\ DropGauge(r)
    <3>1. Gauged' = Gauged /\ gauge' = gauge
      BY <2>3 DEF DropGauge, Gauged, Types
    <3> QED BY <3>1 DEF Books
  <2>4. HandOff(r) => gauged[r]
    BY DEF HandOff, Local, Owns, Running
  <2> QED BY <2>1, <2>2, <2>3, <2>4
<1> QED BY <1>1, <1>2, <1>4 DEF Books

\* The permits: what is lent and what is left add up to the limit.
LEMMA PermitBooks ==
  ASSUME Types, Books, NEW r \in Requests, Local(r), Admit(r) \/ DropPermit(r)
  PROVE  Books'
<1>1. UNCHANGED <<gauge, active, gauged, guard, follow>>
  BY DEF Admit, DropPermit
<1>2. UNCHANGED Gauged /\ \A n \in Nodes : UNCHANGED <<Claimed(n), Following(n)>>
  BY <1>1 DEF Gauged, Claimed, Following
<1>3. Permitted \in SUBSET Requests /\ Permitted' \in SUBSET Requests
  BY DEF Permitted
<1>4. available' + Cardinality(Permitted') = MaxConcurrent
  <2>1. CASE Admit(r) /\ permit' = [permit EXCEPT ![r] = TRUE] /\ available' = available - 1
    <3>1. r \notin Permitted /\ Permitted' = Permitted \cup {r}
      BY <2>1 DEF Admit, Permitted, Local, Lent, Completing, Working, Types
    <3>2. Cardinality(Permitted') = Cardinality(Permitted) + 1 /\ Cardinality(Permitted) \in Nat
      BY <1>3, <3>1, OneMore
    <3> QED BY <2>1, <3>2, ConfigAssumption DEF Books, Types
  <2>2. CASE UNCHANGED <<available, permit>>
    BY <2>2 DEF Permitted, Books
  <2>3. CASE DropPermit(r)
    <3>1. r \in Permitted /\ Permitted' = Permitted \ {r}
      BY <2>3 DEF DropPermit, Permitted, Types
    <3>2. Cardinality(Permitted') = Cardinality(Permitted) - 1 /\ Cardinality(Permitted) \in Nat
      BY <1>3, <3>1, OneLess
    <3> QED BY <2>3, <3>2, ConfigAssumption DEF DropPermit, Books, Types
  <2> QED BY <2>1, <2>2, <2>3 DEF Admit
<1> QED BY <1>1, <1>2, <1>4 DEF Books

\* The claims: a node's counter moves with the guards and the follow-ups on it.
LEMMA ClaimBooks ==
  ASSUME Types, Books, NEW r \in Requests, Local(r),
         SelectBackend(r) \/ DropGuard(r) \/ Reprompt(r) \/ FollowUp(r) \/ DropFollow(r)
  PROVE  Books'
<1>1. UNCHANGED <<gauge, available, gauged, permit>>
  BY DEF SelectBackend, DropGuard, Reprompt, FollowUp, DropFollow
<1>2. UNCHANGED <<Gauged, Permitted>>
  BY <1>1 DEF Gauged, Permitted
<1>3. ASSUME NEW n \in Nodes
      PROVE  active'[n] = Cardinality(Claimed(n)') + Cardinality(Following(n)')
  <2>1. /\ Claimed(n) \in SUBSET Requests /\ Claimed(n)' \in SUBSET Requests
        /\ Following(n) \in SUBSET Requests /\ Following(n)' \in SUBSET Requests
    BY DEF Claimed, Following
  <2>2. active[n] = Cardinality(Claimed(n)) + Cardinality(Following(n))
    BY DEF Books
  <2>3. Cardinality(Claimed(n)) \in Nat /\ Cardinality(Following(n)) \in Nat
    BY <2>1, RequestsAssumption, FS_Subset, FS_CardinalityType
  <2>4. CASE UNCHANGED <<guard, follow, active>>
    BY <2>2, <2>4 DEF Claimed, Following
  <2>5. ASSUME NEW m \in Nodes, guard' = [guard EXCEPT ![r] = m], SelectBackend(r),
               active' = [active EXCEPT ![m] = @ + 1], UNCHANGED follow
        PROVE  active'[n] = Cardinality(Claimed(n)') + Cardinality(Following(n)')
    <3>1. guard[r] = None /\ ~follow[r]
      BY <2>5 DEF SelectBackend, Local, Owns
    <3>2. Following(n)' = Following(n)
      BY <2>5, <3>1 DEF Following, Types
    <3>3. CASE m = n
      <4>1. r \notin Claimed(n) /\ Claimed(n)' = Claimed(n) \cup {r}
        BY <2>5, <3>1, <3>3, NoneAssumption DEF Claimed, Types
      <4>2. Cardinality(Claimed(n)') = Cardinality(Claimed(n)) + 1
        BY <2>1, <4>1, OneMore
      <4>3. active'[n] = active[n] + 1
        BY <2>5, <3>3 DEF Types
      <4> QED BY <2>2, <2>3, <3>2, <4>2, <4>3
    <3>4. CASE m # n
      <4>1. Claimed(n)' = Claimed(n)
        BY <2>5, <3>1, <3>4, NoneAssumption DEF Claimed, Types
      <4>2. active'[n] = active[n]
        BY <2>5, <3>4 DEF Types
      <4> QED BY <2>2, <3>2, <4>1, <4>2
    <3> QED BY <3>3, <3>4
  <2>6. CASE DropGuard(r)
    <3>1. guard[r] \in Nodes /\ ~follow[r] /\ guard' = [guard EXCEPT ![r] = None]
          /\ active' = [active EXCEPT ![guard[r]] = @ - 1] /\ UNCHANGED follow
      BY <2>6 DEF DropGuard, Types
    <3>2. Following(n)' = Following(n)
      BY <3>1 DEF Following, Types
    <3>3. CASE guard[r] = n
      <4>1. r \in Claimed(n) /\ Claimed(n)' = Claimed(n) \ {r}
        BY <3>1, <3>3, NoneAssumption DEF Claimed, Types
      <4>2. Cardinality(Claimed(n)') = Cardinality(Claimed(n)) - 1
        BY <2>1, <4>1, OneLess
      <4>3. active'[n] = active[n] - 1
        BY <3>1, <3>3 DEF Types
      <4> QED BY <2>2, <2>3, <3>2, <4>2, <4>3
    <3>4. CASE guard[r] # n
      <4>1. Claimed(n)' = Claimed(n)
        BY <3>1, <3>4, NoneAssumption DEF Claimed, Types
      <4>2. active'[n] = active[n]
        BY <3>1, <3>4 DEF Types
      <4> QED BY <2>2, <3>2, <4>1, <4>2
    <3> QED BY <3>3, <3>4
  <2>7. CASE /\ ~follow[r] /\ guard[r] \in Nodes
             /\ follow' = [follow EXCEPT ![r] = TRUE]
             /\ active' = [active EXCEPT ![guard[r]] = @ + 1] /\ UNCHANGED guard
    <3>1. Claimed(n)' = Claimed(n)
      BY <2>7 DEF Claimed
    <3>2. CASE guard[r] = n
      <4>1. r \notin Following(n) /\ Following(n)' = Following(n) \cup {r}
        BY <2>7, <3>2 DEF Following, Types
      <4>2. Cardinality(Following(n)') = Cardinality(Following(n)) + 1
        BY <2>1, <4>1, OneMore
      <4>3. active'[n] = active[n] + 1
        BY <2>7, <3>2 DEF Types
      <4> QED BY <2>2, <2>3, <3>1, <4>2, <4>3
    <3>3. CASE guard[r] # n
      <4>1. Following(n)' = Following(n)
        BY <2>7, <3>3 DEF Following, Types
      <4>2. active'[n] = active[n]
        BY <2>7, <3>3 DEF Types
      <4> QED BY <2>2, <3>1, <4>1, <4>2
    <3> QED BY <3>2, <3>3
  <2>8. CASE /\ follow[r] /\ guard[r] \in Nodes
             /\ follow' = [follow EXCEPT ![r] = FALSE]
             /\ active' = [active EXCEPT ![guard[r]] = @ - 1] /\ UNCHANGED guard
    <3>1. Claimed(n)' = Claimed(n)
      BY <2>8 DEF Claimed
    <3>2. CASE guard[r] = n
      <4>1. r \in Following(n) /\ Following(n)' = Following(n) \ {r}
        BY <2>8, <3>2 DEF Following, Types
      <4>2. Cardinality(Following(n)') = Cardinality(Following(n)) - 1
        BY <2>1, <4>1, OneLess
      <4>3. active'[n] = active[n] - 1
        BY <2>8, <3>2 DEF Types
      <4> QED BY <2>2, <2>3, <3>1, <4>2, <4>3
    <3>3. CASE guard[r] # n
      <4>1. Following(n)' = Following(n)
        BY <2>8, <3>3 DEF Following, Types
      <4>2. active'[n] = active[n]
        BY <2>8, <3>3 DEF Types
      <4> QED BY <2>2, <3>1, <4>1, <4>2
    <3> QED BY <3>2, <3>3
  <2>9. CASE SelectBackend(r)
    BY <2>4, <2>5, <2>9 DEF SelectBackend
  <2>10. CASE Reprompt(r)
    BY <2>4, <2>7, <2>10 DEF Reprompt, Local, Owns, Working, Types
  <2>11. CASE FollowUp(r) \/ DropFollow(r)
    BY <2>8, <2>11 DEF FollowUp, DropFollow, Local, Owns, Types
  <2> QED BY <2>6, <2>9, <2>10, <2>11
<1> QED BY <1>1, <1>2, <1>3 DEF Books

\* Every step keeps the invariant.
LEMMA StepIInv ==
  ASSUME IInv, [Next]_vars
  PROVE  IInv'
<1>1. ASSUME NEW r \in Requests, Moves(r) PROVE IInv'
  <2>1. Types'
    BY <1>1, QuietTypes, TakingTypes DEF IInv, Moves, Step, Quiet, Drop
  <2>2. Books'
    BY <1>1, QuietBooks, GaugeBooks, PermitBooks, ClaimBooks DEF IInv, Moves, Step, Quiet, Drop
  <2>3. Local(r)'
    BY <1>1, QuietLocal, TakingLocal DEF IInv, Moves, Step, Quiet, Drop
  <2>4. ASSUME NEW q \in Requests, q # r PROVE Local(q)'
    BY <1>1, <2>4, OthersKeep DEF IInv
  <2> QED BY <2>1, <2>2, <2>3, <2>4 DEF IInv
<1>2. CASE UNCHANGED vars
  BY <1>2 DEF vars, IInv, Types, Books, Gauged, Permitted, Claimed, Following, Local, Owns, Lent,
     Answered, Wired, Working, Completing
<1> QED BY <1>1, <1>2 DEF Next, Moves

---------------------------------------------------------------------------
(* The theorems.                                                           *)

\* The invariant holds in every reachable state.
LEMMA IInvHolds == Spec => []IInv
<1>1. IInv /\ [Next]_vars => IInv'
  BY StepIInv
<1> QED BY InitIInv, <1>1, PTL DEF Spec

\* [C-L14], BusyHandle, the limiter and the outcome counters: on every path through
\* handle(), also when the client vanishes at any await, the gauge counts the handlers
\* that execute, a node's counter the requests and follow-ups that work on it, no
\* counter leaves its range, and the counters blame the right side.
THEOREM BooksBalance == Spec => []AccountsExact
<1>1. IInv => AccountsExact
  <2> SUFFICES ASSUME IInv PROVE AccountsExact
    OBVIOUS
  <2>1. TypeOK
    BY Ranges DEF IInv
  <2>2. GaugeCountsHandlers
    BY DEF IInv, Books, Gauged, Local, Owns, GaugeCountsHandlers
  <2>3. ClaimsCoverWork
    BY DEF IInv, Books, Claimed, Following, Local, Owns, ClaimsCoverWork
  <2>4. CountersMatchWire
    BY DEF IInv, Local, Wired, CountersMatchWire
  <2> QED BY <2>1, <2>2, <2>3, <2>4 DEF AccountsExact
<1> QED BY IInvHolds, <1>1, PTL

\* handle_non_streaming_response: a client is told "200" for a forwarded request only if
\* its backend answered 2xx; synthesis never launders an error into an empty turn.
THEOREM NoInventedSuccess == Spec => []SuccessNeverInvented
<1>1. IInv => SuccessNeverInvented
  BY DEF IInv, Local, Answered, SuccessNeverInvented
<1> QED BY IInvHolds, <1>1, PTL

\* observe_backend_outcome: a node's health changes only at the step at which a request
\* that holds its claim hears from it or fails to reach it.
THEOREM BlameIsEarned == Spec => BlameOnlyForOwnAnswer
<1> DEFINE Earned == \A n \in Nodes : healthy'[n] # healthy[n] =>
                       \E r \in Requests : guard[r] = n /\ pc[r] = "awaiting" /\ pc'[r] # "awaiting"
<1>1. IInv /\ [Next]_vars => [Earned]_vars
  <2> SUFFICES ASSUME IInv, NEW r \in Requests, Moves(r) PROVE Earned
    BY DEF Next, Moves
  <2> SUFFICES ASSUME NEW n \in Nodes, healthy'[n] # healthy[n]
               PROVE  guard[r] = n /\ pc[r] = "awaiting" /\ pc'[r] # "awaiting"
    OBVIOUS
  <2>1. CASE ConnectError(r)
    BY <2>1 DEF ConnectError, Return, Goto, IInv, Types
  <2>2. CASE StreamAnswer(r)
    BY <2>2 DEF StreamAnswer, Observe, Goto, IInv, Types
  <2>3. CASE BufferedAnswer(r)
    BY <2>3 DEF BufferedAnswer, Observe, Goto, IInv, Types
  <2>4. CASE UNCHANGED healthy
    BY <2>4
  <2> QED
    BY <2>1, <2>2, <2>3, <2>4 DEF Moves, Step, Drop, Arrive, PrepareRequest, SelectBackend, Route,
       VramEstimate, Admit, Augment, Send, ReadAnswer, Reprompt, FollowUp, Respond, HandOff,
       DropFollow, DropPermit, DropGuard, DropGauge, StreamEnds, Cancel, shared
<1> QED BY IInvHolds, <1>1, PTL DEF Spec, BlameOnlyForOwnAnswer

\* What the limiter's operator sees as busy and refused.
Busy == {r \in Requests : permit[r] \/ (MaxConcurrent > 0 /\ Completing(r))}
Refused == {r \in Requests : outcome[r] = "at_capacity"}

\* The busy requests are those that hold a permit.
LEMMA BusyIsPermitted ==
  ASSUME \A r \in Requests : Lent(r)
  PROVE  Busy = Permitted
BY DEF Busy, Permitted, Lent

\* A step that neither lends nor takes back a permit, nor refuses nor forgets a
\* refusal, is invisible to the operator.
LEMMA Invisible ==
  ASSUME IInv, NEW r \in Requests, Moves(r), ~Admit(r), ~DropPermit(r), ~DropGauge(r)
  PROVE  permit' = permit /\ Refused' = Refused
<1>1. permit' = permit
  BY DEF Moves, Step, Drop, Arrive, PrepareRequest, SelectBackend, Route, VramEstimate, Augment,
     Send, ConnectError, StreamAnswer, BufferedAnswer, ReadAnswer, Reprompt, FollowUp, Respond,
     HandOff, DropFollow, DropGuard, StreamEnds, Cancel, owned
<1>2. outcome'[r] # "at_capacity" \/ outcome' = outcome
  <2> USE DEF IInv, Types, Return
  <2>1. CASE Quiet(r)
    BY <2>1 DEF Quiet, PrepareRequest, Route, VramEstimate, Augment, Send, ConnectError,
       StreamAnswer, BufferedAnswer, ReadAnswer, Respond, Forwarded, StreamEnds, Cancel
  <2>2. CASE ~Quiet(r)
    BY <2>2 DEF Moves, Step, Drop, Quiet, Arrive, SelectBackend, Reprompt, FollowUp, HandOff,
       DropFollow, DropGuard
  <2> QED BY <2>1, <2>2
<1>3. outcome[r] = "at_capacity" => outcome' = outcome
  <2>1. outcome[r] # "none" => pc[r] = "dropping"
    BY DEF IInv, Local, Answered
  <2> QED BY <2>1 DEF Moves, Step, Drop, Arrive, PrepareRequest, SelectBackend, Route, VramEstimate,
       Augment, Send, ConnectError, StreamAnswer, BufferedAnswer, ReadAnswer, Reprompt, FollowUp,
       Respond, HandOff, DropFollow, DropGuard, StreamEnds, Cancel, Awaits
<1>4. \A q \in Requests : q # r => outcome'[q] = outcome[q]
  BY Frame DEF IInv
<1> QED BY <1>1, <1>2, <1>3, <1>4 DEF Refused

\* The three steps the operator sees.
LEMMA Visible ==
  ASSUME IInv, IInv', NEW r \in Requests, Admit(r) \/ DropPermit(r) \/ DropGauge(r)
  PROVE  \/ Permitted' = Permitted /\ Refused' = Refused
         \/ /\ r \notin Permitted \cup Refused /\ Cardinality(Permitted) < MaxConcurrent
            /\ Permitted' = Permitted \cup {r} /\ Refused' = Refused
         \/ /\ r \notin Permitted \cup Refused
            /\ MaxConcurrent > 0 /\ Cardinality(Permitted) = MaxConcurrent
            /\ Refused' = Refused \cup {r} /\ Permitted' = Permitted
         \/ r \in Permitted /\ Permitted' = Permitted \ {r} /\ Refused' = Refused
         \/ r \in Refused /\ Refused' = Refused \ {r} /\ Permitted' = Permitted
<1>1. /\ Types /\ Local(r) /\ available + Cardinality(Permitted) = MaxConcurrent
      /\ Cardinality(Permitted) \in Nat /\ available \in Nat /\ MaxConcurrent \in Nat
  <2>1. Permitted \in SUBSET Requests
    BY DEF Permitted
  <2> QED BY <2>1, ConfigAssumption, RequestsAssumption, FS_Subset, FS_CardinalityType
          DEF IInv, Books, Types
<1>2. CASE Admit(r)
  <2>1. r \notin Permitted /\ r \notin Refused
    BY <1>1, <1>2 DEF Admit, Local, Lent, Answered, Completing, Working, Permitted, Refused
  <2>2. CASE available > 0 /\ permit' = [permit EXCEPT ![r] = TRUE] /\ outcome' = outcome
    BY <1>1, <2>1, <2>2 DEF Types, Permitted, Refused
  <2>3. CASE /\ MaxConcurrent > 0 /\ available = 0 /\ permit' = permit
             /\ outcome' = [outcome EXCEPT ![r] = "at_capacity"]
    BY <1>1, <2>1, <2>3 DEF Types, Permitted, Refused
  <2>4. CASE permit' = permit /\ outcome' = outcome
    BY <2>4 DEF Permitted, Refused
  <2> QED BY <1>2, <2>2, <2>3, <2>4 DEF Admit, Return
<1>3. CASE DropPermit(r)
  BY <1>1, <1>3 DEF DropPermit, Types, Permitted, Refused
<1>4. CASE DropGauge(r)
  BY <1>1, <1>4 DEF DropGauge, Types, Permitted, Refused
<1> QED BY <1>2, <1>3, <1>4

\* The limiter keeps its promise (AdmissionControl): at most MaxConcurrent completions,
\* streamed bodies included, hold a permit at any time, and a request is refused only
\* when that many really are in progress.
THEOREM LimiterImplemented == Spec => AdmissionSpec
<1>1. Init => Admission!Init
  <2> SUFFICES ASSUME Init PROVE Busy = {} /\ Refused = {}
    BY DEF Admission!Init, Busy, Refused
  <2> QED BY DEF Init, Busy, Refused, Completing, Working
<1>2. IInv /\ IInv' /\ [Next]_vars => [Admission!Next]_(Admission!admissionVars)
  <2> SUFFICES ASSUME IInv, IInv', [Next]_vars
               PROVE  [Admission!Next]_(Admission!admissionVars)
    OBVIOUS
  <2>1. Busy = Permitted /\ Busy' = Permitted'
    BY BusyIsPermitted DEF IInv, Local, Busy, Permitted, Lent
  <2>2. ASSUME NEW r \in Requests, Moves(r)
        PROVE  [Admission!Next]_(Admission!admissionVars)
    <3>1. \/ Busy' = Busy /\ Refused' = Refused
          \/ /\ r \notin Busy \cup Refused /\ Cardinality(Busy) < MaxConcurrent
             /\ Busy' = Busy \cup {r} /\ Refused' = Refused
          \/ /\ r \notin Busy \cup Refused
             /\ MaxConcurrent > 0 /\ Cardinality(Busy) = MaxConcurrent
             /\ Refused' = Refused \cup {r} /\ Busy' = Busy
          \/ r \in Busy /\ Busy' = Busy \ {r} /\ Refused' = Refused
          \/ r \in Refused /\ Refused' = Refused \ {r} /\ Busy' = Busy
      BY <2>1, <2>2, Visible, Invisible DEF Permitted
    <3>2. Admission!Cardinality(Busy) = Cardinality(Busy)
      BY DEF Admission!Cardinality, Cardinality, Admission!IsFiniteSet, IsFiniteSet
    <3> QED BY <3>1, <3>2 DEF Admission!Next, Admission!Admit, Admission!Refuse, Admission!Finish,
               Admission!Leave, Admission!admissionVars, Busy, Refused
  <2>3. CASE UNCHANGED vars
    BY <2>3 DEF vars, Admission!admissionVars, Completing, Working
  <2> QED BY <2>2, <2>3 DEF Next, Moves
<1> QED BY IInvHolds, <1>1, <1>2, PTL DEF Spec, AdmissionSpec, Admission!Spec
===========================================================================
