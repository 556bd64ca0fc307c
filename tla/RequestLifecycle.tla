-------------------------- MODULE RequestLifecycle --------------------------
(***************************************************************************)
(* The life of a request inside the proxy (ProxyHandler::handle and the    *)
(* functions it calls): what it claims, in which order, and how every exit *)
(* gives it back.                                                          *)
(*                                                                         *)
(* A request holds up to four things: one unit of the concurrent_requests  *)
(* gauge (ConcurrentGuard), one unit of its node's busy counter            *)
(* (BackendGuard), one permit of the limiter (OwnedSemaphorePermit) and,   *)
(* during a reprompt follow-up, a second unit of the busy counter.  All    *)
(* four are released by Drop: when the handler returns, when the client    *)
(* goes away while the handler awaits something, or, for a streamed        *)
(* answer, when the response body is dropped long after the handler        *)
(* returned.  Each drop is a step.                                         *)
(*                                                                         *)
(* The balancer is abstracted to the choice of a node (GroupedRouting,     *)
(* PriorityFree and RoundRobin model it); a metric counter is represented  *)
(* by the requests that have bumped it.                                    *)
(***************************************************************************)
EXTENDS Integers, FiniteSets

CONSTANTS
  Requests,       \* requests that may be in flight at the same time
  Nodes,          \* the backend nodes
  None,           \* the absent node
  Kinds,          \* the kinds of request the clients send
  MaxConcurrent,  \* max_concurrent_requests; 0 means unlimited
  Passthrough,    \* streaming: passthrough rather than fake
  Augmenting,     \* an augment-backend is configured
  MaxRetries      \* reprompt max_retries; 0 when the engine is off

\* Which route the request matches, whether its body is a JSON document,
\* whether the rewrites for completions apply to it, the "stream" flag in
\* that document, and whether it speaks the Anthropic API.
AllKinds ==
  {k \in [route : {"vram", "monitor", "metrics", "forward"}, json : BOOLEAN,
          shaped : BOOLEAN, stream : BOOLEAN, anthropic : BOOLEAN] :
     k.stream => k.json}

ASSUME RequestsAssumption == IsFiniteSet(Requests)
ASSUME NoneAssumption == None \notin Nodes
ASSUME KindsAssumption == Kinds \subseteq AllKinds
ASSUME ConfigAssumption ==
  /\ MaxConcurrent \in Nat /\ MaxRetries \in Nat
  /\ Passthrough \in BOOLEAN /\ Augmenting \in BOOLEAN

VARIABLES
  gauge,      \* concurrent_requests
  available,  \* permits left in concurrent_semaphore
  active,     \* active_requests of each node
  healthy,    \* the healthy flag of each node
  pc,         \* where each request is
  kind,       \* what it asks for
  gauged,     \* it owns a ConcurrentGuard
  guard,      \* the node its BackendGuard keeps busy, or None
  permit,     \* it owns a permit
  follow,     \* it owns the BackendGuard of a reprompt follow-up
  rounds,     \* reprompt rounds it has started
  sent,       \* the "stream" flag of the body the backend was sent
  status,     \* the backend's status: none, 2xx, fault (429, 5xx), other
  outcome,    \* what the client is answered
  counted     \* the metric counters it has bumped

shared == <<gauge, available, active, healthy>>
owned == <<gauged, guard, permit, follow>>
facts == <<sent, status, counted>>
vars == <<gauge, available, active, healthy, pc, kind, gauged, guard, permit,
          follow, rounds, sent, status, outcome, counted>>

NoKind == [route |-> "forward", json |-> FALSE, shaped |-> FALSE,
           stream |-> FALSE, anthropic |-> FALSE]

\* Where the handler is suspended, and the client's departure can cancel it.
Awaits == {"reading", "vram", "augmenting", "awaiting", "buffering", "following",
           "measuring"}

\* Where the handler runs without a suspension point.
Running == {"selecting", "routing", "admitting", "sending", "reprompting", "handoff"}

Init ==
  /\ gauge = 0
  /\ available = MaxConcurrent
  /\ active = [n \in Nodes |-> 0]
  /\ healthy = [n \in Nodes |-> TRUE]
  /\ pc = [r \in Requests |-> "idle"]
  /\ kind = [r \in Requests |-> NoKind]
  /\ gauged = [r \in Requests |-> FALSE]
  /\ guard = [r \in Requests |-> None]
  /\ permit = [r \in Requests |-> FALSE]
  /\ follow = [r \in Requests |-> FALSE]
  /\ rounds = [r \in Requests |-> 0]
  /\ sent = [r \in Requests |-> FALSE]
  /\ status = [r \in Requests |-> "none"]
  /\ outcome = [r \in Requests |-> "none"]
  /\ counted = [r \in Requests |-> {}]

Goto(r, label) == pc' = [pc EXCEPT ![r] = label]
Count(r, names) == counted' = [counted EXCEPT ![r] = @ \cup names]

\* `return`: the handler has its answer, and its locals are about to drop.
Return(r, answer) ==
  /\ Goto(r, "dropping")
  /\ outcome' = [outcome EXCEPT ![r] = answer]

---------------------------------------------------------------------------
(* From the first byte to the backend.                                     *)

Arrive(r) ==
  /\ pc[r] = "idle"
  /\ gauge' = gauge + 1
  /\ gauged' = [gauged EXCEPT ![r] = TRUE]
  /\ \E k \in Kinds : kind' = [kind EXCEPT ![r] = k]
  /\ Goto(r, "reading")
  /\ UNCHANGED <<available, active, healthy, guard, permit, follow, rounds, facts,
                 outcome>>

\* prepare_request: the whole body, or a 4xx.
PrepareRequest(r) ==
  /\ pc[r] = "reading"
  /\ \/ Goto(r, "selecting") /\ UNCHANGED outcome
     \/ Return(r, "bad_body")
  /\ UNCHANGED <<shared, kind, owned, rounds, facts>>

\* load_balancer.select: a guard, or NoMatchingBackend.
SelectBackend(r) ==
  /\ pc[r] = "selecting"
  /\ \/ /\ \E n \in Nodes :
             /\ guard' = [guard EXCEPT ![r] = n]
             /\ active' = [active EXCEPT ![n] = @ + 1]
        /\ Goto(r, "routing")
        /\ UNCHANGED outcome
     \/ Return(r, "no_backend") /\ UNCHANGED <<guard, active>>
  /\ UNCHANGED <<gauge, available, healthy, kind, gauged, permit, follow, rounds,
                 facts>>

\* route: a local answer, a monitoring pass-through, or a forward.
Route(r) ==
  /\ pc[r] = "routing"
  /\ \/ kind[r].route = "vram" /\ Goto(r, "vram") /\ UNCHANGED outcome
     \/ kind[r].route = "monitor" /\ Goto(r, "sending") /\ UNCHANGED outcome
     \/ kind[r].route = "metrics" /\ Return(r, "local")
     \/ kind[r].route = "forward" /\ Goto(r, "admitting") /\ UNCHANGED outcome
  /\ UNCHANGED <<shared, kind, owned, rounds, facts>>

\* handle_vram_estimate: both probes are over, each within its 2 s.
VramEstimate(r) ==
  /\ pc[r] = "vram"
  /\ \/ Count(r, {"vram_served"}) /\ Return(r, "local")
     \/ Count(r, {"vram_unknown"}) /\ Return(r, "unknown")
  /\ UNCHANGED <<shared, kind, owned, rounds, sent, status>>

\* The limiter: try_acquire_owned, or the proxy's own 429.
Admit(r) ==
  /\ pc[r] = "admitting"
  /\ \/ /\ MaxConcurrent > 0 /\ available > 0
        /\ available' = available - 1
        /\ permit' = [permit EXCEPT ![r] = TRUE]
        /\ Goto(r, "augmenting")
        /\ UNCHANGED <<counted, outcome>>
     \/ /\ MaxConcurrent > 0 /\ available = 0
        /\ Count(r, {"rejected"})
        /\ Return(r, "at_capacity")
        /\ UNCHANGED <<available, permit>>
     \/ /\ MaxConcurrent = 0
        /\ Goto(r, "augmenting")
        /\ UNCHANGED <<available, permit, counted, outcome>>
  /\ UNCHANGED <<gauge, active, healthy, kind, gauged, guard, follow, rounds, sent,
                 status>>

\* The augment-backend: its text is injected, absent or not applicable; or it
\* fails and the request with it.
Augment(r) ==
  /\ pc[r] = "augmenting"
  /\ \/ Goto(r, "sending") /\ UNCHANGED outcome
     \/ Augmenting /\ kind[r].json /\ Return(r, "augment_error")
  /\ UNCHANGED <<shared, kind, owned, rounds, facts>>

\* allow_stream, keep_stream, and the flag that leaves on the wire: a body the
\* rewrites do not apply to is sent byte for byte.
AllowStream(k) == Passthrough /\ ~k.anthropic
KeepStream(k) == k.shaped /\ k.stream /\ AllowStream(k)

WireStream(k) == IF k.shaped THEN KeepStream(k) ELSE k.stream

\* Build the request, count it, and hand it to the HTTP client.
Send(r) ==
  LET k == kind[r] IN
  /\ pc[r] = "sending"
  /\ Goto(r, "awaiting")
  /\ \/ k.route = "monitor" /\ UNCHANGED <<sent, counted>>
     \/ /\ k.route = "forward"
        /\ sent' = [sent EXCEPT ![r] = WireStream(k)]
        /\ Count(r, (IF Passthrough /\ k.anthropic THEN {"anthropic_buffered"} ELSE {})
                    \cup (IF KeepStream(k) THEN {"routed_stream"} ELSE {}))
  /\ UNCHANGED <<shared, kind, owned, rounds, status, outcome>>

---------------------------------------------------------------------------
(* From the backend's answer to the handler's return.                      *)

\* send failed (refused, reset, timed out): the node is marked failed.
ConnectError(r) ==
  /\ pc[r] = "awaiting"
  /\ healthy' = [healthy EXCEPT ![guard[r]] = FALSE]
  /\ Return(r, "connect_error")
  /\ UNCHANGED <<gauge, available, active, kind, owned, rounds, facts>>

\* observe_backend_outcome.
Observe(r, s) ==
  /\ status' = [status EXCEPT ![r] = s]
  /\ healthy' = [healthy EXCEPT ![guard[r]] =
                   IF s = "fault" THEN FALSE ELSE IF s = "2xx" THEN TRUE ELSE @]

\* A head with text/event-stream: handle_streaming_response takes the permit
\* and the guard into the response body.
StreamAnswer(r) ==
  /\ pc[r] = "awaiting" /\ kind[r].route = "forward"
  /\ \E s \in {"2xx", "fault", "other"} : Observe(r, s)
  /\ Count(r, IF KeepStream(kind[r]) THEN {} ELSE {"fallback"})
  /\ Goto(r, "handoff")
  /\ UNCHANGED <<gauge, available, active, kind, owned, rounds, sent, outcome>>

\* Any other head: the body will be buffered.
BufferedAnswer(r) ==
  /\ pc[r] = "awaiting"
  /\ \E s \in {"2xx", "fault", "other"} :
       /\ Observe(r, s)
       /\ Count(r, IF kind[r].route = "forward" /\ KeepStream(kind[r]) /\ s = "2xx"
                   THEN {"nonsse"} ELSE {})
  /\ Goto(r, "buffering")
  /\ UNCHANGED <<gauge, available, active, kind, owned, rounds, sent, outcome>>

\* The status line of forward_response.
Forwarded(r) == IF status[r] = "2xx" THEN "ok" ELSE "backend_error"

\* The body is in: read and decompressed, or a 502.  A monitoring route
\* forwards it; a completion may be reprompted.
ReadAnswer(r) ==
  /\ pc[r] = "buffering"
  /\ \/ Return(r, "read_error")
     \/ kind[r].route = "monitor" /\ Return(r, Forwarded(r))
     \/ /\ kind[r].route = "forward" /\ ~kind[r].anthropic /\ kind[r].json
        /\ MaxRetries > 0
        /\ Goto(r, "reprompting")
        /\ UNCHANGED outcome
     \/ kind[r].route = "forward" /\ Goto(r, "measuring") /\ UNCHANGED outcome
  /\ UNCHANGED <<shared, kind, owned, rounds, facts>>

\* Mutant: the loop is bounded by the budget only, not by max_retries.
Reprompt_bug(r) ==
  /\ pc[r] = "reprompting"
  /\ \/ /\ follow' = [follow EXCEPT ![r] = TRUE]
        /\ active' = [active EXCEPT ![guard[r]] = @ + 1]
        /\ Goto(r, "following")
     \/ Goto(r, "measuring") /\ UNCHANGED <<follow, active>>
  /\ UNCHANGED <<gauge, available, healthy, kind, gauged, guard, permit, rounds, facts,
                 outcome>>

\* maybe_reprompt: another follow-up, which claims the node once more, or the
\* end of the loop (no trigger, no budget, rounds used up).
Reprompt(r) ==
  /\ pc[r] = "reprompting"
  /\ \/ /\ rounds[r] < MaxRetries
        /\ rounds' = [rounds EXCEPT ![r] = @ + 1]
        /\ follow' = [follow EXCEPT ![r] = TRUE]
        /\ active' = [active EXCEPT ![guard[r]] = @ + 1]
        /\ Goto(r, "following")
     \/ Goto(r, "measuring") /\ UNCHANGED <<rounds, follow, active>>
  /\ UNCHANGED <<gauge, available, healthy, kind, gauged, guard, permit, facts,
                 outcome>>

\* Mutant: a failed follow-up takes the node out of selection.
FollowUp_bug(r) ==
  /\ pc[r] = "following"
  /\ follow' = [follow EXCEPT ![r] = FALSE]
  /\ active' = [active EXCEPT ![guard[r]] = @ - 1]
  /\ \/ Goto(r, "reprompting") /\ UNCHANGED healthy
     \/ Goto(r, "measuring") /\ healthy' = [healthy EXCEPT ![guard[r]] = FALSE]
  /\ UNCHANGED <<gauge, available, kind, gauged, guard, permit, rounds, facts, outcome>>

\* send_follow_up is over (answer, error, timeout): another bare stop goes
\* back to the loop, anything else ends it.  Health is not touched.
FollowUp(r) ==
  /\ pc[r] = "following"
  /\ follow' = [follow EXCEPT ![r] = FALSE]
  /\ active' = [active EXCEPT ![guard[r]] = @ - 1]
  /\ Goto(r, "reprompting") \/ Goto(r, "measuring")
  /\ UNCHANGED <<gauge, available, healthy, kind, gauged, guard, permit, rounds, facts,
                 outcome>>

\* Mutant: the backend's status is not looked at before synthesis.
Synthesized_bug(r) == kind[r].stream

\* Only a 2xx may become a synthesized stream, which always answers 200.
Synthesized(r) == kind[r].stream /\ status[r] = "2xx"

\* emit_metrics, then the answer: a synthesized stream (or its error frame,
\* Anthropic only), or the buffered body under the backend's own status.
Respond(r) ==
  /\ pc[r] = "measuring"
  /\ \/ Synthesized(r) /\ Return(r, "ok")
     \/ Synthesized(r) /\ kind[r].anthropic /\ Return(r, "sse_error")
     \/ Return(r, Forwarded(r))
  /\ UNCHANGED <<shared, kind, owned, rounds, facts>>

---------------------------------------------------------------------------
(* Release.                                                                *)

\* Mutant: permit.take() is forgotten, so the permit drops with the handler.
HandOff_bug(r) ==
  /\ pc[r] = "handoff"
  /\ gauge' = gauge - 1
  /\ gauged' = [gauged EXCEPT ![r] = FALSE]
  /\ permit' = [permit EXCEPT ![r] = FALSE]
  /\ available' = IF permit[r] THEN available + 1 ELSE available
  /\ Goto(r, "streaming")
  /\ UNCHANGED <<active, healthy, kind, guard, follow, rounds, facts, outcome>>

\* The handler returns a lazy body: only the gauge drops.
HandOff(r) ==
  /\ pc[r] = "handoff"
  /\ gauge' = gauge - 1
  /\ gauged' = [gauged EXCEPT ![r] = FALSE]
  /\ Goto(r, "streaming")
  /\ UNCHANGED <<available, active, healthy, kind, guard, permit, follow, rounds, facts,
                 outcome>>

\* The body ends, fails or is dropped with the connection.
StreamEnds(r) ==
  /\ pc[r] = "streaming"
  /\ Goto(r, "dropping")
  /\ UNCHANGED <<shared, kind, owned, rounds, facts, outcome>>

\* The client goes away while the handler awaits: its future is dropped.
Cancel(r) ==
  /\ pc[r] \in Awaits
  /\ Return(r, "gone")
  /\ UNCHANGED <<shared, kind, owned, rounds, facts>>

\* The locals drop, innermost first.
DropFollow(r) ==
  /\ pc[r] = "dropping" /\ follow[r]
  /\ follow' = [follow EXCEPT ![r] = FALSE]
  /\ active' = [active EXCEPT ![guard[r]] = @ - 1]
  /\ UNCHANGED <<gauge, available, healthy, pc, kind, gauged, guard, permit, rounds,
                 facts, outcome>>

DropPermit(r) ==
  /\ pc[r] = "dropping" /\ ~follow[r] /\ permit[r]
  /\ permit' = [permit EXCEPT ![r] = FALSE]
  /\ available' = available + 1
  /\ UNCHANGED <<gauge, active, healthy, pc, kind, gauged, guard, follow, rounds, facts,
                 outcome>>

DropGuard(r) ==
  /\ pc[r] = "dropping" /\ ~follow[r] /\ ~permit[r] /\ guard[r] # None
  /\ guard' = [guard EXCEPT ![r] = None]
  /\ active' = [active EXCEPT ![guard[r]] = @ - 1]
  /\ UNCHANGED <<gauge, available, healthy, pc, kind, gauged, permit, follow, rounds,
                 facts, outcome>>

\* Mutant: the gauge is decremented by hand on the success path only.
DropGauge_bug(r) ==
  /\ pc[r] = "dropping" /\ ~follow[r] /\ ~permit[r] /\ guard[r] = None
  /\ gauge' = IF gauged[r] /\ outcome[r] # "gone" THEN gauge - 1 ELSE gauge
  /\ gauged' = [gauged EXCEPT ![r] = FALSE]
  /\ Goto(r, "idle")
  /\ kind' = [kind EXCEPT ![r] = NoKind]
  /\ rounds' = [rounds EXCEPT ![r] = 0]
  /\ sent' = [sent EXCEPT ![r] = FALSE]
  /\ status' = [status EXCEPT ![r] = "none"]
  /\ outcome' = [outcome EXCEPT ![r] = "none"]
  /\ counted' = [counted EXCEPT ![r] = {}]
  /\ UNCHANGED <<available, active, healthy, guard, permit, follow>>

\* The last local is the gauge, unless a streamed answer dropped it before.
DropGauge(r) ==
  /\ pc[r] = "dropping" /\ ~follow[r] /\ ~permit[r] /\ guard[r] = None
  /\ gauge' = IF gauged[r] THEN gauge - 1 ELSE gauge
  /\ gauged' = [gauged EXCEPT ![r] = FALSE]
  /\ Goto(r, "idle")
  /\ kind' = [kind EXCEPT ![r] = NoKind]
  /\ rounds' = [rounds EXCEPT ![r] = 0]
  /\ sent' = [sent EXCEPT ![r] = FALSE]
  /\ status' = [status EXCEPT ![r] = "none"]
  /\ outcome' = [outcome EXCEPT ![r] = "none"]
  /\ counted' = [counted EXCEPT ![r] = {}]
  /\ UNCHANGED <<available, active, healthy, guard, permit, follow>>

Drop(r) == DropFollow(r) \/ DropPermit(r) \/ DropGuard(r) \/ DropGauge(r)

Step(r) ==
  \/ SelectBackend(r) \/ Route(r) \/ VramEstimate(r) \/ Admit(r) \/ Augment(r)
  \/ Send(r) \/ ConnectError(r) \/ StreamAnswer(r) \/ BufferedAnswer(r)
  \/ ReadAnswer(r) \/ Reprompt(r) \/ FollowUp(r) \/ Respond(r) \/ HandOff(r) \/ Drop(r)

Next ==
  \E r \in Requests : Arrive(r) \/ PrepareRequest(r) \/ Step(r) \/ StreamEnds(r) \/ Cancel(r)

\* Every await of the handler but the two that wait for the client is bounded:
\* by the node's and the augment-backend's request timeout, by the 2 s of the
\* probes and by the reprompt deadline.  Nothing is assumed of the client: it
\* may never finish its request body nor read a streamed answer to its end.
Fairness == \A r \in Requests : WF_vars(Step(r))

Spec == Init /\ [][Next]_vars
FairSpec == Spec /\ Fairness

---------------------------------------------------------------------------
TypeOK ==
  /\ gauge \in 0 .. Cardinality(Requests)
  /\ available \in 0 .. MaxConcurrent
  /\ active \in [Nodes -> Nat]
  /\ healthy \in [Nodes -> BOOLEAN]
  /\ pc \in [Requests -> Awaits \cup Running \cup {"idle", "streaming", "dropping"}]
  /\ kind \in [Requests -> Kinds \cup {NoKind}]
  /\ gauged \in [Requests -> BOOLEAN]
  /\ guard \in [Requests -> Nodes \cup {None}]
  /\ permit \in [Requests -> BOOLEAN]
  /\ follow \in [Requests -> BOOLEAN]
  /\ rounds \in [Requests -> 0 .. MaxRetries]
  /\ sent \in [Requests -> BOOLEAN]
  /\ status \in [Requests -> {"none", "2xx", "fault", "other"}]
  /\ outcome \in [Requests -> {"none", "bad_body", "no_backend", "local", "unknown",
        "at_capacity", "augment_error", "connect_error", "read_error", "ok",
        "backend_error", "sse_error", "gone"}]
  /\ counted \in [Requests -> SUBSET {"vram_served", "vram_unknown", "rejected",
        "anthropic_buffered", "routed_stream", "fallback", "nonsse"}]

\* A request for which a backend is, or soon will be, doing work.
Working(r) ==
  pc[r] \in {"augmenting", "sending", "awaiting", "buffering", "reprompting", "following",
             "measuring", "handoff", "streaming"}

\* A completion: work the limiter is there to bound.
Completing(r) == kind[r].route = "forward" /\ Working(r)

\* [C-L14] on ConcurrentGuard: "the gauge counts requests whose handler is
\* executing".  It is exact at every instant: no exit, cancellation or hand-off
\* to a body leaves a unit behind or takes one twice, and a request that is
\* executing is counted.
GaugeCountsHandlers ==
  /\ gauge = Cardinality({r \in Requests : gauged[r]})
  /\ \A r \in Requests : pc[r] \in Awaits \cup Running => gauged[r]

\* A node's busy counter is exact, and it covers all the work done there: every
\* request that works on a node, its response body included, keeps one unit,
\* and a follow-up a second one.
ClaimsCoverWork ==
  /\ \A n \in Nodes :
       active[n] = Cardinality({r \in Requests : guard[r] = n})
                   + Cardinality({r \in Requests : follow[r] /\ guard[r] = n})
  /\ \A r \in Requests : Working(r) => guard[r] # None
  /\ \A r \in Requests : pc[r] = "following" => follow[r]

\* A node's health changes only when a request that holds its claim hears from
\* it or fails to reach it: the failures of the augment-backend, of a follow-up,
\* of a client or of the limiter are never blamed on the node.
BlameOnlyForOwnAnswer ==
  [][\A n \in Nodes : healthy'[n] # healthy[n] =>
       \E r \in Requests : guard[r] = n /\ pc[r] = "awaiting" /\ pc'[r] # "awaiting"]_vars

\* A client that is told "200" for a forwarded request is told so by a backend
\* that answered 2xx: synthesis never launders an error into an empty turn.
SuccessNeverInvented ==
  \A r \in Requests : outcome[r] = "ok" => status[r] = "2xx"

\* The limiter as its operator sees it: permits are lent to the completions in
\* progress, streamed bodies included, and to nothing else.
Admission ==
  INSTANCE AdmissionControl WITH
    busy <- {r \in Requests : permit[r] \/ (MaxConcurrent > 0 /\ Completing(r))},
    refused <- {r \in Requests : outcome[r] = "at_capacity"}
AdmissionSpec == Admission!Spec

\* A request that has claimed a node gives it back, or is streaming to its
\* client: no path through the handler keeps a claim for ever.
ClaimReturned ==
  \A r \in Requests : guard[r] # None ~> guard[r] = None \/ pc[r] = "streaming"

\* The counters blame the right side: on the completion routes, "the backend
\* streamed although the proxy requested stream:false" is counted only when the
\* body on the wire said so, and the pass-through counters only when it did not.
CountersMatchWire ==
  \A r \in Requests : kind[r].shaped =>
    /\ "fallback" \in counted[r] => ~sent[r]
    /\ {"nonsse", "routed_stream"} \cap counted[r] # {} => sent[r]

\* The books of handle() balance at every instant, on every exit: no counter leaves its
\* range, and the gauge, the busy counters and the counters of answers that were not what was asked for.
AccountsExact == TypeOK /\ GaugeCountsHandlers /\ ClaimsCoverWork /\ CountersMatchWire
===========================================================================
