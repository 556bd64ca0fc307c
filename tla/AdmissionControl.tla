-------------------------- MODULE AdmissionControl --------------------------
(***************************************************************************)
(* What the proxy's concurrency limiter promises its operator: at most     *)
(* MaxConcurrent completions are in progress at any time, and a request is *)
(* refused only when that many really are.  RequestLifecycle implements it.*)
(***************************************************************************)
EXTENDS Integers, FiniteSets

CONSTANTS
  Requests,       \* requests that may be in flight at the same time
  MaxConcurrent   \* max_concurrent_requests; 0 means unlimited

VARIABLES
  busy,      \* the requests whose completion is in progress
  refused    \* the requests answered 429 by the proxy itself

admissionVars == <<busy, refused>>

Init == busy = {} /\ refused = {}

Admit(r) ==
  /\ r \notin busy \cup refused
  /\ MaxConcurrent = 0 \/ Cardinality(busy) < MaxConcurrent
  /\ busy' = busy \cup {r}
  /\ UNCHANGED refused

Refuse(r) ==
  /\ r \notin busy \cup refused
  /\ MaxConcurrent > 0 /\ Cardinality(busy) = MaxConcurrent
  /\ refused' = refused \cup {r}
  /\ UNCHANGED busy

Finish(r) == r \in busy /\ busy' = busy \ {r} /\ UNCHANGED refused

Leave(r) == r \in refused /\ refused' = refused \ {r} /\ UNCHANGED busy

Next == \E r \in Requests : Admit(r) \/ Refuse(r) \/ Finish(r) \/ Leave(r)

Spec == Init /\ [][Next]_admissionVars

===========================================================================
