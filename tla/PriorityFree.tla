---------------------------- MODULE PriorityFree ----------------------------
(***************************************************************************)
(* The priority_free strategy (priority_free.rs): claim the first node     *)
(* that is neither cooled nor busy; when there is none, reserve every      *)
(* candidate, keep the least loaded and release the others; when every     *)
(* node is cooled, serve from the soonest to recover.                      *)
(***************************************************************************)
EXTENDS BackendNode

VARIABLE reserved   \* the candidates a select has incremented and not released

pfVars == <<vars, reserved>>

Selecting == {"free", "busy", "release", "fallback"}

Init == NodeInit /\ reserved = [r \in Requests |-> {}]

Visiting(r) == candidate_order(0, idx[r])

---------------------------------------------------------------------------
\* select: take the clock snapshot every visit of this call compares with.
Begin(r) ==
  /\ pc[r] = "idle"
  /\ now' = [now EXCEPT ![r] = clock]
  /\ Walk(r, "free")
  /\ UNCHANGED <<nodeVars, clock, best, key, guard, reserved>>

\* Mutant: the compare is off by one, so a node with one request counts as free.
FreeClaim_bug(r) ==
  LET n == Visiting(r) IN
  /\ pc[r] = "free" /\ sub[r] = "act"
  /\ \/ /\ active[n] <= 1
        /\ active' = [active EXCEPT ![n] = FetchAdd(@)]
        /\ FromClaimed(r, n)
     \/ /\ active[n] > 1
        /\ Visited(r)
        /\ UNCHANGED <<active, guard, pc, now, best, key>>
  /\ UNCHANGED <<healthy, cooldown_until, lock, clock, reserved>>

\* First walk: test-and-set an idle node, or go on.
FreeClaim(r) ==
  LET n == Visiting(r) IN
  /\ pc[r] = "free" /\ sub[r] = "act"
  /\ \/ /\ active[n] = 0
        /\ active' = [active EXCEPT ![n] = 1]
        /\ FromClaimed(r, n)
     \/ /\ active[n] # 0
        /\ Visited(r)
        /\ UNCHANGED <<active, guard, pc, now, best, key>>
  /\ UNCHANGED <<healthy, cooldown_until, lock, clock, reserved>>

\* Nothing free: start the reserving walk.
FreeExhausted(r) ==
  /\ pc[r] = "free" /\ idx[r] = N
  /\ Walk(r, "busy")
  /\ key' = [key EXCEPT ![r] = UsizeMax]
  /\ UNCHANGED <<nodeVars, clock, now, best, guard, reserved>>

\* Mutant: only a candidate that becomes the best is recorded for release.
Reserve_leak(r) ==
  LET n == Visiting(r) IN
  /\ pc[r] = "busy" /\ sub[r] = "act"
  /\ active' = [active EXCEPT ![n] = FetchAdd(@)]
  /\ \/ /\ active[n] < key[r]
        /\ best' = [best EXCEPT ![r] = n]
        /\ key' = [key EXCEPT ![r] = active[n]]
        /\ reserved' = [reserved EXCEPT ![r] = @ \cup {n}]
     \/ active[n] >= key[r] /\ UNCHANGED <<best, key, reserved>>
  /\ Visited(r)
  /\ UNCHANGED <<healthy, cooldown_until, lock, clock, pc, now, guard>>

\* Mutant: an equal load supersedes the best, so the highest index wins ties.
Reserve_tie(r) ==
  LET n == Visiting(r) IN
  /\ pc[r] = "busy" /\ sub[r] = "act"
  /\ active' = [active EXCEPT ![n] = FetchAdd(@)]
  /\ reserved' = [reserved EXCEPT ![r] = @ \cup {n}]
  /\ \/ /\ active[n] <= key[r]
        /\ best' = [best EXCEPT ![r] = n]
        /\ key' = [key EXCEPT ![r] = active[n]]
     \/ active[n] > key[r] /\ UNCHANGED <<best, key>>
  /\ Visited(r)
  /\ UNCHANGED <<healthy, cooldown_until, lock, clock, pc, now, guard>>

\* Second walk: reserve the node; a strictly lower load becomes the best.
Reserve(r) ==
  LET n == Visiting(r) IN
  /\ pc[r] = "busy" /\ sub[r] = "act"
  /\ active' = [active EXCEPT ![n] = FetchAdd(@)]
  /\ reserved' = [reserved EXCEPT ![r] = @ \cup {n}]
  /\ \/ /\ active[n] < key[r]
        /\ best' = [best EXCEPT ![r] = n]
        /\ key' = [key EXCEPT ![r] = active[n]]
     \/ active[n] >= key[r] /\ UNCHANGED <<best, key>>
  /\ Visited(r)
  /\ UNCHANGED <<healthy, cooldown_until, lock, clock, pc, now, guard>>

\* Mutant: with every node cooled, scan again instead of falling back.
BusyExhausted_bug(r) ==
  /\ pc[r] = "busy" /\ idx[r] = N
  /\ \/ /\ best[r] # None
        /\ pc' = [pc EXCEPT ![r] = "release"]
        /\ UNCHANGED <<idx, sub>>
     \/ best[r] = None /\ Walk(r, "free")
  /\ UNCHANGED <<nodeVars, clock, now, best, key, guard, reserved>>

\* The end of the second walk.
BusyExhausted(r) ==
  /\ pc[r] = "busy" /\ idx[r] = N
  /\ \/ /\ best[r] # None
        /\ pc' = [pc EXCEPT ![r] = "release"]
        /\ UNCHANGED <<idx, sub>>
     \/ best[r] = None /\ Walk(r, "fallback")
  /\ UNCHANGED <<nodeVars, clock, now, best, key, guard, reserved>>

\* Release the next reservation that lost, in the order they were made.
ReleaseLoser(r) ==
  /\ pc[r] = "release"
  /\ \E n \in reserved[r] \ {best[r]} :
       /\ \A m \in reserved[r] \ {best[r]} : n <= m
       /\ active' = [active EXCEPT ![n] = FetchSub(@)]
       /\ reserved' = [reserved EXCEPT ![r] = @ \ {n}]
  /\ UNCHANGED <<healthy, cooldown_until, lock, clock, pc, walkVars, guard>>

\* from_claimed: the winner's reservation becomes the guard's claim.
KeepWinner(r) ==
  /\ pc[r] = "release" /\ reserved[r] \subseteq {best[r]}
  /\ FromClaimed(r, best[r])
  /\ reserved' = [reserved EXCEPT ![r] = {}]
  /\ UNCHANGED <<nodeVars, clock>>

Check(r) ==
  /\ \E phase \in {"free", "busy"} :
       LoadHealthy(r, phase, Visiting(r)) \/ ReadUntil(r, phase, Visiting(r))
  /\ UNCHANGED reserved

Select(r) ==
  \/ Begin(r) \/ Check(r) \/ FreeClaim(r) \/ FreeExhausted(r) \/ Reserve(r)
  \/ BusyExhausted(r) \/ ReleaseLoser(r) \/ KeepWinner(r)
  \/ Fallback(r) /\ UNCHANGED reserved

Step(r) == Select(r) \/ (Serve(r) /\ UNCHANGED reserved)

Next == (\E r \in Requests : Step(r)) \/ (Tick /\ UNCHANGED reserved)

\* A thread that runs `select` or `mark_failed` is never suspended for good:
\* both are synchronous and wait for nothing but a mutex held for two stores.
\* Strong fairness says that a thread waiting for that mutex gets it when it
\* is free again and again; nothing is assumed of an idle client, of the
\* backend's answer or of the clock.
Fairness ==
  \A r \in Requests :
    /\ SF_pfVars(Select(r) /\ pc[r] # "idle")
    /\ SF_pfVars((MarkFailedExpiry(r) \/ MarkFailedFlag(r)) /\ UNCHANGED reserved)

Spec == Init /\ [][Next]_pfVars
FairSpec == Spec /\ Fairness

---------------------------------------------------------------------------
TypeOK ==
  /\ active \in [Nodes -> 0 .. UsizeMax]
  /\ healthy \in [Nodes -> BOOLEAN]
  /\ cooldown_until \in [Nodes -> Nat]
  /\ lock \in [Nodes -> Requests \cup {None}]
  /\ clock \in 0 .. MaxClock
  /\ pc \in [Requests -> {"idle"} \cup Selecting \cup Serving]
  /\ sub \in [Requests -> {"health", "until", "act"}]
  /\ now \in [Requests -> 0 .. MaxClock]
  /\ idx \in [Requests -> 0 .. N]
  /\ best \in [Requests -> Nodes \cup {None}]
  /\ key \in [Requests -> Nat]
  /\ guard \in [Requests -> Nodes \cup {None}]
  /\ reserved \in [Requests -> SUBSET Nodes]

\* The nodes whose counter a request has incremented and not yet released.
Held(r) == reserved[r] \cup (IF guard[r] = None THEN {} ELSE {guard[r]})
Holders(n) == {r \in Requests : n \in Held(r)}

\* No unit of a busy counter is ever lost, doubled or left behind: at every
\* instant a node's counter is the number of guards on it plus the number of
\* transient reservations on it (the "net exactly +1" of select).
Conservation == \A n \in Nodes : active[n] = Cardinality(Holders(n))

\* A free claim is exclusive: at the instant the compare_exchange of one
\* request succeeds, no other request serves from or has reserved that node.
FreeClaimExclusive ==
  [][\A r \in Requests :
       pc[r] = "free" /\ pc'[r] = "holding" => Holders(guard'[r]) = {}]_pfVars

\* Every select that has begun returns a guard: the two walks, the release
\* loop and the cooldown mutex can neither livelock nor deadlock it.
SelectTerminates ==
  \A r \in Requests : pc[r] \in Selecting ~> pc[r] \in Serving
===========================================================================
