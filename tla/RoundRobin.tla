----------------------------- MODULE RoundRobin -----------------------------
(***************************************************************************)
(* The round_robin strategy (round_robin.rs): take a ticket, walk the      *)
(* nodes from it and serve from the first that is not in cooldown; when    *)
(* every node is cooled, serve from the soonest to recover.                *)
(***************************************************************************)
EXTENDS BackendNode

VARIABLES
  counter,  \* the next ticket, a wrapping usize
  start     \* the ticket of each request's select

rrVars == <<vars, counter, start>>

Selecting == {"walk", "fallback"}

Init ==
  /\ NodeInit
  /\ counter = 0
  /\ start = [r \in Requests |-> 0]

Visiting(r) == candidate_order(start[r], idx[r])

---------------------------------------------------------------------------
\* Mutant: the ticket is read without being taken.
Begin_bug(r) ==
  /\ pc[r] = "idle"
  /\ now' = [now EXCEPT ![r] = clock]
  /\ start' = [start EXCEPT ![r] = counter]
  /\ Walk(r, "walk")
  /\ UNCHANGED <<nodeVars, clock, best, key, guard, counter>>

\* select: the clock snapshot and the ticket.
Begin(r) ==
  /\ pc[r] = "idle"
  /\ now' = [now EXCEPT ![r] = clock]
  /\ start' = [start EXCEPT ![r] = counter]
  /\ counter' = FetchAdd(counter)
  /\ Walk(r, "walk")
  /\ UNCHANGED <<nodeVars, clock, best, key, guard>>

\* The visited node is not in cooldown: serve from it.
Claim(r) ==
  /\ pc[r] = "walk" /\ sub[r] = "act"
  /\ NewGuard(r, Visiting(r))
  /\ start' = [start EXCEPT ![r] = 0]
  /\ UNCHANGED <<healthy, cooldown_until, lock, clock, counter>>

\* Every node is cooled.
AllCooled(r) ==
  /\ pc[r] = "walk" /\ idx[r] = N
  /\ Walk(r, "fallback")
  /\ UNCHANGED <<nodeVars, clock, now, best, key, guard, counter, start>>

Check(r) ==
  /\ LoadHealthy(r, "walk", Visiting(r)) \/ ReadUntil(r, "walk", Visiting(r))
  /\ UNCHANGED <<counter, start>>

Select(r) ==
  \/ Begin(r) \/ Check(r) \/ Claim(r) \/ AllCooled(r)
  \/ FallbackVisit(r) /\ UNCHANGED <<counter, start>>
  \/ FallbackClaim(r) /\ start' = [start EXCEPT ![r] = 0] /\ UNCHANGED counter

Step(r) == Select(r) \/ (Serve(r) /\ UNCHANGED <<counter, start>>)

Next == (\E r \in Requests : Step(r)) \/ (Tick /\ UNCHANGED <<counter, start>>)

Spec == Init /\ [][Next]_rrVars

---------------------------------------------------------------------------
TypeOK ==
  /\ active \in [Nodes -> 0 .. UsizeMax]
  /\ healthy \in [Nodes -> BOOLEAN]
  /\ cooldown_until \in [Nodes -> Nat]
  /\ lock \in [Nodes -> Requests \cup {None}]
  /\ clock \in 0 .. MaxClock
  /\ pc \in [Requests -> {"idle"} \cup Selecting \cup Serving]
  /\ sub \in [Requests -> {"health", "until", "act"}]
  /\ now \in [Requests -> 0 .. MaxClock]
  /\ idx \in [Requests -> 0 .. N]
  /\ best \in [Requests -> Nodes \cup {None}]
  /\ key \in [Requests -> Nat]
  /\ guard \in [Requests -> Nodes \cup {None}]
  /\ counter \in 0 .. UsizeMax
  /\ start \in [Requests -> 0 .. UsizeMax]

\* A node's counter is the number of guards on it: BackendGuard::new and the
\* drop of the last clone pair up in every interleaving.
Conservation ==
  \A n \in Nodes : active[n] = Cardinality({r \in Requests : guard[r] = n})
===========================================================================
