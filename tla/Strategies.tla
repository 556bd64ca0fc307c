----------------------------- MODULE Strategies -----------------------------
(***************************************************************************)
(* Both strategies under two disciplines, chosen in the initial state.     *)
(* "alone": nobody disturbs a select or a mark_failed, so that what a      *)
(* select returns can be compared with a reference definition.             *)
(* "together": round-robin selects interleave freely and no node fails, so *)
(* that the nodes' shares can be compared.                                 *)
(***************************************************************************)
EXTENDS BackendNode, FiniteSetsExt

VARIABLES
  strategy,    \* the group's strategy
  discipline,  \* alone or together
  reserved, counter, start,
  dispatched   \* history: selects each node has won, less those every node has won

PF == INSTANCE PriorityFree
RR == INSTANCE RoundRobin

strategyVars == <<vars, strategy, discipline, reserved, counter, start, dispatched>>

Init ==
  /\ PF!Init /\ RR!Init
  /\ strategy \in {"priority_free", "round_robin"}
  /\ discipline \in {"alone"} \cup (IF strategy = "round_robin" THEN {"together"} ELSE {})
  /\ dispatched = [n \in Nodes |-> 0]

Selecting == PF!Selecting \cup RR!Selecting
Undisturbed(r) == \A q \in Requests \ {r} : pc[q] \notin Selecting \cup {"failing", "locked"}

StepAlone(r) ==
  /\ discipline = "alone" /\ Undisturbed(r)
  /\ \/ strategy = "priority_free" /\ PF!Step(r) /\ UNCHANGED <<counter, start>>
     \/ strategy = "round_robin" /\ RR!Step(r) /\ UNCHANGED reserved
  /\ UNCHANGED dispatched

Wins(r, n) == pc[r] \in Selecting /\ pc'[r] = "holding" /\ guard'[r] = n

Level(f) == [n \in Nodes |-> f[n] - Min({f[m] : m \in Nodes})]

StepTogether(r) ==
  /\ discipline = "together"
  /\ RR!Step(r) /\ pc'[r] # "failing"
  /\ dispatched' = Level([n \in Nodes |-> dispatched[n] + (IF Wins(r, n) THEN 1 ELSE 0)])
  /\ UNCHANGED reserved

Next ==
  /\ \/ \E r \in Requests : StepAlone(r) \/ StepTogether(r)
     \/ Tick /\ UNCHANGED <<reserved, counter, start, dispatched>>
  /\ UNCHANGED <<strategy, discipline>>

Spec == Init /\ [][Next]_strategyVars

---------------------------------------------------------------------------
Open(r) == {n \in Nodes : ~Cooled(n, now[r])}
Recovering == FirstMin(Nodes, cooldown_until)

Answers(r) == discipline = "alone" /\ pc[r] \in Selecting /\ pc'[r] = "holding"

\* An undisturbed select of priority_free returns the node the doc comment of
\* priority_free.rs promises: the lowest-index idle node, else the least
\* loaded one (lowest index wins ties) among those not in cooldown, else the
\* soonest to recover.
PriorityFreeIsReference ==
  \A r \in Requests : strategy = "priority_free" /\ Answers(r) =>
    LET load == [n \in Nodes |-> active[n] - (IF n \in reserved[r] THEN 1 ELSE 0)]
    IN  guard'[r] = IF Open(r) # {} THEN FirstMin(Open(r), load) ELSE Recovering

\* An undisturbed select of round_robin returns the first node from its ticket
\* on that is not in cooldown and, when every node is, the soonest to recover.
RoundRobinIsReference ==
  \A r \in Requests : strategy = "round_robin" /\ Answers(r) =>
    LET rank == {k \in 0 .. N - 1 : (start[r] + k) % N \in Open(r)}
    IN  guard'[r] = IF rank # {} THEN (start[r] + Min(rank)) % N ELSE Recovering

\* "Cycles through the nodes in order": as long as no node fails, the numbers
\* of requests two nodes have won differ by at most one, plus the selects that
\* have a ticket and have not claimed yet, however the selects interleave; and
\* a node's counter is the number of guards on it.
FairShare ==
  /\ \A m, n \in Nodes :
       dispatched[n] - dispatched[m] <= 1 + Cardinality({r \in Requests : pc[r] \in Selecting})
  /\ strategy = "round_robin" => RR!Conservation
===========================================================================
