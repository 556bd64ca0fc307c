------------------------ MODULE PriorityFreeHistory ------------------------
(***************************************************************************)
(* PriorityFree with history variables that remember what was true during  *)
(* the whole of a select, so that its answer can be judged although the    *)
(* select reads the shared state at many different instants.               *)
(***************************************************************************)
EXTENDS PriorityFree

VARIABLES
  steady,  \* steady[r]: the nodes that were selectable for r ever since
  barred   \* barred[r]: the nodes that were in cooldown for r ever since

history == <<steady, barred>>
histVars == <<pfVars, history>>

Selectable(t) == {n \in Nodes : ~Cooled(n, t)}

HInit ==
  /\ Init
  /\ steady = [r \in Requests |-> {}]
  /\ barred = [r \in Requests |-> {}]

\* The set `kept` of nodes that still qualify, restarted when a select begins
\* and forgotten when it ends.
Still(r, old, kept) ==
  CASE pc'[r] \notin Selecting -> {}
    [] pc'[r] \in Selecting /\ pc[r] = "idle" -> kept
    [] OTHER -> old \cap kept

HNext ==
  /\ Next
  /\ steady' = [r \in Requests |-> Still(r, steady[r], Selectable(now[r])')]
  /\ barred' = [r \in Requests |-> Still(r, barred[r], Nodes \ Selectable(now[r])')]

HSpec == HInit /\ [][HNext]_histVars
HFairSpec == HSpec /\ Fairness

---------------------------------------------------------------------------
Returns(r, phases) == pc[r] \in phases /\ pc'[r] = "holding"

\* The all-cooled fallback is never taken while some node stayed selectable
\* for the whole select, although the flag and the expiry of a node are read
\* in two steps: mark_failed keeps the mutex until the flag is down.
NoNeedlessFallback == \A r \in Requests : pc[r] = "fallback" => steady[r] = {}

\* A node that was in cooldown for the whole select is served only through the
\* fallback, whatever other requests do to it meanwhile.
CooledNodeSkipped ==
  [][\A r \in Requests :
       Returns(r, {"free", "release"}) => guard'[r] \notin barred[r]]_histVars
===========================================================================
