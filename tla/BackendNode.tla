---------------------------- MODULE BackendNode ----------------------------
(***************************************************************************)
(* The runtime state of the backend nodes of one group and the operations  *)
(* on it that both balancing strategies share: the busy counter and the    *)
(* RAII guard that owns one unit of it (balancer.rs), and the failure      *)
(* cooldown (node.rs).                                                     *)
(*                                                                         *)
(* A request is a thread of the tokio runtime.  Every atomic operation and *)
(* every critical section of the cooldown mutex is one step, so requests   *)
(* interleave between any two of them.  The strategies (PriorityFree,      *)
(* RoundRobin) extend this module with the steps of their `select`.        *)
(***************************************************************************)
EXTENDS Integers, FiniteSets

CONSTANTS
  N,          \* number of nodes of the group
  Requests,   \* requests that may be in flight at the same time
  None,       \* the absent node, owner or lock holder
  Cooldown,   \* failure_cooldown_secs of the group
  MaxClock,   \* bound of the model: the last instant of the clock
  UsizeMax    \* the largest usize

ASSUME NodesAssumption == N \in Nat \ {0}
ASSUME RequestsAssumption == IsFiniteSet(Requests)
ASSUME ClockAssumption == Cooldown \in Nat /\ MaxClock \in Nat
ASSUME UsizeAssumption == UsizeMax \in Nat /\ Cardinality(Requests) <= UsizeMax

Nodes == 0 .. N - 1

ASSUME NoneAssumption == None \notin Requests /\ None \notin Nodes

VARIABLES
  active,          \* active_requests of each node
  healthy,         \* the healthy flag of each node
  cooldown_until,  \* the instant guarded by the cooldown mutex of each node
  lock,            \* the request that holds that mutex, or None
  clock,           \* Instant::now()
  pc,              \* where each request is
  sub,             \* within a scan: the next step of the visit to node idx
  now,             \* the request's latest Instant::now() snapshot
  idx,             \* the number of nodes its current walk has visited
  best,            \* best_idx, or the running minimum of min_by_key
  key,             \* best_load, or the expiry of that minimum
  guard            \* the node its BackendGuard keeps busy, or None

nodeVars == <<active, healthy, cooldown_until, lock>>
walkVars == <<sub, now, idx, best, key>>
vars == <<active, healthy, cooldown_until, lock, clock, pc, sub, now, idx,
          best, key, guard>>

\* A request is between the return of `select` and the drop of its guard.
Serving == {"holding", "failing", "locked", "served"}

---------------------------------------------------------------------------
(* Atomic operations on a usize, with the wrap-around of the hardware.     *)

FetchAdd(a) == IF a = UsizeMax THEN 0 ELSE a + 1
FetchSub(a) == IF a = 0 THEN UsizeMax ELSE a - 1

\* Drop for BusyHandle: one fetch_sub, and a fetch_add that repairs a wrap.
ReleaseSlot(a) == IF a = 0 THEN FetchAdd(FetchSub(a)) ELSE FetchSub(a)

\* The next node of candidate_order(nodes, start) after `step` visits.
candidate_order(start, step) == ((start % N) + step) % N

\* in_cooldown as one would read it in a single instant; the code reads the
\* flag and the expiry in two steps (LoadHealthy, ReadUntil).
Cooled(n, t) == ~healthy[n] /\ t < cooldown_until[n]

\* The first of the nodes in S with the smallest measure m.
FirstMin(S, m) == CHOOSE n \in S : \A k \in S : m[n] < m[k] \/ (m[n] = m[k] /\ n <= k)

---------------------------------------------------------------------------
NodeInit ==
  /\ active = [n \in Nodes |-> 0]
  /\ healthy = [n \in Nodes |-> TRUE]
  /\ cooldown_until = [n \in Nodes |-> 0]
  /\ lock = [n \in Nodes |-> None]
  /\ clock = 0
  /\ pc = [r \in Requests |-> "idle"]
  /\ sub = [r \in Requests |-> "health"]
  /\ now = [r \in Requests |-> 0]
  /\ idx = [r \in Requests |-> 0]
  /\ best = [r \in Requests |-> None]
  /\ key = [r \in Requests |-> 0]
  /\ guard = [r \in Requests |-> None]

\* `continue`, or the end of one loop body: go on with the next node.
Visited(r) ==
  /\ idx' = [idx EXCEPT ![r] = @ + 1]
  /\ sub' = [sub EXCEPT ![r] = "health"]

\* Start the walk named by `phase` at its first node.
Walk(r, phase) ==
  /\ pc' = [pc EXCEPT ![r] = phase]
  /\ idx' = [idx EXCEPT ![r] = 0]
  /\ sub' = [sub EXCEPT ![r] = "health"]

\* in_cooldown, first read: the flag.  A healthy node is selectable at once.
LoadHealthy(r, phase, n) ==
  /\ pc[r] = phase /\ idx[r] < N /\ sub[r] = "health"
  /\ sub' = [sub EXCEPT ![r] = IF healthy[n] THEN "act" ELSE "until"]
  /\ UNCHANGED <<nodeVars, clock, pc, now, idx, best, key, guard>>

\* Mutant: the visit compares the expiry with the live clock, not with the
\* snapshot of its select.
ReadUntil_bug(r, phase, n) ==
  /\ pc[r] = phase /\ sub[r] = "until"
  /\ lock[n] = None
  /\ \/ clock < cooldown_until[n] /\ Visited(r)
     \/ /\ ~(clock < cooldown_until[n])
        /\ sub' = [sub EXCEPT ![r] = "act"]
        /\ UNCHANGED idx
  /\ UNCHANGED <<nodeVars, clock, pc, now, best, key, guard>>

\* in_cooldown, second read: the expiry, under the mutex.
ReadUntil(r, phase, n) ==
  /\ pc[r] = phase /\ sub[r] = "until"
  /\ lock[n] = None
  /\ \/ now[r] < cooldown_until[n] /\ Visited(r)
     \/ /\ ~(now[r] < cooldown_until[n])
        /\ sub' = [sub EXCEPT ![r] = "act"]
        /\ UNCHANGED idx
  /\ UNCHANGED <<nodeVars, clock, pc, now, best, key, guard>>

\* soonest_recovering_node: read one expiry; only an earlier one wins.
FallbackVisit(r) ==
  LET n == idx[r] IN
  /\ pc[r] = "fallback" /\ idx[r] < N
  /\ lock[n] = None
  /\ \/ /\ idx[r] = 0 \/ cooldown_until[n] < key[r]
        /\ best' = [best EXCEPT ![r] = n]
        /\ key' = [key EXCEPT ![r] = cooldown_until[n]]
     \/ /\ idx[r] # 0 /\ cooldown_until[n] >= key[r]
        /\ UNCHANGED <<best, key>>
  /\ Visited(r)
  /\ UNCHANGED <<nodeVars, clock, pc, now, guard>>

\* BackendGuard::from_claimed: `select` returns a guard that owns one unit of
\* n's counter, and its locals go out of scope.
FromClaimed(r, n) ==
  /\ guard' = [guard EXCEPT ![r] = n]
  /\ pc' = [pc EXCEPT ![r] = "holding"]
  /\ sub' = [sub EXCEPT ![r] = "health"]
  /\ now' = [now EXCEPT ![r] = 0]
  /\ idx' = [idx EXCEPT ![r] = 0]
  /\ best' = [best EXCEPT ![r] = None]
  /\ key' = [key EXCEPT ![r] = 0]

\* BackendGuard::new: the increment, then from_claimed.
NewGuard(r, n) ==
  /\ active' = [active EXCEPT ![n] = FetchAdd(@)]
  /\ FromClaimed(r, n)

\* The end of min_by_key: the minimum serves the request.
FallbackClaim(r) ==
  /\ pc[r] = "fallback" /\ idx[r] = N
  /\ NewGuard(r, best[r])
  /\ UNCHANGED <<healthy, cooldown_until, lock, clock>>

---------------------------------------------------------------------------
(* What the handler does with the guard (handler.rs).                      *)

\* A 2xx answer: mark_healthy.
MarkHealthy(r) ==
  /\ pc[r] = "holding"
  /\ healthy' = [healthy EXCEPT ![guard[r]] = TRUE]
  /\ pc' = [pc EXCEPT ![r] = "served"]
  /\ UNCHANGED <<active, cooldown_until, lock, clock, walkVars, guard>>

\* A transport error, a 429 or a 5xx: mark_failed.  It reads the clock before
\* it takes the mutex, ...
MarkFailed(r) ==
  /\ pc[r] = "holding"
  /\ now' = [now EXCEPT ![r] = clock]
  /\ pc' = [pc EXCEPT ![r] = "failing"]
  /\ UNCHANGED <<nodeVars, clock, sub, idx, best, key, guard>>

\* Mutant: the mutex is released before the flag is cleared.
MarkFailedExpiry_bug(r) ==
  /\ pc[r] = "failing"
  /\ lock[guard[r]] = None
  /\ cooldown_until' = [cooldown_until EXCEPT ![guard[r]] = now[r] + Cooldown]
  /\ now' = [now EXCEPT ![r] = 0]
  /\ pc' = [pc EXCEPT ![r] = "locked"]
  /\ UNCHANGED <<active, healthy, lock, clock, sub, idx, best, key, guard>>

\* ... writes the expiry under the mutex, ...
MarkFailedExpiry(r) ==
  /\ pc[r] = "failing"
  /\ lock[guard[r]] = None
  /\ lock' = [lock EXCEPT ![guard[r]] = r]
  /\ cooldown_until' = [cooldown_until EXCEPT ![guard[r]] = now[r] + Cooldown]
  /\ now' = [now EXCEPT ![r] = 0]
  /\ pc' = [pc EXCEPT ![r] = "locked"]
  /\ UNCHANGED <<active, healthy, clock, sub, idx, best, key, guard>>

\* ... and clears the flag before the mutex guard goes out of scope.
MarkFailedFlag(r) ==
  /\ pc[r] = "locked"
  /\ healthy' = [healthy EXCEPT ![guard[r]] = FALSE]
  /\ lock' = [lock EXCEPT ![guard[r]] = None]
  /\ pc' = [pc EXCEPT ![r] = "served"]
  /\ UNCHANGED <<active, cooldown_until, clock, walkVars, guard>>

\* The last clone of the guard drops.  An answer that says nothing about the
\* node, and a client that went away, drop it straight from "holding".
DropGuard(r) ==
  /\ pc[r] \in {"holding", "served"}
  /\ active' = [active EXCEPT ![guard[r]] = ReleaseSlot(@)]
  /\ guard' = [guard EXCEPT ![r] = None]
  /\ pc' = [pc EXCEPT ![r] = "idle"]
  /\ UNCHANGED <<healthy, cooldown_until, lock, clock, walkVars>>

Tick ==
  /\ clock < MaxClock
  /\ clock' = clock + 1
  /\ UNCHANGED <<nodeVars, pc, walkVars, guard>>

\* The steps of one request outside its `select`.
Serve(r) ==
  \/ MarkHealthy(r) \/ MarkFailed(r) \/ MarkFailedExpiry(r) \/ MarkFailedFlag(r)
  \/ DropGuard(r)

\* The steps of the common fallback of `select`.
Fallback(r) == FallbackVisit(r) \/ FallbackClaim(r)

===========================================================================
