--------------------------- MODULE GroupedRouting ---------------------------
(***************************************************************************)
(* The routing of a request to a backend group by its model (grouped.rs).  *)
(* The configuration is a map, which is collected in an arbitrary order    *)
(* and sorted by name; every rung of find_group takes the first match.     *)
(***************************************************************************)
EXTENDS Integers, FiniteSets, Sequences, SequencesExt

CONSTANTS
  Names,    \* group names: numbers, so that they have an order
  Models,   \* model names
  NoModel,  \* a request that names no model
  NoGroup   \* the error NoMatchingBackend

VARIABLES
  stage,    \* "config", "collected", "built" or "answered"
  config,   \* group_configs: [Names' -> mappings and exclusive flag]
  entries,  \* the collected map
  groups,   \* GroupedLoadBalancer::groups: a sequence of names
  asked,    \* the model of the request
  routed    \* the group of the guard, or NoGroup

vars == <<stage, config, entries, groups, asked, routed>>

Group == [mappings : SUBSET Models, exclusive : BOOLEAN]

Init ==
  /\ stage = "config"
  /\ config \in UNION {[D -> Group] : D \in SUBSET Names}
  /\ entries = <<>> /\ groups = <<>>
  /\ asked = NoModel /\ routed = NoGroup

---------------------------------------------------------------------------
\* group_configs.into_iter().collect(): the order of a HashMap.
Collect ==
  /\ stage = "config" /\ stage' = "collected"
  /\ entries' \in {s \in SetToAllKPermutations(DOMAIN config) :
                     Len(s) = Cardinality(DOMAIN config)}
  /\ UNCHANGED <<config, groups, asked, routed>>

\* Mutant: the groups stay in the order of the map.
New_bug ==
  /\ stage = "collected" /\ stage' = "built"
  /\ groups' = entries
  /\ UNCHANGED <<config, entries, asked, routed>>

\* The entries in the order of their names, which the keys of a map do not share.
sort_by_name(s) ==
  CHOOSE t \in [DOMAIN s -> Range(s)] : \A i, j \in DOMAIN s : i < j => t[i] < t[j]

\* sort_by name, then one group per entry.
New ==
  /\ stage = "collected" /\ stage' = "built"
  /\ groups' = sort_by_name(entries)
  /\ UNCHANGED <<config, entries, asked, routed>>

maps_model(g, model) == model \in config[g].mappings
is_catch_all(g) == config[g].mappings = {}

\* The first of the groups S in stored order.
First(S) ==
  LET hits == {i \in DOMAIN groups : groups[i] \in S}
  IN  IF hits = {} THEN NoGroup
      ELSE groups[CHOOSE i \in hits : \A j \in hits : i <= j]

\* An owner of the model, else a catch-all, else a group that is not exclusive.
find_group(model) ==
  LET owners == {g \in DOMAIN config : ~is_catch_all(g) /\ maps_model(g, model)}
      catch_alls == {g \in DOMAIN config : is_catch_all(g)}
      open == {g \in DOMAIN config : ~config[g].exclusive}
  IN  CASE owners # {} -> First(owners)
        [] owners = {} /\ catch_alls # {} -> First(catch_alls)
        [] OTHER -> First(open)

\* select: the group's own balancer always answers.
Select(model) ==
  /\ stage \in {"built", "answered"} /\ stage' = "answered"
  /\ asked' = model /\ routed' = find_group(model)
  /\ UNCHANGED <<config, entries, groups>>

Next == Collect \/ New \/ \E model \in Models \cup {NoModel} : Select(model)

Spec == Init /\ [][Next]_vars

---------------------------------------------------------------------------
Least(S) == CHOOSE n \in S : \A k \in S : n <= k

\* Where a request belongs, stated on the configuration and not on any order:
\* to the first group by name that maps its model, else to the first catch-all,
\* else to the first that is not exclusive, else nowhere.
Destination(model) ==
  LET all == DOMAIN config
      owners == {g \in all : model \in config[g].mappings}
      catchers == {g \in all : config[g].mappings = {}}
      open == {g \in all : ~config[g].exclusive}
  IN  IF owners # {} THEN Least(owners)
      ELSE IF catchers # {} THEN Least(catchers)
      ELSE IF open # {} THEN Least(open)
      ELSE NoGroup

\* "every rung (and any duplicate mapping) resolves deterministically": the
\* group a request gets depends on the configuration and its model only, not on
\* the order in which the map was read, and it is the documented one.
RoutingIsDetermined == stage = "answered" => routed = Destination(asked)
===========================================================================
