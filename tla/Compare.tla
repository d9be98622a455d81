------------------------------- MODULE Compare -------------------------------
(***************************************************************************)
(* A run of 'yd workrequirement compare' or 'yd taskgroup compare'         *)
(* (compare.py): whether Worker Pools, as they are, could do the work of   *)
(* each Task Group.  A pool's Compute Requirement and its Nodes are        *)
(* fetched when first a Task Group needs them and kept for those after it, *)
(* so that a pool that is scaling is compared as it was; what could not be *)
(* fetched is tried again for the next Task Group.                         *)
(*                                                                         *)
(* The targets are IDs: names are resolved before (Names).  A source is    *)
(* what its provider's class tells of it; the tables are not modelled.     *)
(***************************************************************************)
EXTENDS Integers, Sequences, FiniteSets

CONSTANTS
  None,
  Pools,             \* [kind, namespace, tag, sources] of each Worker Pool's ID
  Stages,            \* external: each pool's Nodes, as they come to be, in order
  Runs,              \* [pools, groups, running] of the command lines
  Codes              \* the exit codes of requests that fail

OK == 0
FAILURE == 1
NOT_FOUND == 6
SESSION_FAILURES == {4, 8}

LISTS == {"instanceTypes", "providers", "regions"}
MEMBERS == {"namespaces", "workerTags"}
RANGES == {"ram", "vcpus"}
PROPERTIES == LISTS \cup MEMBERS \cup RANGES \cup {"instancePricing", "taskTypes"}
REQUIRED_PRICING == {"SPOT_ONLY", "ON_DEMAND_ONLY"}

Number == Int \cup {None}
DoubleRange == {None} \cup [min : Number, max : Number]
RunSpecification ==
  [instanceTypes : SUBSET STRING, providers : SUBSET STRING, regions : SUBSET STRING,
   namespaces : SUBSET STRING, workerTags : SUBSET STRING, taskTypes : SUBSET STRING,
   ram : DoubleRange, vcpus : DoubleRange, instancePricing : {None} \cup STRING]
Node ==
  [running : BOOLEAN,
   details : {None} \cup [taskTypes : SUBSET STRING, ram : Number, vcpus : Number]]

Parameters ==
  /\ None \notin Int \cup REQUIRED_PRICING \cup [PROPERTIES -> {"YES", "MAYBE", "NO"}]
  /\ Codes \subseteq {1, 4, 5, 6, 7, 8}
  /\ DOMAIN Stages = DOMAIN Pools
  /\ \A p \in DOMAIN Stages : Stages[p] \in Seq(Seq(Node)) /\ Stages[p] # <<>>
  /\ \A r \in Runs :
       r.pools \in Seq(DOMAIN Pools) /\ r.groups \in Seq(RunSpecification) /\ r.running \in BOOLEAN

VARIABLES
  run,               \* the command line, and the Task Groups it comes to
  pools,             \* the Worker Pools fetched
  requirements,      \* the sources of those whose Compute Requirement was fetched
  nodes,             \* the Nodes of those whose Nodes were fetched
  stage,             \* external: how far each pool has scaled
  reports,           \* a row for each pool of each Task Group: its matches, or None
  failures,          \* the codes of those that could not be compared
  exit               \* None while it runs

vars == <<run, pools, requirements, nodes, stage, reports, failures, exit>>

TypeOK ==
  /\ run \in Runs
  /\ pools \in Seq(DOMAIN Pools)
  /\ DOMAIN requirements \subseteq DOMAIN Pools
  /\ DOMAIN nodes \subseteq DOMAIN Pools
  /\ stage \in [DOMAIN Pools -> Nat]
  /\ \A i \in DOMAIN reports :
       reports[i].pool \in DOMAIN Pools /\ reports[i].group \in DOMAIN run.groups
  /\ failures \in Seq(Codes \cup {FAILURE})
  /\ exit \in Codes \cup {None, OK, FAILURE, NOT_FOUND}
-----------------------------------------------------------------------------
\* A pool's values of one kind, over its sources
_get_instance_types(sources) == UNION {s.instanceTypes : s \in sources}
_get_providers(sources) == {IF s.provider = None THEN "UNKNOWN" ELSE s.provider : s \in sources}
_get_regions(sources) == {s.region : s \in sources} \ {None}
_get_instance_pricings(sources) ==
  {IF s.pricing = None THEN "UNKNOWN" ELSE s.pricing : s \in sources}

Values(property, sources) ==
  CASE property = "instanceTypes" -> _get_instance_types(sources)
    [] property = "providers" -> _get_providers(sources)
    [] property = "regions" -> _get_regions(sources)

Match(holds) == IF holds THEN "YES" ELSE "NO"

\* No list is no constraint, and neither is an empty one
_match_list(wanted, values) == Match(wanted = {} \/ values \subseteq wanted)
_match_member(wanted, value) == Match(wanted = {} \/ value \in wanted)
_match_instance_pricing(preference, sources) ==
  Match(preference \in REQUIRED_PRICING => _get_instance_pricings(sources) \subseteq {preference})

\* The Nodes of a pool that take part, by their places in the listing: the RUNNING
\* ones if only those count, and of them those with details
_get_all_nodes_in_worker_pool(listing) ==
  [i \in {j \in DOMAIN listing : run.running => listing[j].running} |-> listing[i]]
_nodes_reporting_details(all) == {i \in DOMAIN all : all[i].details # None}

Least(places) == CHOOSE i \in places : \A j \in places : i <= j

_node_reporting_task_types(all) ==
  LET reporting == _nodes_reporting_details(all)
      running == {i \in reporting : all[i].running}
  IN  all[Least(IF running # {} THEN running ELSE reporting)]

_match_task_types(wanted, all) ==
  IF wanted = {} THEN "YES"
  ELSE IF _nodes_reporting_details(all) = {} THEN "MAYBE"
  ELSE Match(wanted \subseteq _node_reporting_task_types(all).details.taskTypes)

_check_in_range(value, range) ==
  /\ value # None
  /\ range.min # None => value >= range.min
  /\ range.max # None => value <= range.max

_match_range(range, property, all) ==
  LET reporting == _nodes_reporting_details(all) IN
  IF range = None THEN "YES"
  ELSE IF reporting = {} THEN "MAYBE"
  ELSE Match(\A i \in reporting : _check_in_range(all[i].details[property], range))

\* A Task Group's run specification against one pool: each property's match
_check_worker_pool_for_match(spec, pool, sources, all) ==
  [p \in PROPERTIES |->
     CASE p \in LISTS -> _match_list(spec[p], Values(p, sources))
       [] p \in RANGES -> _match_range(spec[p], p, all)
       [] p = "instancePricing" -> _match_instance_pricing(spec.instancePricing, sources)
       [] p = "namespaces" -> _match_member(spec.namespaces, pool.namespace)
       [] p = "workerTags" -> _match_member(spec.workerTags, pool.tag)
       [] p = "taskTypes" -> _match_task_types(spec.taskTypes, all)]

summary(matches) ==
  LET seen == {matches[p] : p \in DOMAIN matches} IN
  CASE "NO" \in seen -> "NO"
    [] "NO" \notin seen /\ "MAYBE" \in seen -> "MAYBE"
    [] OTHER -> "YES"
-----------------------------------------------------------------------------
Init ==
  /\ run \in Runs
  /\ pools = <<>> /\ requirements = <<>> /\ nodes = <<>>
  /\ stage = [p \in DOMAIN Pools |-> 1]
  /\ reports = <<>> /\ failures = <<>> /\ exit = None

\* The Worker Pools given, each once: those yet to be fetched, by their places
Unasked == {i \in DOMAIN run.pools : \A k \in DOMAIN pools : pools[k] # run.pools[i]}
Asked == run.pools[Least(Unasked)]          \* the pool to fetch

Fetched == exit = None /\ Unasked = {}

\* The pool and the Task Group whose turn it is
Comparing == Fetched /\ Len(pools) > 0 /\ Len(reports) < Len(pools) * Len(run.groups)
Group == (Len(reports) \div Len(pools)) + 1
Pool == pools[(Len(reports) % Len(pools)) + 1]

\* A pool that is not there, cannot be fetched or is a configured one ends the run
\* before anything is compared
_get_provisioned_worker_pool_by_id ==
  /\ exit = None /\ Unasked # {}
  /\ LET kind == Pools[Asked].kind IN
     \/ kind = "provisioned" /\ pools' = Append(pools, Asked) /\ UNCHANGED exit
     \/ kind = "configured" /\ exit' = FAILURE /\ UNCHANGED pools
     \/ kind = "missing" /\ exit' = NOT_FOUND /\ UNCHANGED pools
     \/ kind # "missing" /\ exit' \in Codes /\ UNCHANGED pools
  /\ UNCHANGED <<run, requirements, nodes, stage, reports, failures>>

\* So does the Work Requirement or Task Group, fetched when the pools are
_get_work_requirement_by_id ==
  /\ Fetched /\ reports = <<>> /\ requirements = <<>> /\ nodes = <<>>
  /\ exit' \in Codes \cup {NOT_FOUND}
  /\ UNCHANGED <<run, pools, requirements, nodes, stage, reports, failures>>

Row(matches) == [group |-> Group, pool |-> Pool, matches |-> matches]

\* A failure that every request would meet ends the run; another is the pool's own
FailedComparison_NoRow(code) ==
  IF code \in SESSION_FAILURES THEN exit' = code /\ UNCHANGED <<reports, failures>>
  ELSE failures' = Append(failures, code) /\ exit' = code /\ UNCHANGED reports
FailedComparison(code) ==
  IF code \in SESSION_FAILURES THEN exit' = code /\ UNCHANGED <<reports, failures>>
  ELSE /\ reports' = Append(reports, Row(None))
       /\ failures' = Append(failures, code)
       /\ UNCHANGED exit

\* A cache with one more in it
With(cache, p, value) ==
  [q \in DOMAIN cache \cup {p} |-> IF q = p THEN value ELSE cache[q]]

_get_compute_requirement ==
  /\ Comparing /\ Pool \notin DOMAIN requirements
  /\ IF Pools[Pool].sources = None THEN FailedComparison(FAILURE) /\ UNCHANGED requirements
     ELSE \/ /\ requirements' = With(requirements, Pool, Pools[Pool].sources)
             /\ UNCHANGED <<reports, failures, exit>>
          \/ \E code \in Codes : FailedComparison(code) /\ UNCHANGED requirements
  /\ UNCHANGED <<run, pools, nodes, stage>>

ToCompare == Comparing /\ Pool \in DOMAIN requirements

_get_all_nodes_in_worker_pool_cached ==
  /\ ToCompare /\ Pool \notin DOMAIN nodes
  /\ \/ /\ nodes' = With(nodes, Pool, Stages[Pool][stage[Pool]])
        /\ UNCHANGED <<reports, failures, exit>>
     \/ \E code \in Codes : FailedComparison(code) /\ UNCHANGED nodes
  /\ UNCHANGED <<run, pools, requirements, stage>>

\* All of it is at hand
Matched_Anew ==
  _check_worker_pool_for_match(run.groups[Group], Pools[Pool], requirements[Pool],
                               _get_all_nodes_in_worker_pool(Stages[Pool][stage[Pool]]))
Matched ==
  _check_worker_pool_for_match(run.groups[Group], Pools[Pool], requirements[Pool],
                               _get_all_nodes_in_worker_pool(nodes[Pool]))

Report ==
  /\ ToCompare /\ Pool \in DOMAIN nodes
  /\ reports' = Append(reports, Row(Matched))
  /\ UNCHANGED <<run, pools, requirements, nodes, stage, failures, exit>>

\* The cause that the failures share, or FAILURE
SharedCause ==
  IF \A i \in DOMAIN failures : failures[i] = failures[1] THEN failures[1] ELSE FAILURE

_compare_task_group ==
  /\ Fetched /\ ~Comparing
  /\ exit' = IF failures = <<>> THEN OK ELSE SharedCause
  /\ UNCHANGED <<run, pools, requirements, nodes, stage, reports, failures>>

\* External: a pool's Nodes register, report their details, run and terminate
Scales(p) ==
  /\ exit = None /\ stage[p] < Len(Stages[p])
  /\ stage' = [stage EXCEPT ![p] = @ + 1]
  /\ UNCHANGED <<run, pools, requirements, nodes, reports, failures, exit>>

Next ==
  \/ _get_provisioned_worker_pool_by_id
  \/ _get_work_requirement_by_id
  \/ _get_compute_requirement
  \/ _get_all_nodes_in_worker_pool_cached
  \/ Report
  \/ _compare_task_group
  \/ \E p \in DOMAIN Pools : Scales(p)

Spec == Init /\ [][Next]_vars
-----------------------------------------------------------------------------
\* A Task Group that asks for no more than another
WeakerList(a, b) == a = {} \/ (b # {} /\ b \subseteq a)
WeakerRange(a, b) ==
  \/ a = None
  \/ /\ b # None
     /\ a.min # None => b.min # None /\ a.min <= b.min
     /\ a.max # None => b.max # None /\ a.max >= b.max
AsksLess(a, b) ==
  /\ \A p \in LISTS \cup MEMBERS : WeakerList(a[p], b[p])
  /\ \A p \in RANGES : WeakerRange(a[p], b[p])
  /\ a.taskTypes \subseteq b.taskTypes
  /\ a.instancePricing \in {b.instancePricing} \cup ({None, "SPOT_THEN_ON_DEMAND"})

Better(v) == CASE v = "NO" -> 0 [] v = "MAYBE" -> 1 [] v = "YES" -> 2

(* Whatever a pool does while the run lasts, a Task Group that asks for no   *)
(* more than another is given no worse an answer of it: none is compared     *)
(* with the pool as it became (docs/commands.md, 'yd workrequirement         *)
(* compare'; WorkerPools, "fetched once per run").                           *)
ComparedAlike ==
  \A i, j \in DOMAIN reports :
    LET a == reports[i]
        b == reports[j]
    IN  a.pool = b.pool /\ a.matches # None /\ b.matches # None
          /\ AsksLess(run.groups[a.group], run.groups[b.group])
        => Better(summary(a.matches)) >= Better(summary(b.matches))

(* A run that exits 0 compared each Task Group with each pool given, once,   *)
(* and one that did so but for the failures it exits with the code of still  *)
(* has a row for each of the others.                                         *)
AllCompared ==
  exit = OK \/ (exit # None /\ failures # <<>> /\ exit \notin SESSION_FAILURES)
  => /\ \A g \in DOMAIN run.groups, i \in DOMAIN run.pools :
          Cardinality({k \in DOMAIN reports :
                         reports[k].group = g /\ reports[k].pool = run.pools[i]}) = 1
     /\ (exit = OK) <=> \A k \in DOMAIN reports : reports[k].matches # None
     /\ exit \notin {OK, FAILURE} => \A k \in DOMAIN failures : failures[k] = exit
-----------------------------------------------------------------------------
(* Why it does. *)

\* Each pool given is fetched once, and before anything is compared
PoolsInv ==
  /\ run \in Runs /\ pools \in Seq(DOMAIN Pools)
  /\ \A k \in DOMAIN pools : \E i \in DOMAIN run.pools : pools[k] = run.pools[i]
  /\ \A j, k \in DOMAIN pools : pools[j] = pools[k] => j = k
  /\ Unasked # {} => reports = <<>> /\ failures = <<>>

\* The rows so far are those of the first comparisons, in their order
RowsInv ==
  /\ Len(reports) <= Len(pools) * Len(run.groups)
  /\ \A k \in DOMAIN reports :
       /\ reports[k].group = ((k - 1) \div Len(pools)) + 1
       /\ reports[k].pool = pools[((k - 1) % Len(pools)) + 1]

Compared(g, p) ==
  _check_worker_pool_for_match(run.groups[g], Pools[p], requirements[p],
                               _get_all_nodes_in_worker_pool(nodes[p]))

\* What was fetched of a pool is what it is compared by, for every Task Group
CachedInv ==
  /\ \A p \in DOMAIN Stages : stage[p] \in DOMAIN Stages[p]
  /\ \A p \in DOMAIN nodes : nodes[p] \in Seq(Node)
  /\ \A k \in DOMAIN reports : reports[k].matches # None =>
       /\ reports[k].pool \in DOMAIN requirements \cap DOMAIN nodes
       /\ reports[k].matches = Compared(reports[k].group, reports[k].pool)

\* What failed of its own is known by its row, and by its code once the run ends
FailuresInv ==
  /\ failures \in Seq((Codes \cup {FAILURE}) \ SESSION_FAILURES)
  /\ failures = <<>> <=> \A k \in DOMAIN reports : reports[k].matches # None
  /\ exit = None \/ exit \in SESSION_FAILURES \/ (exit # OK /\ failures = <<>>)
     \/ (Unasked = {} /\ Len(reports) = Len(pools) * Len(run.groups)
         /\ exit = IF failures = <<>> THEN OK ELSE SharedCause)

Rows ==
  [group : Nat, pool : DOMAIN Pools, matches : {None} \cup [PROPERTIES -> {"YES", "MAYBE", "NO"}]]

IInv == reports \in Seq(Rows) /\ PoolsInv /\ RowsInv /\ CachedInv /\ FailuresInv
=============================================================================
