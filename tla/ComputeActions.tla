--------------------------- MODULE ComputeActions ---------------------------
(***************************************************************************)
(* utils/compute_action_common.py: stopping, starting, restarting,         *)
(* terminating, deprovisioning and reprovisioning Compute Requirements and *)
(* Instances, and setting when Compute Requirements are terminated.        *)
(*                                                                         *)
(* Instances are named by their own IDs or by the Nodes that run on them,  *)
(* Compute Requirements by names or IDs.  A Compute Requirement takes one  *)
(* request, and so do all its Instances together; where a Worker Pool      *)
(* manages a Compute Requirement some actions are refused, and the pool is *)
(* looked for among a bounded number of those that there are.              *)
(***************************************************************************)
EXTENDS Integers, Sequences, FiniteSets, SequencesExt, Arranging

CONSTANTS
  CRs, Instances, Nodes,
  CrOf,              \* the Compute Requirement of each Instance
  RunsOn,            \* the Instance a Node runs on, or why none can be told
  Actions,
  Targets,           \* the lists of targets: [by, of]
  Pools,             \* the Worker Pools that there are, in the order listed:
                     \* [named, manages], two Compute Requirements or "none"
  AUTO_SHUTDOWN_POOLS_CHECKED,
  Statuses,          \* of things at the start
  Codes

SUCCESS == 0
FAILURE == 1
NOT_FOUND == 6
SESSION_FAILURES == {4, 8}
Unset == -1

Things == CRs \cup Instances

Target == [by : {"id", "name", "pattern"}, of : Things \cup Nodes]
Listed == [named : CRs \cup {"none"}, manages : CRs \cup {"none"}]

\* As many Worker Pools are checked as have the name of one Compute Requirement
Parameters ==
  /\ IsFiniteSet(CRs) /\ IsFiniteSet(Instances) /\ CRs \cap Instances = {}
  /\ CrOf \in [Instances -> CRs]
  /\ \A n \in Nodes : RunsOn[n] \in Instances \cup {"configured", "unreported"}
  /\ Targets \subseteq Seq(Target) /\ Pools \subseteq Seq(Listed) /\ <<>> \in Pools
  /\ AUTO_SHUTDOWN_POOLS_CHECKED \in Nat
  /\ \A p \in Pools, c \in CRs :
       Cardinality({k \in DOMAIN p : p[k].named = c}) <= AUTO_SHUTDOWN_POOLS_CHECKED
  /\ Statuses \subseteq {"RUNNING", "STOPPED", "TERMINATED"}
  /\ Codes \subseteq {1, 4, 5, 6, 7, 8}

VARIABLES
  action, targets,   \* the command line
  pools,
  pc,
  left,              \* targets still to be expanded or resolved
  expanded,
  items,             \* the things to act on, or still to be ruled on
  ruled,             \* those the Worker Pool rule has kept
  unlooked,          \* and those whose Worker Pool could not be looked for
  units,             \* a sequence of sets of things: one request each
  records,           \* records[x]: the outcomes recorded of a thing or a target
  causes, failures,  \* the failures' codes, and how many records are of failures
  done,              \* the units done
  follow,            \* '--follow', and then [of, until]
  exit,
  status,            \* external: each thing's
  requests           \* for the properties: the requests carried out, in order

vars == <<action, targets, pools, pc, left, expanded, items, ruled, unlooked, units, records,
          causes, failures, done, follow, exit, status, requests>>
line == <<action, targets, pools>>
finding == <<left, expanded>>
rule == <<ruled, unlooked>>
acting == <<units, done, follow, requests>>
told == <<records, causes, failures>>

CrActions == {"stop", "start", "terminate", "reprovision", "autoshutdown"}
InstanceActions == {"stop", "start", "restart", "terminate", "deprovision"}

ValidStatuses ==
  CASE action \in {"stop", "restart", "reprovision"} -> {"RUNNING"}
    [] action = "start" -> {"STOPPED"}
    [] OTHER -> {"RUNNING", "STOPPED"}

Valid(x) == status[x] \in ValidStatuses
-----------------------------------------------------------------------------
Goes(to) == pc' = to /\ UNCHANGED exit
Ends(code) == pc' = "exit" /\ exit' = code
Tells(xs, outcome) ==
  /\ records' = [x \in DOMAIN records |->
                   IF x \in xs THEN Append(records[x], outcome) ELSE records[x]]
  /\ failures' = failures + (IF outcome = "failed" THEN Cardinality(xs) ELSE 0)
Cause(code, n) == causes' = causes \o [k \in 1 .. n |-> code]

Init ==
  /\ action \in Actions /\ targets \in Targets /\ pools \in Pools
  /\ action \in {"restart", "deprovision"} =>
       targets # <<>> /\ \A k \in DOMAIN targets : targets[k].by # "pattern"
  /\ pc = "expand" /\ left = targets /\ expanded = <<>>
  /\ items = <<>> /\ ruled = <<>> /\ unlooked = {} /\ units = <<>>
  /\ records = [x \in Things \cup Nodes \cup {"pattern"} |-> <<>>]
  /\ causes = <<>> /\ failures = 0 /\ done = <<>>
  /\ \E follows \in BOOLEAN : follow = [asked |-> follows, of |-> <<>>, until |-> "unset"]
  /\ exit = Unset
  /\ status \in [Things -> Statuses]
  /\ action # "autoshutdown" => pools = <<>>      \* not looked for
  /\ \A i \in Instances : status[CrOf[i]] = "TERMINATED" => status[i] = "TERMINATED"
  /\ requests = <<>>

\* apply_compute_action(): without a target that is no pattern, a listing
Listing == \A k \in DOMAIN targets : targets[k].by = "pattern"

\* Those listed, less any that are not selected
List ==
  /\ pc = "expand" /\ Listing
  /\ \E chosen \in SUBSET {c \in CRs : Valid(c)} :
       /\ targets # <<>> => \A c \in chosen : \E k \in DOMAIN targets : targets[k].of = c
       /\ items' = SetToSeq(chosen)
  /\ Goes("rule")
  /\ UNCHANGED <<line, finding, rule, acting, told, status>>

\* expand_patterns(): a pattern here is one that can match one thing
Expand ==
  /\ pc = "expand" /\ ~Listing /\ left # <<>>
  /\ LET t == Head(left) IN
       \/ /\ t.by = "pattern" => t.of \in CRs
          /\ expanded' = IF t.by # "pattern" THEN Append(expanded, t)
                         ELSE IF Valid(t.of) THEN Append(expanded, [t EXCEPT !.by = "id"])
                         ELSE expanded
          /\ UNCHANGED told
       \/ /\ t.by = "pattern"
          /\ Tells({"pattern"}, "failed") /\ Cause(FAILURE, 1)
          /\ UNCHANGED expanded
  /\ left' = Tail(left)
  /\ UNCHANGED <<line, pc, items, rule, acting, exit, status>>

Once(s) == Picked(s, Firsts(s))

Expanded ==
  /\ pc = "expand" /\ ~Listing /\ left = <<>>
  /\ left' = Once(expanded)
  /\ Goes("resolve")
  /\ UNCHANGED <<line, expanded, items, rule, acting, told, status>>
-----------------------------------------------------------------------------
(* _resolve_target(): what each target is. *)

Resolving == pc = "resolve" /\ left # <<>>
Of == Head(left).of
Next1 == left' = Tail(left) /\ UNCHANGED <<line, pc, expanded, rule, acting, exit, status>>

Adds(x) == items' = IF x \in ToSet(items) THEN items ELSE Append(items, x)

Skips(x) == Tells({x}, "skipped") /\ UNCHANGED <<items, causes>>
Unresolved(x, code) == Tells({x}, "failed") /\ Cause(code, 1) /\ UNCHANGED items

\* The action is of another kind of thing
WrongKind ==
  /\ Resolving
  /\ (Of \in CRs /\ action \notin CrActions) \/ (Of \notin CRs /\ action \notin InstanceActions)
  /\ Unresolved(Of, FAILURE)
  /\ Next1

ResolveCR ==
  /\ Resolving /\ Of \in CRs /\ action \in CrActions
  /\ IF Valid(Of) THEN Adds(Of) /\ UNCHANGED told ELSE Skips(Of)
  /\ Next1

\* _resolve_instance()
FindInstance(i) == IF Valid(i) THEN Adds(i) /\ UNCHANGED told ELSE Skips(Of)

ResolveInstance ==
  /\ Resolving /\ Of \in Instances /\ action \in InstanceActions
  /\ FindInstance(Of)
  /\ Next1

\* _resolve_node()
ResolveNode ==
  /\ Resolving /\ Of \in Nodes /\ action \in InstanceActions
  /\ \/ /\ RunsOn[Of] \in Instances
        /\ FindInstance(RunsOn[Of])
     \/ /\ RunsOn[Of] \notin Instances
        /\ Unresolved(Of, FAILURE)
     \/ Skips(Of)         \* already terminated
  /\ Next1

\* _plan(): Compute Requirements, then Instances by Compute Requirement
InstancesOf(c, s) == {x \in ToSet(s) \cap Instances : CrOf[x] = c}
OwnersOf(s) == LET of == Picked(s, {k \in DOMAIN s : s[k] \in Instances})
               IN Once([k \in DOMAIN of |-> CrOf[of[k]]])
Plan(s) ==
  Arranged(s, DOMAIN s, [k \in DOMAIN s |->
    IF s[k] \in CRs THEN 0 ELSE CHOOSE n \in DOMAIN OwnersOf(s) : OwnersOf(s)[n] = CrOf[s[k]]])

\* Not found, ambiguous, or not to be fetched
ResolveFails(code) ==
  /\ Resolving
  /\ \/ (Of \in CRs /\ action \in CrActions) \/ (Of \notin CRs /\ action \in InstanceActions)
  /\ IF code \in SESSION_FAILURES
     THEN /\ records' = [x \in DOMAIN records |->
                records[x] \o (IF x = Of THEN <<"failed">> ELSE <<>>)
                  \o (IF x \in ToSet(items) THEN <<"skipped">> ELSE <<>>)
                  \o [k \in 1 .. Cardinality({j \in DOMAIN Tail(left) : Tail(left)[j].of = x})
                        |-> "skipped"]]
          /\ failures' = failures + 1 /\ Cause(code, 1)
          /\ Ends(code)
          /\ UNCHANGED <<left, items>>
     ELSE /\ Unresolved(Of, code)
          /\ left' = Tail(left) /\ UNCHANGED <<pc, exit>>
  /\ UNCHANGED <<line, expanded, rule, acting, status>>

Resolved ==
  /\ pc = "resolve" /\ left = <<>>
  /\ items' = Plan(items)
  /\ Goes("rule")
  /\ UNCHANGED <<line, finding, rule, acting, told, status>>
-----------------------------------------------------------------------------
(* _worker_pool_rule(). *)

Ruling == pc = "rule" /\ action = "autoshutdown" /\ items # <<>>

Few(s) == SubSeq(s, 1, IF Len(s) < AUTO_SHUTDOWN_POOLS_CHECKED THEN Len(s)
                         ELSE AUTO_SHUTDOWN_POOLS_CHECKED)

\* Mutant: the Worker Pools checked are the first listed.
Checked_AsListed(c) == Few(pools)

\* owning_worker_pool() fetches one named as the Compute Requirement first
Checked(c) ==
  Few(Arranged(pools, DOMAIN pools,
               [k \in DOMAIN pools |-> IF pools[k].named = c THEN 0 ELSE 1]))

Manages(c) == \E k \in DOMAIN Checked(c) : Checked(c)[k].manages = c

Rule ==
  /\ Ruling
  /\ LET c == Head(items) IN
       IF Manages(c)
       THEN Tells({c}, "failed") /\ UNCHANGED <<causes, ruled>>
       ELSE ruled' = Append(ruled, c) /\ UNCHANGED told
  /\ items' = Tail(items)
  /\ UNCHANGED <<line, finding, pc, unlooked, acting, exit, status>>

\* A failure to look does not refuse it; one of the session is the run's
RuleFails(code) ==
  /\ Ruling
  /\ IF code \in SESSION_FAILURES
     THEN Ends(code) /\ UNCHANGED <<items, rule>>
     ELSE /\ ruled' = Append(ruled, Head(items))
          /\ unlooked' = unlooked \cup {Head(items)}
          /\ items' = Tail(items)
          /\ Goes(pc)
  /\ UNCHANGED <<line, finding, acting, told, status>>

Ruled ==
  /\ pc = "rule"
  /\ IF action = "autoshutdown" THEN items = <<>> /\ items' = ruled ELSE items' = items
  /\ Goes(IF items' = <<>> THEN "return" ELSE "confirm")
  /\ UNCHANGED <<line, finding, rule, acting, told, status>>

\* Mutant: an Instance has a request of its own.
Units_OneEach(s) == [k \in DOMAIN s |-> {s[k]}]

\* _carry_out(): one for each Compute Requirement, and for the Instances of one
Units(s) ==
  LET crs == Picked(s, {k \in DOMAIN s : s[k] \in CRs})
      owners == OwnersOf(s)
  IN [k \in DOMAIN crs |-> {crs[k]}] \o [k \in DOMAIN owners |-> InstancesOf(owners[k], s)]

Confirm ==
  /\ pc = "confirm"
  /\ \/ units' = Units(items) /\ Goes("act") /\ UNCHANGED told
     \/ Tells(ToSet(items), "skipped") /\ Goes("return") /\ UNCHANGED <<units, causes>>
  /\ UNCHANGED <<line, finding, items, rule, done, follow, requests, status>>
-----------------------------------------------------------------------------
(* carry_out(), a unit at a time. *)

Acting == pc = "act" /\ units # <<>>
Unit == Head(units)

NewStatus == CASE action = "stop" -> "STOPPED" [] action = "start" -> "RUNNING"
               [] action \in {"terminate", "deprovision"} -> "TERMINATED"
               [] OTHER -> "same"

\* External: what the Platform then does
Changes(xs) ==
  status' = [x \in Things |->
    IF NewStatus # "same" /\ (x \in xs \/ (x \in Instances /\ CrOf[x] \in xs /\ status[x] # "TERMINATED"))
    THEN NewStatus ELSE status[x]]

CarriedOut == requests' = Append(requests, Unit) /\ Changes(Unit)

Act ==
  /\ Acting
  /\ CarriedOut
  /\ Tells(Unit, "done")
  /\ done' = Append(done, Unit)
  /\ units' = Tail(units)
  /\ UNCHANGED <<line, pc, finding, items, rule, causes, follow, exit>>

\* It is refused, or its answer is lost, whether or not it was carried out
ActFails(code) ==
  /\ Acting
  /\ CarriedOut \/ UNCHANGED <<requests, status>>
  /\ Cause(code, Cardinality(Unit))
  /\ failures' = failures + Cardinality(Unit)
  /\ records' = [x \in DOMAIN records |->
       IF x \in Unit THEN Append(records[x], "failed")
       ELSE IF code \in SESSION_FAILURES /\ \E k \in DOMAIN Tail(units) : x \in Tail(units)[k]
       THEN Append(records[x], "skipped") ELSE records[x]]
  /\ units' = Tail(units)
  /\ IF code \in SESSION_FAILURES THEN Ends(code) ELSE Goes(pc)
  /\ UNCHANGED <<line, finding, items, rule, done, follow>>

Owner(x) == IF x \in CRs THEN x ELSE CrOf[x]

\* When what is followed has no end of its own
Until(ofInstances) ==
  CASE action = "terminate" -> IF ofInstances THEN "quiet" ELSE "end"
    [] action = "stop" -> "stopped"
    [] action = "restart" -> "settled again"
    [] OTHER -> "settled"

\* Mutant: what was done first says how the following ends.
After_First ==
  /\ pc = "act" /\ units = <<>>
  /\ follow' = IF done # <<>> /\ follow.asked
       THEN [follow EXCEPT
              !.of = Once([k \in DOMAIN done |-> Owner(CHOOSE x \in done[k] : TRUE)]),
              !.until = Until(done[1] \subseteq Instances)]
       ELSE follow
  /\ Goes("return")
  /\ UNCHANGED <<line, finding, items, rule, units, done, requests, told, status>>

\* _after(): the Compute Requirements acted on, or with Instances that were
After ==
  /\ pc = "act" /\ units = <<>>
  /\ follow' = IF done # <<>> /\ follow.asked
       THEN [follow EXCEPT
              !.of = Once([k \in DOMAIN done |-> Owner(CHOOSE x \in done[k] : TRUE)]),
              !.until = Until(\E k \in DOMAIN done : done[k] \subseteq Instances)]
       ELSE follow
  /\ Goes("return")
  /\ UNCHANGED <<line, finding, items, rule, units, done, requests, told, status>>

\* failure_exit_code(), which a failure recorded without its cause makes 1
Return ==
  /\ pc = "return"
  /\ Ends(IF failures = 0 THEN SUCCESS
          ELSE IF failures = Len(causes) /\ \A k \in DOMAIN causes : causes[k] = causes[1]
          THEN causes[1] ELSE FAILURE)
  /\ UNCHANGED <<line, finding, items, rule, acting, told, status>>

Next ==
  \/ List \/ Expand \/ Expanded
  \/ WrongKind \/ ResolveCR \/ ResolveInstance \/ ResolveNode \/ Resolved
  \/ Rule \/ Ruled \/ Confirm \/ Act \/ After \/ Return
  \/ \E code \in Codes : ResolveFails(code) \/ RuleFails(code) \/ ActFails(code)

Spec == Init /\ [][Next]_vars
-----------------------------------------------------------------------------
(* What it is meant to ensure. *)

Asked(x) == {k \in DOMAIN requests : x \in requests[k]}
Recorded(x, outcome) == {k \in DOMAIN records[x] : records[x][k] = outcome}

\* A Compute Requirement takes one request and its Instances one between them,
\* however often and in whichever way they are named; what is recorded as done is
\* what was, and what was is recorded so, or as failed where its answer did not come;
\* and a run that exits with 0 recorded no failure.
OneRequestEach ==
  /\ \A x \in Things :
       /\ Cardinality(Asked(x)) <= 1
       /\ Cardinality(Recorded(x, "done")) <= Cardinality(Asked(x))
       /\ Asked(x) # {} => Recorded(x, "done") \cup Recorded(x, "failed") # {}
  /\ \A i, j \in Instances : CrOf[i] = CrOf[j] /\ Asked(i) # {} /\ Asked(j) # {} => Asked(i) = Asked(j)
  /\ exit = SUCCESS => \A x \in DOMAIN records : Recorded(x, "failed") = {}

\* A following ends: one that is followed to the end of its stream is of a Compute
\* Requirement that was itself terminated, not only Instances of it; and what is
\* followed is what was acted on, each once.
FollowedToAnEnd ==
  /\ follow.until = "end" => \A k \in DOMAIN follow.of : Asked(follow.of[k]) # {}
  /\ follow.of # <<>> => ToSet(follow.of) = UNION {{Owner(x) : x \in u} : u \in ToSet(done)}
                         /\ Len(follow.of) = Cardinality(ToSet(follow.of))

\* An auto shutdown is not set on the Compute Requirement of the Worker Pool of its
\* name, which would reset it, unless the pool could not be looked for.
PoolsOwnLeft ==
  action = "autoshutdown" =>
    \A c \in CRs, k \in DOMAIN pools :
      pools[k].named = c /\ pools[k].manages = c /\ Asked(c) # {} => c \in unlooked

\* docs/json-output.md: an action command records every target; those not attempted
\* after a failure of the session are recorded as skipped.
EveryTargetRecorded ==
  exit # Unset => \A x \in ToSet(items) \cup ToSet(ruled) : records[x] # <<>>
-----------------------------------------------------------------------------
(* Why it does. *)

Outcomes == {"done", "skipped", "failed"}
Distinct(s) == \A i, j \in DOMAIN s : s[i] = s[j] => i = j
Before == {"expand", "resolve", "rule", "confirm"}

\* What is found, each once
ItemsInv ==
  /\ pc \in Before \cup {"act", "return", "exit"}
  /\ left \in Seq(Target) /\ expanded \in Seq(Target)
  /\ items \in Seq(Things) /\ ruled \in Seq(Things)
  /\ Distinct(items)
  /\ pc \in {"expand", "resolve"} => ruled = <<>>
  /\ pc = "rule" /\ action = "autoshutdown" =>
       Distinct(ruled) /\ ToSet(ruled) \cap ToSet(items) = {}

\* Things that one request is of: Instances of one Compute Requirement
Together(x, y) == x = y \/ (x \in Instances /\ y \in Instances /\ CrOf[x] = CrOf[y])
Requested == ToSet(units) \cup ToSet(requests)

\* What is together is in one request, which is made once
UnitsInv ==
  /\ units \in Seq(SUBSET Things) /\ requests \in Seq(SUBSET Things)
  /\ done \in Seq(SUBSET Things) /\ ToSet(done) \subseteq ToSet(requests)
  /\ pc \in Before => units = <<>> /\ requests = <<>>
  /\ \A u \in Requested : u # {}
  /\ \A u, v \in Requested : \A x \in u, y \in v : Together(x, y) <=> u = v
  /\ Distinct(units) /\ Distinct(requests) /\ ToSet(units) \cap ToSet(requests) = {}

\* A thing is recorded as done once, when it is, and as done or failed when asked
RecordsInv ==
  /\ records \in [Things \cup Nodes \cup {"pattern"} -> Seq(Outcomes)]
  /\ failures \in Nat /\ causes \in Seq(Codes \cup {FAILURE})
  /\ failures = 0 => \A x \in DOMAIN records : Recorded(x, "failed") = {}
  /\ \A x \in Things :
       /\ Recorded(x, "done") # {} <=> \E u \in ToSet(done) : x \in u
       /\ \A i, j \in Recorded(x, "done") : i = j
       /\ \A u \in ToSet(requests) :
            x \in u => Recorded(x, "done") # {} \/ Recorded(x, "failed") # {}

\* No other is asked than those that the rule has kept
RuleInv ==
  /\ pools \in Pools
  /\ action = "autoshutdown" =>
       /\ \A c \in ToSet(ruled) : c \in unlooked \/ ~Manages(c)
       /\ pc = "confirm" => ToSet(items) \subseteq ToSet(ruled)
       /\ \A u \in Requested : u \subseteq ToSet(ruled)

Untils == {"unset", "quiet", "end", "stopped", "settled again", "settled"}

\* What is followed is what was done
FollowInv ==
  /\ follow \in [asked : BOOLEAN, of : Seq(CRs), until : Untils]
  /\ pc \notin {"return", "exit"} => follow.of = <<>> /\ follow.until = "unset"
  /\ FollowedToAnEnd

EndsInv ==
  /\ exit # Unset <=> pc = "exit"
  /\ exit = SUCCESS => failures = 0

IInv == ItemsInv /\ UnitsInv /\ RecordsInv /\ RuleInv /\ FollowInv /\ EndsInv
=============================================================================
