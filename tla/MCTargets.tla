--------------------------------- MODULE MCTargets ----------------------------
(* Values for the constants of Targets. *)
EXTENDS Targets, TLC

\* Of CommandRun: command lines with a thing given twice, by its name and by a
\* pattern, and with none
Typed == [w1 |-> "wr", w2 |-> "wr", k |-> "task", p1 |-> "pool", p2 |-> "pool", n |-> "node"]
ByName(x) == [by |-> "name", of |-> x]
ById(x) == [by |-> "id", of |-> x]
Matching(x) == [by |-> "pattern", of |-> x]
Line(x, ts) == [command |-> x, targets |-> ts]
N(x) == ByName({x})
Lines ==
  {Line("cancel", <<N("k"), N("w1"), Matching({"w1", "w2"})>>),
   Line("cancel", <<Matching({"w1", "w2"})>>),
   Line("shutdown", <<N("n"), Matching({"p1", "p2"}), N("p1")>>), Line("shutdown", <<>>),
   Line("start", <<N("w1"), N("w2"), N("w1")>>),
   Line("hold", <<Matching({"w1"}), N("w2")>>), Line("finish", <<>>)}

\* Of ComputeActions: two Compute Requirements, of two Instances and of one, and
\* Worker Pools that own or only name one
OwnerOf == [i1 |-> "c1", i2 |-> "c1", j |-> "c2"]
RunningOn == [n1 |-> "i1", n2 |-> "configured"]
Actioned ==
  {<<>>, <<Matching("c1")>>, <<ById("i1"), ByName("c1"), ById("c1"), Matching("c2")>>,
   <<ById("j"), ById("i2"), ById("n1"), ById("i1")>>, <<ById("n2"), ById("c2"), ById("i1")>>}
Pool(n, m) == [named |-> n, manages |-> m]
PoolsThere ==
  {<<>>, <<Pool("none", "c2"), Pool("c1", "c1")>>, <<Pool("c2", "none"), Pool("none", "c2")>>}

\* Of Updates: fields of two things, and things given twice
Whose == [w |-> "w", g |-> "w", h |-> "w", v |-> "v", a |-> "a", b |-> "b"]
Updated ==
  {Line("priority", <<"g", "w", "g">>), Line("priority", <<"v", "h">>), Line("resize", <<"v">>),
   Line("resize pool", <<"a">>), Line("boost", <<"a", "b", "a">>), Line("token", <<"b", "a">>)}

\* Of Compare: Task Groups that ask for more and for less, of a pool that scales, one
\* of an unknown provider, and those that cannot be compared
Asks ==
  [instanceTypes |-> {}, providers |-> {}, regions |-> {}, namespaces |-> {}, workerTags |-> {},
   taskTypes |-> {}, ram |-> None, vcpus |-> None, instancePricing |-> None]
Source(ts, v, r, p) == [instanceTypes |-> ts, provider |-> v, region |-> r, pricing |-> p]
Node(r, ts, ram) == [running |-> r, details |-> [taskTypes |-> ts, ram |-> ram, vcpus |-> 2]]
New == [running |-> FALSE, details |-> None]
WorkerPool(k, n, t, ss) == [kind |-> k, namespace |-> n, tag |-> t, sources |-> ss]
ThePools ==
  [p |-> WorkerPool("provisioned", "n", "t",
           {Source({"a", "b"}, "AWS", "r", "SPOT_ONLY"), Source({"a"}, "AWS", None, "ON_DEMAND_ONLY")}),
   q |-> WorkerPool("provisioned", None, "u", {Source({}, None, "r", None)}),
   s |-> WorkerPool("provisioned", "n", None, None),
   c |-> WorkerPool("configured", "n", None, None), m |-> WorkerPool("missing", "n", None, None)]
TheStages ==
  [p |-> <<<<New>>, <<Node(FALSE, {"x"}, 4), New>>, <<Node(FALSE, {"x"}, 4), Node(TRUE, {"x", "y"}, 16)>>>>,
   q |-> <<<<Node(TRUE, {"x"}, None)>>, <<>>>>,
   s |-> <<<<>>>>, c |-> <<<<>>>>, m |-> <<<<>>>>]

Bounds(a, b) == [min |-> a, max |-> b]
OfNodes ==
  {[Asks EXCEPT !.taskTypes = t, !.ram = r] :
     t \in {{}, {"x"}, {"x", "y"}}, r \in {None, Bounds(2, None), Bounds(None, 8)}}
OfSources ==
  {[Asks EXCEPT !.instanceTypes = {"a", "b"}, !.providers = {"AWS"}, !.regions = l,
                !.workerTags = w, !.instancePricing = i] :
     l \in {{}, {"r"}, {"s"}}, w \in {{}, {"t"}}, i \in {None, "SPOT_ONLY"}}
OfItself == [Asks EXCEPT !.namespaces = {"n", "o"}, !.vcpus = Bounds(2, 2)]
Run(ps, gs, r) == [pools |-> ps, groups |-> gs, running |-> r]
TheRuns ==
  {Run(<<"p">>, <<g, h>>, r) : r \in BOOLEAN, g \in OfNodes, h \in OfNodes}
  \cup {Run(<<p>>, <<g, Asks>>, FALSE) : p \in {"p", "q"}, g \in OfSources}
  \cup {Run(ps, <<OfItself, OfItself>>, FALSE) :
          ps \in {<<"p", "q", "p">>, <<"s", "p">>, <<"p", "c">>, <<"m", "p">>}}
  \cup {Run(<<"p">>, <<>>, FALSE)}

ASSUME Cmd!Parameters /\ Compute!Parameters /\ Update!Parameters /\ Cmp!Parameters
-----------------------------------------------------------------------------
\* docs/json-output.md: an action command records every target, those of Compute
\* Requirements that a Worker Pool is in charge of among them.
EveryTargetRecorded == chosen = "compute" => Compute!EveryTargetRecorded
=============================================================================
