-------------------------------- MODULE MCProcesses ---------------------------
(* Values for the constants of Processes. *)
EXTENDS Processes

\* Of Lazy: the command line, the configuration that it selects, and the client
\* that is made of the configuration
NeedsOf == [args |-> {}, config |-> {"args"}, client |-> {"config", "args"}]

\* Of Capacity: two Instances in the states that they may be in when an action is
\* asked of their Compute Requirement, whatever its target: both running, one of them
\* gone or yet to be provisioned, and one stopped or both
Both(s, t) == [i |-> s, j |-> t]
EveryKind ==
  [kind \in {"stop", "start", "restart", "deprovision", "reprovision", "terminate", "resize", "pool"} |->
     CASE kind = "start" -> {Both("stopped", "stopped"), Both("stopped", "running")}
       [] kind = "reprovision" -> {Both("running", "off"), Both("stopped", "off")}
       [] OTHER -> {Both("running", "running"), Both("running", "off"), Both("running", "stopped")}]

\* Of AddTo: an empty Task Group, whole ones, and two with a gap, all numbered in
\* one digit
Numbers(s) == {[number |-> n, width |-> 1] : n \in s}
OneDigit == {Numbers({}), Numbers(1 .. 2), Numbers(1 .. 4), Numbers({1, 4}), Numbers({2, 3})}

\* Of ActionRun: four targets, two of which name one thing, and two of the three
\* things acted on in one unit
Three == 11 .. 13
Named == <<11, 12, 11, 13>>
Together == [x \in Three |-> IF x = 13 THEN "second" ELSE "first"]

\* Of AbortRun: a Work Requirement, Tasks by their IDs, and a Task Group, with a
\* Task in two of them or in three
ParentOf(p, ts) == [parent |-> p, tasks |-> ts]
Overlapping == <<ParentOf("wr", {"t1", "t2"}), ParentOf(None, {"t2", "t3"}), ParentOf("tg", {"t2", "t3"})>>

\* Of InputFiles: one run names a file twice, and another sends two files to one place
To(l, p) == [local |-> l, path |-> p]
TwoRuns ==
  [r1 |-> <<To("a", "x"), To("b", "y"), To("a", "x")>>,
   r2 |-> <<To("a", "x"), To("a", "z"), To("b", "z")>>]

\* Of NodeActions: what '--node' may give
GivenOnce == {<<>>, <<"n1">>, <<"n2", "n1", "n2">>}

\* Of Provision: node counts that a configuration may set and a specification have,
\* with those that contradict one another
Counts(t, n, x) == [target |-> t, min |-> n, max |-> x]
OfConfiguration ==
  {Counts(None, None, None), Counts(3, None, None), Counts(4, 1, None), Counts(0, 2, 5),
   Counts(2, None, 7), Counts(5, 0, 3), Counts(-2, -1, None)}
OfSpecification ==
  {Counts(None, None, None), Counts(2, None, 4), Counts(None, 3, None), Counts(4, 2, 3),
   Counts(1, -1, 0)}
OfOption == {None, 0, 6}

ASSUME
  /\ Laz!Parameters /\ Mcp!Parameters /\ Wait!Parameters
  /\ Add!Parameters /\ Follow!Parameters /\ Stream!Parameters /\ Window!Parameters
  /\ Action!Parameters /\ Abort!Parameters /\ Inputs!Parameters
  /\ Node!Parameters /\ Prov!Parameters
=============================================================================
