------------------------------- MODULE MCReading -------------------------------
(***************************************************************************)
(* Values for the constants of the components that read what is written    *)
(* and what is there: Names, Variables, Settings, Doctor, Completion and   *)
(* Tasks.                                                                  *)
(***************************************************************************)
EXTENDS Integers, Sequences, FiniteSets, TLC

CONSTANT None
-----------------------------------------------------------------------------
(* Of Names: things of two Namespaces whose names are one another's Namespaces. *)
WorkOf(ns, name, made) == [ns |-> ns, name |-> name, made |-> made]
MadeAs == [w1 |-> WorkOf("a", "b", 1), w2 |-> WorkOf("a", "b", 2), w3 |-> WorkOf("b", "a", 1),
           w4 |-> WorkOf("a", "a", 3)]
Within == [g |-> [work |-> "w1", name |-> "a"], h |-> [work |-> "w2", name |-> "a"],
           i |-> [work |-> "w4", name |-> "b"]]
Family(ns, name, groups) == [ns |-> ns, name |-> name, groups |-> groups]
Images == [f |-> Family("a", "b", {"a"}), k |-> Family("b", "a", {"b"}),
           l |-> Family("b", "b", {"a"})]
Query(t, l, ts) == [type |-> t, liveOnly |-> l, targets |-> ts]
Queries ==
  {Query(t, FALSE, <<<<"b">>, <<"b", "a">>, <<"a", "b", "a">>>>) : t \in {"work", "either", "act"}}
  \cup {Query("work", l, <<<<"b">>, <<"*">>>>) : l \in BOOLEAN}
  \cup {Query("group", l, <<<<"b", "a">>, <<"a", "b">>, <<"b", "*">>>>) : l \in BOOLEAN}
  \cup {Query("act", FALSE, <<<<"b", "*">>, <<"a", "b", "*">>>>)}
  \cup {Query("image", FALSE, <<t>>) :
          t \in {<<"a">>, <<"b">>, <<"a", "b">>, <<"b", "a">>, <<"b", "b", "a">>, <<"a", "b", "b">>}}
-----------------------------------------------------------------------------
(* Of Variables: definitions that refer to one another in chains and circles, with *)
(* defaults, '::' and computed names, and those that another place for definitions *)
(* replaces.                                                                       *)
Text(t) == <<[kind |-> "text", text |-> t]>>
Ref(name) == [kind |-> "ref", name |-> name, mode |-> "plain", default |-> <<>>]
RefOr(name, default) == [Ref(name) EXCEPT !.mode = "default", !.default = default]
RefUnset(name) == [Ref(name) EXCEPT !.mode = "unset"]
Raw(v) == [kind |-> "raw", of |-> v]
R(s) == Ref(Text(s))
D(n, v) == <<<<n>>, v>>

OfA == {Text("x"), <<R("b"), R("c")>>, <<RefOr(Text("b"), <<R("i")>>)>>,
        <<Ref(Text("k") \o <<R("k")>>)>>, <<Raw(Text("b")), RefOr(Text("u"), <<R("c")>>)>>,
        <<RefUnset(<<RefUnset(Text("c"))>>)>>}
OfB == {<<R("c")>>, <<RefOr(Text("c"), Text("d"))>>, <<RefUnset(Text(""))>>}
OfC == {Text("z"), <<RefUnset(Text("u"))>>, Text("v") \o <<R("wr")>>}
Circles ==
  {<<D("a", <<R("c")>>), D("b", <<R("a"), R("i")>>)>>,
   <<D("a", <<R("b")>>), D("b", <<R("c")>>), D("c", <<R("a")>>)>>,
   <<D("a", Text("y") \o <<R("a")>>), D("c", Text("x"))>>,
   <<D("a", Text("x")), D("b", <<RefUnset(Text("u")), R("b")>>)>>}
TwoOrders(v, w, x) ==
  {<<D("a", v), D("b", w), D("c", x), D("k", Text("0"))>>,
   <<D("c", x), D("b", w), D("a", v), <<<<"k", "0">>, Text("9")>>>>}
Files == UNION {TwoOrders(v, w, x) : v \in OfA, w \in OfB, x \in OfC} \cup Circles
Imports == {<<>>, <<D("c", Text("i")), D("a", Text("j")), D("i", <<R("c")>>)>>}
Elsewhere(f, e, l, i) ==
  [environment |-> e, commandLine |-> l, file |-> f, imported |-> i, selected |-> TRUE,
   tag |-> <<R("a")>>, named |-> Text("w"),
   specification |->
     <<<<R("a")>>, <<R("b")>> \o Text("-") \o <<R("c")>>, <<RefOr(Text("a"), <<R("u")>>)>>,
       <<RefUnset(Text("c"))>>, <<R("wr")>>, <<R("tag"), R("u")>>>>]
Written ==
  {Elsewhere(f, e, l, <<>>) :
     f \in Files, e \in {<<>>, <<D("c", Text("e"))>>}, l \in {<<>>, <<D("b", Text("l"))>>}}
  \cup {[Elsewhere(f, <<>>, <<>>, i) EXCEPT !.selected = s] : f \in Files, i \in Imports, s \in BOOLEAN}

TheDefaults == << <<<<"a">>, Text("0")>> >>
-----------------------------------------------------------------------------
(* Of Settings: each place that may hold a value of a setting, and the options that *)
(* choose among them.                                                               *)
Or(v) == {"absent", v}
OfCommon ==
  [option : Or("option"), property : {"absent", "null", "property"}, own : Or("own"),
   imported : Or("imported"), environment : Or("environment"), dotenv : Or("dotenv")]
OfField ==
  {f \in [option : Or("option"), property : {"absent", "null", "property"},
          profileProperty : {"absent", "null", "profile property"}, own : Or("own"),
          hasProfile : BOOLEAN, profile : Or("profile"), environment : Or("environment"),
          dotenv : {"absent"}, select : {"none", "profile"}, destination : BOOLEAN,
          default : Or("default"), noPrefix : BOOLEAN] :
     /\ f.profile # "absent" => f.hasProfile
     /\ f.noPrefix => f.default = "default"}
OneSetting ==
  [option |-> "absent", property |-> "absent", own |-> "own", imported |-> "imported",
   environment |-> "absent", dotenv |-> "absent"]
OneField ==
  [option |-> "absent", property |-> "absent", profileProperty |-> "absent", own |-> "own",
   hasProfile |-> TRUE, profile |-> "profile", environment |-> "environment", dotenv |-> "absent",
   select |-> "profile", destination |-> FALSE, default |-> "default", noPrefix |-> FALSE]
Configured ==
  {l \in [command : {"other", "data"}, chosen : BOOLEAN, file : BOOLEAN, envOverride : BOOLEAN,
          setting : OfCommon, field : {OneField}]
         \cup [command : {"copy"}, chosen : BOOLEAN, file : BOOLEAN, envOverride : {FALSE},
               setting : {OneSetting}, field : OfField] : l.chosen => l.file}
-----------------------------------------------------------------------------
(* Of Doctor: a machine that is well, those with one thing amiss, and with another *)
(* when PAC is used.                                                               *)
Machine ==
  [sdk : BOOLEAN, rclone : BOOLEAN, config : {"loads", "exits"}, key : BOOLEAN, use_pac : BOOLEAN,
   profiles : {<<>>, <<"[dataClient]", "p">>}, client : {"none", "ill", "there"},
   platform : {"up", "silent", "in trouble", "refusing"}]
Well ==
  [sdk |-> TRUE, rclone |-> TRUE, config |-> "loads", key |-> TRUE, use_pac |-> FALSE,
   profiles |-> <<"[dataClient]", "p">>, client |-> "there", platform |-> "up"]
Amiss(m) == {f \in DOMAIN m : m[f] # Well[f]}
Machines == {m \in Machine : Cardinality(Amiss(m)) <= IF m.use_pac THEN 2 ELSE 1}
-----------------------------------------------------------------------------
(* Of Completion: names that two namespaces share, a Work Requirement of a          *)
(* namespace's name, and lookups alike but for what they ask for.                   *)
Thing(id, kind, name, ns, tag, of, made) ==
  [id |-> id, kind |-> kind, name |-> name, ns |-> ns, tag |-> tag, of |-> of,
   configured |-> kind = "WorkerPool", made |-> made]

Things ==
  {Thing("w1", "WorkRequirement", "a", "n", "t", None, 1),
   Thing("w2", "WorkRequirement", "x", "a", "u", None, 2),
   Thing("w3", "WorkRequirement", "b", "n", "t", None, 3),
   Thing("g1", "TaskGroup", "g", None, "", "w1", 4),
   Thing("k1", "Task", "k", None, "", "g1", 5),
   Thing("c1", "ComputeRequirement", "c", "n", "t", None, 6),
   Thing("i1", "Instance", "", None, "", "c1", 7),
   Thing("p1", "WorkerPool", "p", "n", "t", None, 8),
   Thing("d1", "Node", "", None, "", "p1", 9),
   Thing("y1", "Keyring", "y", None, "", None, 10),
   Thing("z1", "Credential", "z", None, "", "y1", 11)}

Up(is) == [i \in is |-> "RUNNING"]
\* All of it running; and a Work Requirement held, with a finished Task, an Instance
\* stopped and a Node terminated, and some of it gone
There ==
  {Up({e.id : e \in Things}),
   ("w1" :> "HELD") @@ ("k1" :> "OVER") @@ ("i1" :> "STOPPED") @@ ("d1" :> "OVER")
     @@ Up({"w2", "g1", "c1", "p1", "y1"})}

All == {"RUNNING", "HELD", "STOPPED", "OVER"}
Lookup(kind, statuses) ==
  [kind |-> kind, ids |-> kind \in {"Instance", "Node"}, statuses |-> statuses, configured |-> FALSE,
   tagged |-> statuses # All, groups |-> FALSE, tasks |-> FALSE, taskStatuses |-> {"RUNNING"}, parents |-> {"RUNNING"}]
Asked(lookup, before, typed) ==
  [lookup |-> lookup, before |-> before, typed |-> typed, namespace |-> "n", tag |-> "t", scope |-> None,
   given |-> {}, loads |-> TRUE]
Work == Lookup("WorkRequirement", {"RUNNING"})
OfTasks == [Work EXCEPT !.groups = TRUE, !.tasks = TRUE]

\* Alike in what they ask for; or within one another; or of each kind
Typed ==
  {{Asked(Work, <<>>, ""), Asked(Lookup("WorkRequirement", {"HELD"}), <<>>, ""),
    [Asked(Work, <<>>, "a") EXCEPT !.tag = "u"]},
   {Asked(OfTasks, <<"a">>, ""), Asked([OfTasks EXCEPT !.tagged = FALSE], <<>>, "")},
   {Asked(OfTasks, <<"a", "g">>, "k"), Asked([OfTasks EXCEPT !.tasks = FALSE], <<"n", "a">>, "g")},
   {Asked(Lookup("Instance", {"STOPPED"}), <<>>, ""), Asked(Lookup("Instance", {"RUNNING"}), <<"c1">>, "")},
   {[Asked(Lookup("Node", {"RUNNING"}), <<>>, "") EXCEPT !.scope = <<"p">>],
    Asked([Lookup("WorkerPool", {"RUNNING"}) EXCEPT !.configured = TRUE], <<>>, "p")},
   {Asked(Lookup("Credential", All), <<>>, ""), Asked(Lookup("Credential", All), <<"y">>, "")},
   {Asked(Lookup("ComputeRequirement", {"RUNNING"}), <<"n">>, ""),
    [Asked(Lookup("WorkRequirement", All), <<>>, "") EXCEPT !.given = {<<"b">>}],
    [Asked(Work, <<>>, "") EXCEPT !.loads = FALSE]}}
-----------------------------------------------------------------------------
(* Of Tasks: what each level of a specification sets, CSV files for its Task *)
(* Groups, what is counted where, and Task Groups that are there already.    *)
Nothing == [p \in {} |-> <<>>]
P(p, v) == p :> v
Opt(p, vs) == {Nothing} \cup {P(p, v) : v \in vs}
Env(v) == "K" :> <<v>>
G(n, ps, ts) == [props |-> ("name" :> n) @@ ps, tasks |-> ts]
Base ==
  [specified |-> TRUE, csv |-> <<>>, overrides |-> Nothing, countLine |-> 0, groupsLine |-> 0,
   groupCount |-> 0, configGroups |-> 1, config |-> ("count" :> <<1>> @@ "type" :> <<"bash">>),
   named |-> "w", wr |-> Nothing, groups |-> <<>>, adding |-> FALSE, existing |-> <<>>]

\* A property set at several levels
Set ==
  {[Base EXCEPT !.config = @ @@ c, !.wr = w, !.overrides = o,
                !.groups = <<G(<<"g">>, g @@ P("count", <<2>>), <<t>>), G(<<>>, g, <<Nothing, t>>)>>] :
     c \in Opt("args", {<<"c", "{task number}">>}),
     w \in Opt("args", {<<>>, <<"w", "{task name}", "{wr}", "{group name}">>}),
     g \in Opt("args", {<<>>, <<"g", "{group number}", "{task number}", "{group count}">>}),
     t \in Opt("args", {<<>>, <<"t", "{task count}">>}), o \in Opt("args", {<<"o", "{task name}">>})}

\* The tables of an environment, which are added to
Added ==
  {[Base EXCEPT !.config = @ @@ c, !.wr = w @@ x, !.groups = <<G(<<"g">>, g @@ y, <<t, t>>)>>] :
     c \in Opt("add", {Env("{wr}") @@ ("L" :> <<"c">>)}),
     w \in Opt("add", {<<>>, "L" :> <<"{task name}">>}), x \in Opt("env", {Env("w")}),
     g \in Opt("add", {<<>>, "M" :> <<"{task number}">>}), y \in Opt("env", {<<>>, Env("g")}),
     t \in Opt("env", {"M" :> <<"t">>})}

\* The two forms of a Task's data
Data ==
  {[Base EXCEPT !.config = @ @@ c, !.wr = w, !.groups = <<G(<<"g">>, g, <<t @@ u @@ n, u>>)>>] :
     c \in Opt("data", {<<"c">>}), w \in Opt("file", {<<"w", "{task number}">>}),
     g \in Opt("data", {<<>>, <<"g", "{task name}">>}), t \in Opt("file", {<<"t">>}),
     u \in Opt("data", {<<"u", "{task name}">>}), n \in Opt("name", {<<"n", "{task number}">>})}

\* Types of Tasks, and the two mechanisms of their retries
OfTypes ==
  {[Base EXCEPT !.config = c @@ d, !.wr = w @@ v,
                !.groups = <<G(<<"g">>, g, <<t>>), G(<<"h">>, h, <<t, Nothing>>)>>] :
     c \in Opt("type", {<<"bash">>}), d \in Opt("template", {<<"docker">>}),
     w \in Opt("type", {<<"bash">>, <<>>}), v \in Opt("policy", {<<"p">>}),
     g \in Opt("types", {<<>>, <<"sh", "py">>}), h \in Opt("retries", {<<"1">>}),
     t \in Opt("type", {<<"py">>, <<>>})}

\* CSV files by position, by number and by name, more than the cache holds
Rows == <<("<c>" :> <<"1">> @@ "<d>" :> <<"{task number}", "x">>), ("<c>" :> <<"2">> @@ "<d>" :> <<"y">>)>>
File(of, n, m) ==
  [of |-> of, number |-> n, name |-> m, rows |-> IF of = "f" THEN Rows ELSE SubSeq(Rows, 1, 1)]
F == File("f", 0, "")
OfCsv ==
  {[Base EXCEPT !.csv = c, !.groups = g, !.countLine = l] :
     c \in {<<F>>, <<File("f", 2, ""), File("f", 1, "")>>, <<File("f", 2, ""), F>>,
            <<File("f", 0, "h"), File("g", 1, "")>>, <<File("g", 0, ""), F>>, <<File("g", 3, "")>>,
            <<File("g", 0, "k")>>, <<F, File("g", 0, ""), F>>,
            <<F, File("g", 0, ""), File("e", 0, ""), File("f", 4, "")>>},
     g \in {<<G(<<"g">>, Nothing, <<P("args", <<"<c>", "{task number}">>)>>),
              G(<<"h">>, Nothing, <<P("env", "K" :> <<"<d>">>)>>)>>,
            <<G(<<"g">>, Nothing, <<P("args", <<"a">>)>>),
              G(<<"h">>, Nothing, <<P("args", <<"<d>">>), Nothing>>)>>,
            [i \in 1 .. 4 |-> G(<<"g", "{group number}">>, Nothing,
                                <<P("name", <<"<c>", "{task number}">>)>>)]},
     l \in {0, 2}}

\* No specification: all from the configuration
Unspecified ==
  {[Base EXCEPT !.specified = FALSE, !.groups = <<G(<<>>, Nothing, <<Nothing>>)>>, !.csv = c,
                !.config = @ @@ a @@ g @@ t, !.countLine = l, !.configGroups = n, !.adding = d,
                !.existing = IF d THEN <<[name |-> "task_group_1", types |-> {"bash"}, tasks |-> 3]>> ELSE <<>>] :
     c \in {<<>>, <<F>>, <<F, File("g", 0, "")>>},
     a \in Opt("args", {<<"<c>", "{task number}", "{task count}">>}),
     g \in Opt("group name", {<<"g", "{group number}">>, <<"g">>}),
     t \in Opt("task name", {<<"t", "{task number}", "<d>">>}), l \in {0, 3}, n \in {1, 2}, d \in BOOLEAN}

\* Additions to two Task Groups that are there
GroupsThere == <<[name |-> "g", types |-> {"bash"}, tasks |-> 9], [name |-> "h3", types |-> {"bash", "py"}, tasks |-> 2]>>
Adding ==
  {[Base EXCEPT !.adding = TRUE, !.existing = GroupsThere, !.groups = g, !.groupsLine = l, !.countLine = 2,
                !.wr = P("args", <<"{task count}", "{group number}">>)] :
     g \in {<<G(n, Nothing, <<t>>), G(m, Nothing, <<t, Nothing>>)>> :
              n \in {<<"g">>, <<"n">>},
              m \in {<<"h", "{group number}">>, <<>>, <<"g">>, <<"k", "{group count}">>},
              t \in Opt("type", {<<"py">>})}
           \cup {<<G(n, Nothing, <<Nothing>>)>> :
                    n \in {<<"n", "{group number}">>, <<"h", "{group number}">>, <<"g">>}},
     l \in {0, 3}}

\* Task Groups counted, Tasks with no names, and none at all
Counted ==
  {[Base EXCEPT !.wr = P("named", <<v>>), !.groupsLine = 2,
                !.groups = <<G(n, P("count", <<c>>), <<P("timeout", <<"5">>)>>)>>] :
     v \in {"no", "yes"}, n \in {<<"g">>, <<"g", "{group number}">>, <<>>}, c \in {1, 10}}
  \cup {Base, [Base EXCEPT !.groups = <<G(<<"g">>, Nothing, <<>>)>>]}

Specified == Set \cup Added \cup Data \cup OfTypes \cup OfCsv \cup Unspecified \cup Adding \cup Counted

\* Of the number of Tasks alone: additions that hold it, written at each of the levels
Numbering == Opt("args", {<<"{task number}", "{task count}">>})
Extending ==
  {[Base EXCEPT !.adding = TRUE, !.existing = GroupsThere, !.countLine = 2, !.wr = w,
                !.groups = <<G(<<n>>, g, <<t>>)>>] :
     n \in {"g", "new"}, w \in Numbering, g \in Numbering, t \in Numbering}
=============================================================================
