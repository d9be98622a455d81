-------------------------------- MODULE MCResources ---------------------------
(***************************************************************************)
(* What makes things and removes them: a list of resources, the files of   *)
(* the data client, and what the Cloud Wizard sets up and tears down; and  *)
(* the commands that read what is written and what is there: what a name   *)
(* is taken to mean, the variables and the settings of a configuration,    *)
(* the Tasks of a specification, 'yd doctor' and Tab completion.           *)
(*                                                                         *)
(* The components of one run of TLC: a behaviour is that of one of them,   *)
(* chosen as it begins, in the variables that they take turns to use. Each *)
(* is a program of its own, and none of them reads another's state.        *)
(***************************************************************************)
EXTENDS Integers, Sequences, FiniteSets, TLC

VARIABLES
  chosen,            \* which of them
  r1, r2, r3, r4, r5, r6, r7, r8, r9, r10, r11, r12, r13, r14, r15, r16, r17,
  r18, r19, r20, r21   \* its variables

all == <<chosen, r1, r2, r3, r4, r5, r6, r7, r8, r9, r10, r11, r12, r13, r14, r15, r16, r17,
        r18, r19, r20, r21>>

Unused == <<>>

CONSTANT NoValue

\* Of ResourceRun: a resource of each type, lists of those that refer to one
\* another in an order that is not theirs, and one of an unknown type
Kinds == [namespace |-> "Namespace", keyring |-> "Keyring", credential |-> "Credential",
          image |-> "Image", attribute |-> "Attribute", source |-> "Source",
          requirement |-> "Requirement", allowance |-> "Allowance", policy |-> "Policy",
          pool |-> "Pool", group |-> "Group", application |-> "Application",
          user |-> "User", other |-> "Other"]
Referring ==
  [n \in DOMAIN Kinds |-> CASE n = "credential" -> {"keyring"}
                            [] n = "source" -> {"image"}
                            [] n = "requirement" -> {"source", "image"}
                            [] n = "allowance" -> {"source"}
                            [] n \in {"application", "user"} -> {"group"}
                            [] OTHER -> {}]
S(n) == [name |-> n, by |-> "specification"]
I(n) == [name |-> n, by |-> "ID"]
Given == {<<S("requirement"), S("source"), S("image")>>, <<S("allowance"), S("source"), S("pool")>>,
          <<S("application"), S("user"), S("group")>>, <<S("credential"), S("keyring"), S("attribute")>>,
          <<S("other"), S("policy"), S("namespace")>>, <<I("source"), S("requirement"), I("image")>>}

\* Of Downloads: globs and names that meet in one local path, or fall within others
Item(n) == [glob |-> FALSE, of |-> {n}]
Whole == [glob |-> FALSE, of |-> {}]
Glob(s) == [glob |-> TRUE, of |-> s]
Fetch(as, opt, to) == [args |-> as, sync |-> opt = "sync", flatten |-> opt = "flatten", to |-> to]
Fetched ==
  {Fetch(as, o, to) :
     as \in {<<Glob({"f", "g"}), Item("d")>>, <<Glob({"d", "e", "f"}), Glob({"d"})>>,
             <<Item("f"), Whole>>, <<Item("d"), Item("e"), Item("d")>>},
     o \in {"sync", "flatten", "copy"}, to \in {"bare", "into"}}
  \cup {Fetch(<<Item("d"), Item("e")>>, o, "destination") : o \in {"sync", "flatten", "copy"}}
Remotes == {(<<"f">> :> 1) @@ (<<"g">> :> 2) @@ (<<"d", "p">> :> 1) @@ (<<"e", "p">> :> 2) @@ (<<"e", "q">> :> 1),
            (<<"f">> :> 1) @@ (<<"e", "p">> :> 1)}
Old == {(<<"mine">> :> 1) @@ (<<"f">> :> 2) @@ (<<"d", "old">> :> 1) @@ (<<"D", "p">> :> 1)}

\* Of Uploads: files and directories, within one another and of the same names
Arg(p) == [path |-> p, name |-> IF p = <<"w">> THEN <<>> ELSE <<p[Len(p)]>>]
Send(as, mode, to, prefix) == [args |-> as, mode |-> mode, to |-> to, prefix |-> prefix]
Sent ==
  {Send(as, m, t, p) :
     as \in {<<Arg(<<"w", "f">>), Arg(<<"w", "d">>), Arg(<<"w", "g">>)>>, <<Arg(<<"w", "d">>), Arg(<<"w", "e">>)>>,
             <<Arg(<<"w", "none">>), Arg(<<"w">>)>>, <<Arg(<<"w">>)>>, <<Arg(<<"w", "f">>)>>, <<Arg(<<"w", "d">>)>>,
             <<Arg(<<"w", "f">>), Arg(<<"w", "d", "f">>)>>, <<Arg(<<"w", "d", "p">>), Arg(<<"w", "d">>)>>},
     m \in {"files only", "recursive", "flatten", "sync"}, t \in {"own", "directory", "path"}, p \in BOOLEAN}
  \cup {Send(<<Arg(<<"o", "p">>), Arg(<<"w">>)>>, "flatten", t, TRUE) : t \in {"own", "directory"}}
Here == (<<"w", "f">> :> 1) @@ (<<"w", "g">> :> 2) @@ (<<"w", "d", "p">> :> 1) @@ (<<"w", "d", "f">> :> 2)
        @@ (<<"w", "e", "p">> :> 1) @@ (<<"o", "p">> :> 2)

\* Of Deletions: a path given twice, within another, and the root
OnePath(p) == [glob |-> FALSE, of |-> {p}]
Paths(ps) == [glob |-> TRUE, of |-> ps]
Removed ==
  {[paths |-> ps, recursive |-> r] :
     ps \in {<<Paths({<<"f">>, <<"g">>, <<"d">>}), OnePath(<<"f">>)>>,
             <<OnePath(<<"d", "p">>), OnePath(<<"d">>), OnePath(<<"d">>)>>,
             <<OnePath(<<"f">>), OnePath(<<>>)>>, <<Paths({<<"d", "p">>, <<"d", "q">>})>>},
     r \in BOOLEAN}
Stored == {(<<"f">> :> 1) @@ (<<"g">> :> 1) @@ (<<"d", "p">> :> 1) @@ (<<"d", "q">> :> 1), (<<"g">> :> 1)}
Uploading(k) == {[to |-> <<"d", "q">>, size |-> k], [to |-> <<"f">>, size |-> 1], [to |-> <<"g">>, size |-> 1]}

Resource == INSTANCE ResourceRun WITH
  Name <- DOMAIN Kinds, TypeOf <- Kinds, Refs <- Referring, Lists <- Given,
  Codes <- {5, 6, 8},
  creating <- r1, resequence <- r2, items <- r3, index <- r4, program <- r5,
  found <- r6, cache <- r7, told <- r8, failures <- r9, exit <- r10,
  exists <- r11, added <- r12, changed <- r13, missed <- r14, replaced <- r15

Down == INSTANCE Downloads WITH
  Lines <- Fetched, Remotes <- Remotes, Locals <- Old, Others <- Uploading(2),
  line <- r1, args <- r2, pc <- r3, unchecked <- r4, runs <- r5,
  succeeded <- r6, failures <- r7, exit <- r8, told <- r9, remote <- r10,
  local <- r11, before <- r12, planned <- r13

Up == INSTANCE Uploads WITH
  Lines <- Sent, Local <- Here, Remotes <- Old,
  line <- r1, pc <- r2, runs <- r3, failures <- r4, exit <- r5, told <- r6,
  remote <- r7, before <- r8

Del == INSTANCE Deletions WITH
  Lines <- Removed, Remotes <- Stored, Theirs <- Uploading(1), MaxTheirs <- 2,
  line <- r1, paths <- r2, pc <- r3, targets <- r4, runs <- r5,
  failures <- r6, exit <- r7, told <- r8, remote <- r9, theirs <- r10,
  before <- r11, agreed <- r12

Wiz == INSTANCE Wizard WITH
  Provider <- {"AWS", "AZURE", "GCP"}, Zone <- {"w", "z"}, NoGroup <- {"z"},
  Key <- {"k1", "k2"}, Codes <- {5, 8}, MaxRuns <- 2, None <- NoValue,
  provider <- r1, operation <- r2, todo <- r3, pending <- r4, self <- r5,
  reported <- r6, recorded <- r7, failure <- r8, raised <- r9, exit <- r10,
  runs <- r11, cloud <- r12, deleting <- r13, platform <- r14,
  credential <- r15, refers <- r16, file <- r17, declined <- r18,
  failedOn <- r19, made <- r20, shown <- r21

\* Of Names, Variables, Settings, Tasks, Doctor and Completion: see the module of their values
Reading == INSTANCE MCReading WITH None <- NoValue

Name == INSTANCE Names WITH
  Works <- DOMAIN Reading!MadeAs, Of <- Reading!MadeAs, Groups <- DOMAIN Reading!Within,
  In <- Reading!Within, Families <- DOMAIN Reading!Images, Fam <- Reading!Images,
  Asked <- Reading!Queries,
  Namespace <- "a",
  type <- r1, liveOnly <- r2, left <- r3, found <- r4, refused <- r5,
  code <- r6, families <- r7, works <- r8, live <- r9, known <- r10

Vars == INSTANCE Variables WITH
  Cases <- Reading!Written, Defaults <- Reading!TheDefaults,
  Reserved <- {<<"tag">>}, Tag <- <<"tag">>, Lazy <- <<"wr">>,
  MaxPasses <- 10, MaxText <- 40,
  case <- r1, pc <- r2, table <- r3, order <- r4, written <- r5,
  fromCli <- r6, fromEnv <- r7, fromFile <- r8, properties <- r9,
  round <- r10, reported <- r11

Sets == INSTANCE Settings WITH
  Lines <- Reading!Configured,
  line <- r1, pc <- r2, environment <- r3, common <- r4, base <- r5,
  profile <- r6, used <- r7, sources <- r8, outranked <- r9, table <- r10

Tsk == INSTANCE Tasks WITH
  Cases <- Reading!Specified,
  case <- r1, pc <- r2, at <- r3, given <- r4, cache <- r5, config <- r6,
  wr <- r7, groups <- r8, vars <- r9, positions <- r10, made <- r11,
  additions <- r12, tasks <- r13

Doc == INSTANCE Doctor WITH
  None <- NoValue, Machines <- Reading!Machines, MaxWrong <- 1,
  offline <- r1, machine <- r2, loaded <- r3, sdk_error <- r4,
  reachable <- r5, application <- r6, checks <- r7, rows <- r8,
  HTTPS_PROXY <- r9, pac <- r10, wrong <- r11, exit <- r12

Comp == INSTANCE Completion WITH
  None <- NoValue, Tabs <- 2, Lines <- Reading!Typed, Entity <- Reading!Things,
  Worlds <- Reading!There, CacheSeconds <- 1, Timeout <- 1, MaxItems <- 2,
  MaxParents <- 1, MaxTime <- 4, MaxBack <- 1, MaxChanges <- 1,
  lines <- r1, there <- r2, changes <- r3, held <- r4, back <- r5, pc <- r6,
  request <- r7, began <- r8, todo <- r9, parents <- r10, items <- r11,
  writing <- r12, stale <- r13, answer <- r14, cache <- r15, partial <- r16

ASSUME
  /\ Resource!Parameters /\ Down!Parameters
  /\ Up!Parameters /\ Del!Parameters
  /\ Wiz!Parameters /\ Name!Parameters /\ Vars!Parameters /\ Sets!Parameters
  /\ Tsk!Parameters /\ Doc!Parameters /\ Comp!Parameters

Init ==
  \/ /\ chosen = "resources" /\ Resource!Init
     /\ r16 = Unused /\ r17 = Unused /\ r18 = Unused /\ r19 = Unused
     /\ r20 = Unused /\ r21 = Unused
  \/ /\ chosen = "download" /\ Down!Init
     /\ r14 = Unused /\ r15 = Unused /\ r16 = Unused /\ r17 = Unused
     /\ r18 = Unused /\ r19 = Unused /\ r20 = Unused /\ r21 = Unused
  \/ /\ chosen = "upload" /\ Up!Init
     /\ r9 = Unused /\ r10 = Unused /\ r11 = Unused /\ r12 = Unused
     /\ r13 = Unused /\ r14 = Unused /\ r15 = Unused /\ r16 = Unused
     /\ r17 = Unused /\ r18 = Unused /\ r19 = Unused /\ r20 = Unused
     /\ r21 = Unused
  \/ /\ chosen = "delete" /\ Del!Init
     /\ r13 = Unused /\ r14 = Unused /\ r15 = Unused /\ r16 = Unused
     /\ r17 = Unused /\ r18 = Unused /\ r19 = Unused /\ r20 = Unused
     /\ r21 = Unused
  \/ /\ chosen = "wizard" /\ Wiz!Init
  \/ /\ chosen = "names" /\ Name!Init
     /\ r11 = Unused /\ r12 = Unused /\ r13 = Unused /\ r14 = Unused /\ r15 = Unused
     /\ r16 = Unused /\ r17 = Unused /\ r18 = Unused /\ r19 = Unused /\ r20 = Unused
     /\ r21 = Unused
  \/ /\ chosen = "variables" /\ Vars!Init
     /\ r12 = Unused /\ r13 = Unused /\ r14 = Unused /\ r15 = Unused /\ r16 = Unused
     /\ r17 = Unused /\ r18 = Unused /\ r19 = Unused /\ r20 = Unused /\ r21 = Unused
  \/ /\ chosen = "settings" /\ Sets!Init
     /\ r11 = Unused /\ r12 = Unused /\ r13 = Unused /\ r14 = Unused /\ r15 = Unused
     /\ r16 = Unused /\ r17 = Unused /\ r18 = Unused /\ r19 = Unused /\ r20 = Unused
     /\ r21 = Unused
  \/ /\ chosen = "tasks" /\ Tsk!Init
     /\ r14 = Unused /\ r15 = Unused /\ r16 = Unused /\ r17 = Unused /\ r18 = Unused
     /\ r19 = Unused /\ r20 = Unused /\ r21 = Unused
  \/ /\ chosen = "doctor" /\ Doc!Init
     /\ r13 = Unused /\ r14 = Unused /\ r15 = Unused /\ r16 = Unused /\ r17 = Unused
     /\ r18 = Unused /\ r19 = Unused /\ r20 = Unused /\ r21 = Unused
  \/ /\ chosen = "tab" /\ Comp!Init
     /\ r17 = Unused /\ r18 = Unused /\ r19 = Unused /\ r20 = Unused /\ r21 = Unused

\* The one that takes a step, and leaves the rest alone
OfResource == chosen = "resources" /\ UNCHANGED <<chosen, r16, r17, r18, r19,
           r20, r21>>
OfDown == chosen = "download" /\ UNCHANGED <<chosen, r14, r15, r16, r17, r18,
           r19, r20, r21>>
OfUp == chosen = "upload" /\ UNCHANGED <<chosen, r9, r10, r11, r12, r13, r14,
           r15, r16, r17, r18, r19, r20, r21>>
OfDel == chosen = "delete" /\ UNCHANGED <<chosen, r13, r14, r15, r16, r17,
           r18, r19, r20, r21>>
OfWiz == chosen = "wizard" /\ UNCHANGED <<chosen>>
OfName ==
  chosen = "names"
  /\ UNCHANGED <<chosen, r11, r12, r13, r14, r15, r16, r17, r18, r19, r20, r21>>
OfVars ==
  chosen = "variables"
  /\ UNCHANGED <<chosen, r12, r13, r14, r15, r16, r17, r18, r19, r20, r21>>
OfSets ==
  chosen = "settings"
  /\ UNCHANGED <<chosen, r11, r12, r13, r14, r15, r16, r17, r18, r19, r20, r21>>
OfTsk ==
  chosen = "tasks"
  /\ UNCHANGED <<chosen, r14, r15, r16, r17, r18, r19, r20, r21>>
OfDoc ==
  chosen = "doctor"
  /\ UNCHANGED <<chosen, r13, r14, r15, r16, r17, r18, r19, r20, r21>>
OfComp ==
  chosen = "tab"
  /\ UNCHANGED <<chosen, r17, r18, r19, r20, r21>>

Next ==
  \/ OfResource /\ Resource!Next
  \/ OfDown /\ Down!Next
  \/ OfUp /\ Up!Next
  \/ OfDel /\ Del!Next
  \/ OfWiz /\ Wiz!Next
  \/ OfName /\ Name!Next
  \/ OfVars /\ Vars!Next
  \/ OfSets /\ Sets!Next
  \/ OfTsk /\ Tsk!Next
  \/ OfDoc /\ Doc!Next
  \/ OfComp /\ Comp!Next

Spec == Init /\ [][Next]_all
-----------------------------------------------------------------------------
(* What each component promises, of the one that was begun. *)

\* What the platform said it had made, or removed, is recorded, whatever failed
\* after it; and each item of a list is recorded once the run ends, those that it
\* did not reach as skipped.
CreatedIsTold == chosen = "resources" => Resource!CreatedIsTold /\ Resource!EachItemTold

\* Put in order, a resource is not looked for in vain by one of the list that refers
\* to it, nor removed before one of the list that refers to it; nothing is changed
\* for one whose references are not found, and an Allowance is not removed before
\* the one in its place is there.
InReferenceOrder ==
  chosen = "resources" => Resource!InReferenceOrder /\ Resource!NothingLost

\* What was recorded as downloaded, uploaded or deleted is so, however much of its
\* transfer failed; and success means all of it.
TransferredAsTold ==
  /\ chosen = "download" => Down!DownloadedIsThere /\ Down!ZeroMeansAll
  /\ chosen = "upload" => Up!UploadedIsThere
  /\ chosen = "delete" => Del!DeletedIsGone

\* An exit code of 0 of the Cloud Wizard means that what it was asked to set up, or
\* to remove, is whole, but for what the user kept and for failures it told of; and
\* 'yd doctor' tells each of its checks, and a cause once.
WholeOrTold ==
  /\ chosen = "wizard" => Wiz!WholeOrTold
  /\ chosen = "doctor" => Doc!DoctorTells

\* What is written means one thing, or is refused for its cause: a variable what its
\* definition of the highest rank makes of it, a setting what the place of the
\* highest rank has, and a Task what the lowest level that sets each property says.
AsWritten ==
  /\ chosen = "variables" => Vars!MeansWhatIsWritten /\ Vars!EndsForItsCause /\ Vars!LeftIsTold
  /\ chosen = "settings" => Sets!HighestRankWins
  /\ chosen = "tasks" => Tsk!AsWritten /\ Tsk!Numbered /\ Tsk!TypesAllowed /\ Tsk!EndsForItsCause

\* No file goes but one that was asked for: not those of the current directory or
\* the bucket for a '--sync', not another argument's, and not one unconfirmed; nor
\* does the Cloud Wizard remove what is not its own or what the user kept.
OnlyWhatWasAsked ==
  [][/\ (chosen = "download" => Down!CurrentDirectoryKept)'
     /\ (chosen = "upload" => Up!NoneOverwritten /\ Up!BucketKept)'
     /\ (chosen = "delete" => Del!OnlyConfirmed)'
     /\ chosen = "wizard" => Wiz!Step]_all

\* A name gives the one thing that it means, of a Work Requirement, a Task Group
\* or an Image, and none where it could be several; and Tab offers no name but what
\* the command would take for the word, as of the last half minute.
MeansWhatItGives ==
  [][/\ chosen = "names" => Name!Meant /\ Name!ImagesMean
     /\ chosen = "tab" => Comp!OffersWhatWasThere]_all
-----------------------------------------------------------------------------
(* Where the program and what is said of it differ: a download of files within one *)
(* another, and the number of Tasks that Tasks may be given.                       *)

\* Of Downloads: a wildcard and a directory, each with '--sync' and one '--destination'
Nested == INSTANCE Downloads WITH
  Lines <- {[args |-> <<Glob({"d", "e"}), Item("e")>>, sync |-> TRUE, flatten |-> FALSE,
             to |-> "destination"]},
  Remotes <- Remotes, Locals <- Old, Others <- Uploading(2),
  line <- r1, args <- r2, pc <- r3, unchecked <- r4, runs <- r5,
  succeeded <- r6, failures <- r7, exit <- r8, told <- r9, remote <- r10,
  local <- r11, before <- r12, planned <- r13

Downloading ==
  /\ chosen = "download" /\ Nested!Init
  /\ r14 = Unused /\ r15 = Unused /\ r16 = Unused /\ r17 = Unused
  /\ r18 = Unused /\ r19 = Unused /\ r20 = Unused /\ r21 = Unused
  /\ [][OfDown /\ Nested!Next]_all

\* What was recorded as downloaded is there, at the size recorded: no later argument's
\* sync deletes it.
DownloadedIsThere == Nested!DownloadedIsThere

\* Of Tasks: additions to a Task Group that is there, whose Tasks' arguments hold the
\* number of Tasks, written at each of the levels
Counting == INSTANCE Tasks WITH
  Cases <- Reading!Extending,
  case <- r1, pc <- r2, at <- r3, given <- r4, cache <- r5, config <- r6,
  wr <- r7, groups <- r8, vars <- r9, positions <- r10, made <- r11,
  additions <- r12, tasks <- r13

Submitting ==
  /\ chosen = "tasks" /\ Counting!Init
  /\ r14 = Unused /\ r15 = Unused /\ r16 = Unused /\ r17 = Unused
  /\ r18 = Unused /\ r19 = Unused /\ r20 = Unused /\ r21 = Unused
  /\ [][OfTsk /\ Counting!Next]_all

\* The number of Tasks that a Task is given is that of its Task Group, those that were
\* there among them.
WholeCount == Counting!WholeCount
=============================================================================
