------------------------------ MODULE Updates -------------------------------
(***************************************************************************)
(* The commands that change a value of a thing that others may be changing *)
(* too: 'yd priority' (priority.py), 'resize' (resize.py), 'boost' and     *)
(* 'token' (boost.py, token.py).                                           *)
(*                                                                         *)
(* A Work Requirement and a Compute Requirement are sent back whole, all   *)
(* fields of a copy fetched just before.  An Allowance is given more hours *)
(* and a Worker Pool a new token by a request that, made twice, does it    *)
(* twice.                                                                  *)
(***************************************************************************)
EXTENDS Integers, Sequences, FiniteSets, SequencesExt, Arranging

CONSTANTS
  Fields,            \* what a value can be set of, or others can change
  DocOf,             \* DocOf[f]: the thing sent back with it, or f itself
  Lines,             \* command lines: [command, targets]
  MinNodes, MaxNodes,
  Codes

SUCCESS == 0
FAILURE == 1
NOT_FOUND == 6
SESSION_FAILURES == {4, 8}
Unset == -1

Wanted == 1
Theirs == 2                            \* what others set
Commands == {"priority", "resize", "resize pool", "boost", "token"}

Parameters ==
  /\ MinNodes \in Int /\ MaxNodes \in Int
  /\ \A l \in Lines :
       /\ l.command \in Commands /\ l.targets \in Seq(Fields)
       /\ l.command \in {"resize", "resize pool"} => Len(l.targets) = 1

VARIABLES
  command, targets,
  pc,
  left, items,       \* the targets to resolve, and those to change
  seen,              \* seen[f]: its value when it was resolved
  groups,            \* sequences of fields: one request for each
  copy,              \* the thing fetched to be sent back
  records, causes,   \* [of, outcome, value], and the failures' codes
  exit,
  value,             \* external: what the Platform holds
  alive,             \* external: "live", "over" or "none"
  calls,             \* for the properties: how often each value was set
  answered,          \* whether an answer to that was had
  since              \* the fields others have changed since the copy was fetched

line == <<command, targets>>
run == <<left, items, seen, groups, copy>>
told == <<records, causes>>
platform == <<value, alive, calls, answered, since>>
vars == <<line, pc, run, told, exit, platform>>

Whole == {"priority", "resize"}        \* commands that send a thing back
Ends(code) == pc' = "exit" /\ exit' = code
Goes(to) == pc' = to /\ UNCHANGED exit
Row(f, outcome, v) == [of |-> f, outcome |-> outcome, value |-> v]
Rows(s, outcome) == [k \in DOMAIN s |-> Row(s[k], outcome, Unset)]
Fails(s, code) ==
  /\ records' = records \o Rows(s, "failed")
  /\ causes' = causes \o [k \in DOMAIN s |-> code]

Init ==
  /\ \E l \in Lines : command = l.command /\ targets = l.targets
  /\ pc = "resolve" /\ left = targets /\ items = <<>> /\ groups = <<>> /\ copy = <<>>
  /\ seen = [f \in Fields |-> Unset]
  /\ records = <<>> /\ causes = <<>> /\ exit = Unset
  /\ value \in [Fields -> {0, Wanted}] /\ alive \in [Fields -> {"live", "over", "none"}]
  /\ \A f \in Fields : alive[f] # "live" => value[f] = 0
  /\ \A f \in Fields \ ToSet(targets) : alive[f] = "live" /\ value[f] = 0
  /\ \A f \in Fields : alive[DocOf[f]] # "live" => alive[f] = alive[DocOf[f]]
  /\ calls = [f \in Fields |-> 0] /\ answered = {}
  /\ since = {}
-----------------------------------------------------------------------------
(* Resolving: resolve_targets(), or the one target of a resize. *)

Resolving == pc = "resolve" /\ left # <<>>
Of == Head(left)
Single == command \in {"resize", "resize pool"}
After1 == left' = Tail(left) /\ UNCHANGED <<line, pc, groups, copy, exit, platform>>

Adds(f) == IF f \in ToSet(items) THEN items ELSE Append(items, f)

\* A Worker Pool outside its limits fails, with no cause recorded
OutsideLimits == command = "resize pool" /\ Wanted \notin MinNodes .. MaxNodes

Resolve ==
  /\ Resolving /\ alive[Of] = "live" /\ ~OutsideLimits
  /\ command \notin {"boost", "token"} => value[Of] # Wanted
  /\ items' = Adds(Of)
  /\ seen' = [seen EXCEPT ![Of] = value[Of]]
  /\ After1 /\ UNCHANGED told

\* It has finished, or is already what is asked for
ResolveSkips ==
  /\ Resolving
  /\ \/ alive[Of] = "over" /\ command # "boost"
     \/ alive[Of] = "live" /\ command \notin {"boost", "token"} /\ ~OutsideLimits /\ value[Of] = Wanted
  /\ records' = Append(records, Row(Of, "skipped", Unset))
  /\ After1 /\ UNCHANGED <<items, seen, causes>>

\* Also one that cannot be: Configured, awaiting Nodes, or managed by a Worker Pool
ResolveRefuses ==
  /\ Resolving /\ Single /\ alive[Of] = "live"
  /\ records' = Append(records, Row(Of, "failed", Unset))
  /\ After1 /\ UNCHANGED <<items, seen, causes>>

ResolveFails(code) ==
  /\ Resolving
  /\ alive[Of] = "none" => code = NOT_FOUND
  /\ Fails(<<Of>>, code)
  /\ left' = Tail(left)
  /\ IF Single THEN Ends(code) ELSE Goes(pc)
  /\ code \notin SESSION_FAILURES \/ Single
  /\ UNCHANGED <<line, items, seen, groups, copy, platform>>

ResolveStops(code) ==
  /\ Resolving /\ ~Single /\ code \in SESSION_FAILURES
  /\ records' = records \o Rows(<<Of>>, "failed") \o Rows(items \o Tail(left), "skipped")
  /\ causes' = Append(causes, code)
  /\ Ends(code)
  /\ UNCHANGED <<line, run, platform>>

Once(s) == Picked(s, Firsts(s))

\* _by_work_requirement(); an Allowance and a Worker Pool have a request each
Grouped(s) ==
  LET docs == Once([k \in DOMAIN s |-> DocOf[s[k]]])
  IN IF command \in Whole
     THEN [k \in DOMAIN docs |-> Picked(s, {i \in DOMAIN s : DocOf[s[i]] = docs[k]})]
     ELSE [k \in DOMAIN s |-> <<s[k]>>]

\* The items of some groups, a group after another
InGroup(i, gs) == CHOOSE k \in DOMAIN gs : items[i] \in ToSet(gs[k])
Ungrouped(gs) ==
  LET places == {i \in DOMAIN items : \E k \in DOMAIN gs : items[i] \in ToSet(gs[k])}
  IN  Arranged(items, places, [i \in places |-> InGroup(i, gs)])

Confirm ==
  /\ pc = "resolve" /\ left = <<>> /\ items # <<>>
  /\ \/ groups' = Grouped(items) /\ Goes("change") /\ UNCHANGED records
     \/ records' = records \o Rows(items, "skipped") /\ Goes("return") /\ UNCHANGED groups
  /\ UNCHANGED <<line, left, items, seen, copy, causes, platform>>

NothingToChange ==
  /\ pc = "resolve" /\ left = <<>> /\ items = <<>>
  /\ Goes("return")
  /\ UNCHANGED <<line, run, told, platform>>
-----------------------------------------------------------------------------
(* Changing. *)

Group == Head(groups)
Doc == DocOf[Group[1]]
OfDoc(d) == {f \in Fields : DocOf[f] = d}
Gone == \E k \in DOMAIN Group : alive[Group[k]] = "none"

\* Mutant: what is sent back is the copy that was fetched when it was resolved.
Copy_AsResolved ==
  /\ pc = "change" /\ groups # <<>> /\ command \in Whole /\ ~Gone
  /\ copy' = [f \in OfDoc(Doc) |-> IF seen[f] = Unset THEN 0 ELSE seen[f]]
  /\ since' = {}
  /\ Goes("copied")
  /\ UNCHANGED <<line, left, items, seen, groups, told, value, alive, calls, answered>>

\* The first half of _apply(): a copy fetched just now
Copy ==
  /\ pc = "change" /\ groups # <<>> /\ command \in Whole /\ ~Gone
  /\ copy' = [f \in OfDoc(Doc) |-> value[f]]
  /\ since' = {}
  /\ Goes("copied")
  /\ UNCHANGED <<line, left, items, seen, groups, told, value, alive, calls, answered>>

Sets(fs) ==
  /\ value' = [f \in Fields |-> IF f \in fs THEN Wanted
                                ELSE IF f \in DOMAIN copy THEN copy[f] ELSE value[f]]
  /\ calls' = [f \in Fields |-> calls[f] + (IF f \in fs THEN 1 ELSE 0)]
  /\ since' = {}

\* The second: every field of it is sent
Send ==
  /\ pc = "copied"
  /\ Sets(ToSet(Group))
  /\ answered' = answered \cup ToSet(Group)
  /\ records' = records \o [k \in DOMAIN Group |-> Row(Group[k], "changed", copy[Group[k]])]
  /\ groups' = Tail(groups) /\ copy' = <<>>
  /\ Goes("change")
  /\ UNCHANGED <<line, left, items, seen, causes, alive>>

\* A boost, a new token or a resize of a Worker Pool, and its answer
Call ==
  /\ pc = "change" /\ groups # <<>> /\ command \notin Whole
  /\ Sets({Group[1]})
  /\ answered' = answered \cup {Group[1]}
  /\ records' = Append(records, Row(Group[1], "changed", calls'[Group[1]]))
  /\ groups' = Tail(groups)
  /\ Goes("change")
  /\ UNCHANGED <<line, left, items, seen, copy, causes, alive>>

\* Mutant: after a failure the request is made again.
ChangeFails_Again(code) ==
  /\ (pc = "change" /\ groups # <<>>) \/ pc = "copied"
  /\ \/ UNCHANGED platform
     \/ /\ pc = "copied" \/ command \notin Whole
        /\ Sets(ToSet(Group)) /\ UNCHANGED <<alive, answered>>
  /\ copy' = <<>> /\ Goes("change")
  /\ UNCHANGED <<line, left, items, seen, groups, told>>

\* A request fails, perhaps when it has been carried out and its answer is lost
ChangeFails(code) ==
  /\ (pc = "change" /\ groups # <<>>) \/ pc = "copied"
  /\ \/ UNCHANGED platform
     \/ /\ pc = "copied" \/ command \notin Whole
        /\ Sets(ToSet(Group)) /\ UNCHANGED <<alive, answered>>
  /\ Fails(Group, code)
  /\ copy' = <<>> /\ groups' = Tail(groups)
  /\ IF Single THEN Ends(code) ELSE Goes("change")
  /\ Single \/ code \notin SESSION_FAILURES
  /\ UNCHANGED <<line, left, items, seen>>

ChangeStops(code) ==
  /\ (pc = "change" /\ groups # <<>>) \/ pc = "copied"
  /\ ~Single /\ code \in SESSION_FAILURES
  /\ records' = records \o Rows(Group, "failed") \o Rows(Ungrouped(Tail(groups)), "skipped")
  /\ causes' = causes \o [k \in DOMAIN Group |-> code]
  /\ Ends(code)
  /\ UNCHANGED <<line, run, platform>>

\* failure_exit_code()
Return ==
  /\ (pc = "change" /\ groups = <<>>) \/ pc = "return"
  /\ LET failed == {k \in DOMAIN records : records[k].outcome = "failed"} IN
       Ends(IF failed = {} THEN SUCCESS
            ELSE IF Cardinality(failed) = Len(causes) /\ \A k \in DOMAIN causes : causes[k] = causes[1]
            THEN causes[1] ELSE FAILURE)
  /\ UNCHANGED <<line, run, told, platform>>
-----------------------------------------------------------------------------
(* External: what others do, at most twice. *)

Changed == {f \in Fields : value[f] = Theirs \/ (alive[f] = "none" /\ f \in ToSet(items))}
Free(f) == /\ exit = Unset /\ alive[f] = "live"
           /\ command \in Whole /\ \E k \in DOMAIN targets : DocOf[f] = DocOf[targets[k]]
           /\ Cardinality(Changed) < 2

OthersChange(f) ==
  /\ Free(f) /\ value[f] # Theirs
  /\ value' = [value EXCEPT ![f] = Theirs]
  /\ since' = since \cup {f}
  /\ UNCHANGED <<line, pc, run, told, exit, alive, calls, answered>>

Vanishes(f) ==
  /\ Free(f) /\ pc # "copied"
  /\ DocOf[f] # f
  /\ alive' = [alive EXCEPT ![f] = "none"]
  /\ UNCHANGED <<line, pc, run, told, exit, value, calls, answered, since>>

Next ==
  \/ Resolve \/ ResolveSkips \/ ResolveRefuses \/ Confirm \/ NothingToChange
  \/ Copy \/ Send \/ Call \/ Return
  \/ \E code \in Codes : \/ ResolveFails(code) \/ ResolveStops(code)
                         \/ ChangeFails(code) \/ ChangeStops(code)
  \/ \E f \in Fields : OthersChange(f) \/ Vanishes(f)

Spec == Init /\ [][Next]_vars
-----------------------------------------------------------------------------
(* What it is meant to ensure. *)

\* Nothing changed since it was resolved is overwritten, unless it changes between
\* the copy that is fetched just before and its being sent: a value that others set
\* and no target names stays as they set it.
Kept ==
  \A f \in Fields : value[f] = Theirs /\ value'[f] # Theirs
                      => f \in ToSet(Group) \/ f \in since
OthersChangesKept == [][Kept]_vars

\* Hours are added, and a token issued, once at most for a thing named in any number
\* of ways; whenever an answer to that is had it is recorded, a new token with it;
\* and at the end each thing to change is recorded.
ChangedOnceAndTold ==
  /\ \A f \in Fields :
       /\ calls[f] <= 1
       /\ f \in answered <=> \E k \in DOMAIN records : records[k].of = f /\ records[k].outcome = "changed"
  /\ exit # Unset => \A f \in ToSet(items) : \E k \in DOMAIN records : records[k].of = f
-----------------------------------------------------------------------------
(* Why it does. *)

Sorts == [of : Fields, outcome : {"changed", "skipped", "failed"}, value : Int]

\* What was resolved is there once, and of the one target of a resize there is one
ItemsInv ==
  /\ command \in Commands
  /\ left \in Seq(Fields) /\ items \in Seq(Fields) /\ records \in Seq(Sorts)
  /\ \A i, j \in DOMAIN items : items[i] = items[j] => i = j
  /\ Single => Len(left) + Len(items) <= 1
  /\ value \in [Fields -> Int]

Told(f) == \E k \in DOMAIN records : records[k].of = f
ToldChanged(f) == \E k \in DOMAIN records : records[k].of = f /\ records[k].outcome = "changed"
Awaits(f) == \E k \in DOMAIN groups : f \in ToSet(groups[k])

\* Each thing to change is in one group until it has been recorded
GroupsInv ==
  /\ groups \in Seq(Seq(Fields))
  /\ \A k \in DOMAIN groups : groups[k] # <<>> /\ ToSet(groups[k]) \subseteq ToSet(items)
  /\ \A j, k \in DOMAIN groups : j # k => ToSet(groups[j]) \cap ToSet(groups[k]) = {}
  /\ command \in Whole => \A k \in DOMAIN groups : \A f \in ToSet(groups[k]) :
                            DocOf[f] = DocOf[groups[k][1]]
  /\ command \notin Whole => \A k \in DOMAIN groups : Len(groups[k]) = 1
  /\ pc \in {"resolve", "change", "copied", "return", "exit"}
  /\ pc = "resolve" => groups = <<>>
  /\ pc = "copied" => groups # <<>> /\ command \in Whole
  /\ pc \in {"change", "copied"} => \A f \in ToSet(items) : Awaits(f) \/ Told(f)
  /\ pc \in {"return", "exit"} => \A f \in ToSet(items) : Told(f)
  /\ exit # Unset => pc = "exit"

\* It has not been set before, nor has an answer been had
CallsInv ==
  /\ calls \in [Fields -> Nat]
  /\ \A f \in Fields : calls[f] <= 1 /\ (pc = "resolve" \/ Awaits(f) => calls[f] = 0)
  /\ answered \subseteq Fields
  /\ \A f \in Fields : f \in answered <=> ToldChanged(f)

\* The copy that is sent back is what the Platform held, but for what changed since
CopyInv ==
  /\ pc \in {"resolve", "change"} => copy = <<>>
  /\ pc = "copied" => /\ copy \in [OfDoc(Doc) -> Int]
                      /\ \A f \in OfDoc(Doc) : f \in since \/ copy[f] = value[f]

IInv == ItemsInv /\ GroupsInv /\ CallsInv /\ CopyInv
=============================================================================
