----------------------------- MODULE CommandRun -----------------------------
(***************************************************************************)
(* What 'yd cancel', 'shutdown', 'start', 'hold' and 'finish' do (cancel.py,*)
(* shutdown.py, utils/start_hold_common.py) by the rules of ActionRun: name *)
(* patterns are replaced by the things they match in a state the command   *)
(* applies to, targets are resolved to things as they are when fetched,    *)
(* and things are confirmed, acted on and followed.  Between any two of    *)
(* these the Platform moves things on.                                     *)
(*                                                                         *)
(* The order in which a listing is selected from is left out, and so are   *)
(* dry runs and the choice between things of one name.                     *)
(***************************************************************************)
EXTENDS Integers, Sequences, FiniteSets, SequencesExt, Arranging

CONSTANTS
  Things,            \* Work Requirements, Tasks, Worker Pools, Nodes
  TypeOf,            \* TypeOf[x]: "wr", "task", "pool" or "node"
  CommandLines,      \* [command, targets]: each target a set, of one thing
                     \* named or of those of a pattern
  Codes              \* the exit codes of failures

SUCCESS == 0
FAILURE == 1
NOT_FOUND == 6
SESSION_FAILURES == {4, 8}
Unset == -1

Parameters ==
  /\ IsFiniteSet(Things)
  /\ TypeOf \in [Things -> {"wr", "task", "pool", "node"}]
  /\ \A l \in CommandLines :
       /\ l.command \in {"cancel", "shutdown", "start", "hold", "finish"}
       /\ l.targets \in Seq([by : {"name", "pattern"}, of : SUBSET Things])
  /\ Codes \subseteq {1, 4, 5, 6, 7, 8}

VARIABLES
  command, targets,  \* the command line
  abort,             \* '--abort' of a cancellation
  terminate,         \* '--terminate' of a shutdown
  follow,            \* '--follow'
  pc,
  left,              \* the targets still to be expanded, then the things to resolve
  listed,            \* the things to resolve, or those listed
  items,             \* the things to act on, in order
  fetched,           \* fetched[x]: its status as it was fetched
  records,           \* a sequence of [of, what, outcome]
  causes,            \* the codes of the failures recorded
  acted,             \* the things acted on successfully, in order
  followed,
  exit,
  status, cr,        \* external: each thing's status, each pool's Compute Requirement
  did                \* for the properties: requests that the Platform carried out

line == <<command, targets, abort, terminate, follow>>
run == <<left, listed, items, fetched, acted, followed>>
told == <<records, causes>>
platform == <<status, cr, did>>
vars == <<line, pc, run, told, exit, platform>>

Over == "over"
Statuses(x) == CASE TypeOf[x] = "wr" -> {"RUNNING", "HELD", "FINISHING", "CANCELLING", Over}
                 [] OTHER -> {"RUNNING", Over}
Outcomes == {"done", "aborted", "skipped", "failed"}
Whats == {"target", "thing", "termination"}

TypeOK ==
  /\ pc \in {"expand", "resolve", "confirm", "act", "terminate", "return", "exit"}
  /\ listed \in Seq(Things) /\ items \in Seq(Things) /\ acted \in Seq(Things)
  /\ \A k \in DOMAIN records : records[k].what \in Whats /\ records[k].outcome \in Outcomes
  /\ causes \in Seq(Codes)
  /\ followed \subseteq Things
  /\ exit \in {Unset, SUCCESS, FAILURE} \cup Codes
  /\ \A x \in Things : status[x] \in Statuses(x)
  /\ did \subseteq Things \X {"acted", "terminated"}
-----------------------------------------------------------------------------
\* Mutant: a Work Requirement that is being cancelled is cancelled again.
Applies_Again(x, s) ==
  CASE command = "cancel" -> s # Over
    [] command = "shutdown" -> s # Over
    [] command = "start" -> s = "HELD"
    [] command = "hold" -> s = "RUNNING"
    [] command = "finish" -> s \in {"RUNNING", "HELD"}

\* The states each command applies to
Applies(x, s) ==
  CASE command = "cancel" ->
         s # Over /\ (TypeOf[x] = "wr" /\ s = "CANCELLING" => abort)
    [] command = "shutdown" -> s # Over
    [] command = "start" -> s = "HELD"
    [] command = "hold" -> s = "RUNNING"
    [] command = "finish" -> s \in {"RUNNING", "HELD"}

\* What it leaves a thing in
Effect(x) ==
  CASE command = "cancel" -> IF TypeOf[x] = "wr" THEN "CANCELLING" ELSE Over
    [] command = "shutdown" -> Over
    [] command = "start" -> "RUNNING"
    [] command = "hold" -> "HELD"
    [] command = "finish" -> "FINISHING"

FirstTypes == {"wr", "pool"}

\* by_type(): Work Requirements, then Tasks; Worker Pools, then Nodes
InOrder(s) ==
  Arranged(s, DOMAIN s, [i \in DOMAIN s |-> IF TypeOf[s[i]] \in FirstTypes THEN 0 ELSE 1])

Goes(to) == pc' = to /\ UNCHANGED exit
Ends(code) == pc' = "exit" /\ exit' = code
Rows(s, what, outcome) == [k \in DOMAIN s |-> [of |-> s[k], what |-> what, outcome |-> outcome]]
Tells(x, what, outcome) == records' = records \o Rows(<<x>>, what, outcome)
Causes(code) == causes' = Append(causes, code)

\* What a command line can reach; the rest is as good as over
Concerned(x) == IF targets = <<>> THEN TypeOf[x] = (IF command = "shutdown" THEN "pool" ELSE "wr")
                ELSE \E k \in DOMAIN targets : x \in targets[k].of

Init ==
  /\ \E l \in CommandLines : command = l.command /\ targets = l.targets
  /\ abort \in BOOLEAN /\ (abort => command = "cancel")
  /\ terminate \in BOOLEAN /\ (terminate => command = "shutdown")
  /\ follow \in BOOLEAN
  /\ pc = "expand" /\ left = targets /\ listed = <<>> /\ items = <<>> /\ acted = <<>>
  /\ fetched = [x \in Things |-> "none"]
  /\ records = <<>> /\ causes = <<>> /\ followed = {}
  /\ exit = Unset
  /\ status \in [Things -> {"RUNNING", "HELD", "CANCELLING", Over}]
  /\ \A x \in Things : status[x] \in Statuses(x)
  /\ cr \in [Things -> {"none", "RUNNING"}]
  /\ \A x \in Things : TypeOf[x] # "pool" \/ command # "shutdown" => cr[x] = "none"
  /\ \A x \in Things : ~Concerned(x) => status[x] = Over
  /\ did = {}
-----------------------------------------------------------------------------
(* What is to be acted on. *)

\* With patterns alone, or no targets, those that match are listed, and selected from
Listing == \A k \in DOMAIN targets : targets[k].by = "pattern"

List ==
  /\ pc = "expand" /\ Listing
  /\ \E chosen \in SUBSET Things :
       /\ \A x \in chosen :
            /\ Applies(x, status[x])
            /\ TypeOf[x] \in FirstTypes
            /\ targets = <<>> \/ (\E k \in DOMAIN targets : x \in targets[k].of)
       /\ items' = SetToSeq(chosen)
       /\ fetched' = [x \in Things |-> IF x \in chosen THEN status[x] ELSE "none"]
  /\ listed' = items' /\ left' = <<>>
  /\ Goes(IF items' = <<>> THEN "return" ELSE "confirm")
  /\ UNCHANGED <<line, acted, followed, told, platform>>

Expanding == pc = "expand" /\ ~Listing /\ left # <<>>

\* expand_patterns(): a name is kept, and a pattern that matches none adds none
Expand ==
  /\ Expanding
  /\ listed' = listed \o
       (IF Head(left).by = "name" THEN SetToSeq(Head(left).of)
        ELSE SetToSeq({x \in Head(left).of : Applies(x, status[x])}))
  /\ left' = Tail(left)
  /\ UNCHANGED <<line, pc, items, fetched, acted, followed, told, exit, platform>>

\* One that cannot be read, or whose parent does not exist, fails alone
ExpandFails(code) ==
  /\ Expanding /\ Head(left).by = "pattern"
  /\ code \in {FAILURE, NOT_FOUND}
  /\ Tells("pattern", "target", "failed") /\ Causes(code)
  /\ left' = Tail(left)
  /\ UNCHANGED <<line, pc, listed, items, fetched, acted, followed, exit, platform>>

Once(s) == Picked(s, Firsts(s))

Expanded ==
  /\ pc = "expand" /\ ~Listing /\ left = <<>>
  /\ left' = Once(listed)
  /\ Goes("resolve")
  /\ UNCHANGED <<line, listed, items, fetched, acted, followed, told, platform>>

\* Any other failure of a search is the run's
SearchFails(code) ==
  /\ pc = "expand"
  /\ Listing \/ (left # <<>> /\ Head(left).by = "pattern")
  /\ Ends(code)
  /\ UNCHANGED <<line, run, told, platform>>

\* _resolve(): the thing as it is now
Resolve ==
  /\ pc = "resolve" /\ left # <<>>
  /\ LET x == Head(left) IN
       /\ Applies(x, status[x])
       /\ items' = Append(items, x)
       /\ fetched' = [fetched EXCEPT ![x] = status[x]]
  /\ left' = Tail(left)
  /\ UNCHANGED <<line, pc, listed, acted, followed, told, exit, platform>>

\* Unresolved: one in another state is skipped
ResolveSkips ==
  /\ pc = "resolve" /\ left # <<>>
  /\ ~Applies(Head(left), status[Head(left)])
  /\ Tells(Head(left), "thing", "skipped")
  /\ left' = Tail(left)
  /\ UNCHANGED <<line, pc, listed, items, fetched, acted, followed, causes, exit, platform>>

ResolveFails(code) ==
  /\ pc = "resolve" /\ left # <<>>
  /\ Causes(code)
  /\ left' = Tail(left)
  /\ records' = records \o Rows(<<Head(left)>>, "thing", "failed") \o
       (IF code \in SESSION_FAILURES
        THEN Rows(InOrder(items) \o Tail(left), "thing", "skipped") ELSE <<>>)
  /\ IF code \in SESSION_FAILURES THEN Ends(code) ELSE Goes(pc)
  /\ UNCHANGED <<line, listed, items, fetched, acted, followed, platform>>

Resolved ==
  /\ pc = "resolve" /\ left = <<>>
  /\ items' = InOrder(items)
  /\ Goes(IF items = <<>> THEN "return" ELSE "confirm")
  /\ UNCHANGED <<line, left, listed, fetched, acted, followed, told, platform>>

Confirm ==
  /\ pc = "confirm"
  /\ \/ Goes("act") /\ UNCHANGED <<items, records>>
     \/ /\ records' = records \o Rows(items, "thing", "skipped")
        /\ items' = <<>>
        /\ Goes("return")
  /\ UNCHANGED <<line, left, listed, fetched, acted, followed, causes, platform>>
-----------------------------------------------------------------------------
(* What is done. *)

This == Head(items)
Acting == pc = "act" /\ items # <<>>

\* External: the request is carried out, if it can apply to the thing as it is now
CarriedOut ==
  /\ status[This] # Over
  /\ status' = [status EXCEPT ![This] = Effect(This)]
  /\ did' = did \cup {<<This, "acted">>}

\* The request is carried out, and its answer comes
Act ==
  /\ Acting
  /\ CarriedOut
  /\ Tells(This, "thing", IF command = "cancel" /\ fetched[This] = "CANCELLING"
                          THEN "aborted" ELSE "done")
  /\ acted' = Append(acted, This)
  /\ IF terminate /\ TypeOf[This] = "pool"
     THEN Goes("terminate") /\ UNCHANGED items
     ELSE Goes(pc) /\ items' = Tail(items)
  /\ UNCHANGED <<line, left, listed, fetched, followed, causes, cr>>

\* A failure of the session leaves those after it unattempted
Stopped(what, x, code) ==
  /\ records' = records \o Rows(<<x>>, what, "failed") \o
       (IF code \in SESSION_FAILURES THEN Rows(Tail(items), "thing", "skipped") ELSE <<>>)
  /\ Causes(code)
  /\ items' = Tail(items)
  /\ IF code \in SESSION_FAILURES THEN Ends(code) ELSE Goes("act")

\* Mutant: a request that fails is told to the user alone.
ActFails_Unrecorded(code) ==
  /\ Acting
  /\ CarriedOut \/ UNCHANGED <<status, did>>
  /\ IF code \in SESSION_FAILURES THEN Ends(code) ELSE Goes("act")
  /\ items' = Tail(items)
  /\ UNCHANGED <<line, left, listed, fetched, acted, followed, told, cr>>

\* It is refused, or its answer is lost, whether or not it was carried out
ActFails(code) ==
  /\ Acting
  /\ CarriedOut \/ UNCHANGED <<status, did>>
  /\ Stopped("thing", This, code)
  /\ UNCHANGED <<line, left, listed, fetched, acted, followed, cr>>

Terminating == pc = "terminate"

\* A Configured Worker Pool has no Compute Requirement
TerminateNone ==
  /\ Terminating /\ cr[This] = "none"
  /\ items' = Tail(items)
  /\ Goes("act")
  /\ UNCHANGED <<line, left, listed, fetched, acted, followed, told, platform>>

\* External: the Compute Requirement is terminated
Terminated ==
  /\ cr[This] # "none"
  /\ cr' = [cr EXCEPT ![This] = "TERMINATED"]
  /\ did' = did \cup {<<This, "terminated">>}

Terminate ==
  /\ Terminating
  /\ Terminated
  /\ Tells(This, "termination", "done")
  /\ items' = Tail(items)
  /\ Goes("act")
  /\ UNCHANGED <<line, left, listed, fetched, acted, followed, causes, status>>

\* Mutant: a failed termination is told to the user alone.
TerminateFails_Unrecorded(code) ==
  /\ Terminating /\ (Listing \/ cr[This] # "none")
  /\ Terminated \/ UNCHANGED <<cr, did>>
  /\ IF code \in SESSION_FAILURES THEN Ends(code) ELSE Goes("act")
  /\ items' = Tail(items)
  /\ UNCHANGED <<line, left, listed, fetched, acted, followed, told, status>>

\* The termination fails, or its answer is lost, or a listed Worker Pool cannot be fetched
TerminateFails(code) ==
  /\ Terminating /\ (Listing \/ cr[This] # "none")
  /\ Terminated \/ UNCHANGED <<cr, did>>
  /\ Stopped("termination", This, code)
  /\ UNCHANGED <<line, left, listed, fetched, acted, followed, status>>

Acted ==
  /\ pc = "act" /\ items = <<>>
  /\ followed' = IF follow THEN {x \in ToSet(acted) : TypeOf[x] \in FirstTypes} ELSE {}
  /\ Goes("return")
  /\ UNCHANGED <<line, left, listed, items, fetched, acted, told, platform>>

\* failure_exit_code(); what is followed may fail too
Return(code) ==
  /\ pc = "return"
  /\ LET failed == {k \in DOMAIN records : records[k].outcome = "failed"} IN
       Ends(IF failed = {} THEN (IF followed = {} THEN SUCCESS ELSE code)
            ELSE IF Cardinality(failed) = Len(causes) /\ \A k \in DOMAIN causes : causes[k] = causes[1]
            THEN causes[1] ELSE FAILURE)
  /\ UNCHANGED <<line, run, told, platform>>

\* External: a thing moves on
Moves(x) ==
  /\ exit = Unset
  /\ status[x] # Over
  /\ status' = [status EXCEPT ![x] = CASE @ = "HELD" -> "RUNNING"
                                       [] @ = "RUNNING" /\ TypeOf[x] = "wr" -> "CANCELLING"
                                       [] OTHER -> Over]
  /\ UNCHANGED <<line, pc, run, told, exit, cr, did>>

Next ==
  \/ List \/ Expand \/ Expanded \/ Resolve \/ ResolveSkips \/ Resolved \/ Confirm
  \/ Act \/ TerminateNone \/ Terminate \/ Acted
  \/ \E code \in Codes : \/ ExpandFails(code) \/ SearchFails(code) \/ ResolveFails(code)
                         \/ ActFails(code) \/ TerminateFails(code)
  \/ \E code \in Codes \cup {SUCCESS} : Return(code)
  \/ \E x \in Things : Moves(x)

Spec == Init /\ [][Next]_vars
-----------------------------------------------------------------------------
(* What it is meant to ensure. *)

Count(x, what, outcomes) ==
  Cardinality({k \in DOMAIN records :
    records[k].what = what /\ records[k].of = x /\ records[k].outcome \in outcomes})

\* What is recorded is what was done: a thing recorded as acted on, or whose Compute
\* Requirement is recorded as terminated, was; whatever the Platform did at the run's
\* request is recorded as done, or as failed where its answer did not come, never as
\* skipped and never left out; nothing is recorded twice; and when the run ends, unless
\* a search failed, every thing named or selected is recorded, and every termination of
\* a pool recorded as shut down.
ToldAsDone ==
  /\ \A x \in Things :
       /\ Count(x, "thing", {"done", "aborted"}) = 1 => <<x, "acted">> \in did
       /\ <<x, "acted">> \in did => Count(x, "thing", {"done", "aborted", "failed"}) = 1
       /\ Count(x, "termination", {"done"}) = 1 => <<x, "terminated">> \in did
       /\ <<x, "terminated">> \in did => Count(x, "termination", {"done", "failed"}) = 1
       /\ Count(x, "thing", Outcomes) <= 1 /\ Count(x, "termination", Outcomes) <= 1
       /\ Count(x, "thing", {"aborted"}) = 1 => abort /\ fetched[x] = "CANCELLING"
  /\ exit # Unset /\ left = <<>> =>
       \A x \in ToSet(listed) :
         /\ Count(x, "thing", Outcomes) = 1
         /\ terminate /\ Count(x, "thing", {"done"}) = 1 /\ cr[x] # "none" =>
              Count(x, "termination", {"done", "failed"}) = 1

\* A run that exits with 0 left nothing undone that it was to do: what it acted on is
\* followed, and a pool shut down with '--terminate' has no running Compute
\* Requirement; and a Work Requirement being cancelled is cancelled again only to
\* abort its Tasks.
DoneMeansDone ==
  /\ exit = SUCCESS =>
       /\ follow /\ acted # <<>> => followed = {x \in ToSet(acted) : TypeOf[x] \in FirstTypes}
       /\ \A x \in ToSet(acted) : terminate /\ TypeOf[x] = "pool" => cr[x] # "RUNNING"
       /\ \A k \in DOMAIN records : records[k].outcome # "failed"
  /\ \A x \in ToSet(acted) : command = "cancel" /\ fetched[x] = "CANCELLING" => abort
-----------------------------------------------------------------------------
(* Why it does. *)

Sorts == [of : Things \cup {"pattern"}, what : Whats, outcome : Outcomes]
Told(x, what, outcomes) ==
  \E k \in DOMAIN records :
    records[k].what = what /\ records[k].of = x /\ records[k].outcome \in outcomes
Distinct(s) == \A i, j \in DOMAIN s : s[i] = s[j] => i = j

\* What is still to be recorded
Todo ==
  CASE pc = "resolve" -> ToSet(items) \cup ToSet(left)
    [] pc \in {"confirm", "act"} -> ToSet(items)
    [] pc = "terminate" -> ToSet(Tail(items))
    [] OTHER -> {}

\* Each thing is resolved once and is to be acted on once
ItemsInv ==
  /\ listed \in Seq(Things) /\ items \in Seq(Things) /\ acted \in Seq(Things)
  /\ pc \in {"expand", "resolve", "confirm", "act", "terminate", "return", "exit"}
  /\ pc = "expand" => /\ left \in Seq([by : {"name", "pattern"}, of : SUBSET Things])
                      /\ items = <<>> /\ (Listing => listed = <<>>)
  /\ pc = "resolve" => left \in Seq(Things) /\ Distinct(left) /\ ToSet(left) \cap ToSet(items) = {}
  /\ pc \in {"confirm", "act", "terminate", "return"} => left = <<>>
  /\ pc = "terminate" => items # <<>>
  /\ Distinct(items)

\* Each is recorded once, unless it is still to be
RecordsInv ==
  /\ records \in Seq(Sorts)
  /\ \A j, k \in DOMAIN records :
       /\ records[j].what # "target" /\ records[j].what = records[k].what
       /\ records[j].of = records[k].of
       => j = k
  /\ pc = "expand" => \A k \in DOMAIN records : records[k].what = "target"
  /\ \A x \in Todo : ~Told(x, "thing", Outcomes)
  /\ \A x \in Things : Told(x, "termination", Outcomes) => Told(x, "thing", Outcomes)
  /\ pc = "terminate" => ~Told(This, "termination", Outcomes)
  /\ pc # "expand" /\ (pc = "exit" => left = <<>>) =>
       \A x \in ToSet(listed) : x \in Todo \/ Told(x, "thing", Outcomes)

\* What is recorded of the things acted on
DoneInv ==
  /\ did \subseteq Things \X {"acted", "terminated"}
  /\ \A x \in Things :
       /\ x \in ToSet(acted) <=> Told(x, "thing", {"done", "aborted"})
       /\ x \in ToSet(acted) => <<x, "acted">> \in did
       /\ <<x, "acted">> \in did => Told(x, "thing", {"done", "aborted", "failed"})
       /\ Told(x, "termination", {"done"}) => <<x, "terminated">> \in did
       /\ <<x, "terminated">> \in did => Told(x, "termination", {"done", "failed"})
       /\ Told(x, "thing", {"aborted"}) => abort /\ fetched[x] = "CANCELLING"
  /\ pc \in {"expand", "resolve", "confirm"} => acted = <<>>
  /\ pc = "terminate" => This \in ToSet(acted)

\* A Work Requirement that is being cancelled is one to abort
AbortInv ==
  /\ command \in {"cancel", "shutdown", "start", "hold", "finish"}
  /\ fetched \in [Things -> {"none", "RUNNING", "HELD", "FINISHING", "CANCELLING", Over}]
  /\ status \in [Things -> {"RUNNING", "HELD", "FINISHING", "CANCELLING", Over}]
  /\ \A x \in Things : status[x] = "CANCELLING" => TypeOf[x] = "wr"
  /\ \A x \in ToSet(items) \cup ToSet(acted) :
       command = "cancel" /\ fetched[x] = "CANCELLING" => abort

\* What became of the Compute Requirement of each pool that was shut down
TerminatedInv ==
  /\ cr \in [Things -> {"none", "RUNNING", "TERMINATED"}]
  /\ \A x \in Things : cr[x] # "none" => TypeOf[x] = "pool"
  /\ \A x \in ToSet(acted) :
       terminate /\ TypeOf[x] = "pool" =>
         \/ pc = "terminate" /\ x = This
         \/ cr[x] = "none"
         \/ cr[x] = "TERMINATED" /\ Told(x, "termination", {"done"})
         \/ Told(x, "termination", {"failed"})

\* A run ends with 0 if nothing failed
EndsInv ==
  /\ causes \in Seq(Codes)
  /\ exit # Unset <=> pc = "exit"
  /\ pc = "return" \/ exit = SUCCESS =>
       (follow /\ acted # <<>> => followed = {x \in ToSet(acted) : TypeOf[x] \in FirstTypes})
  /\ exit = SUCCESS => \A k \in DOMAIN records : records[k].outcome # "failed"

IInv == ItemsInv /\ RecordsInv /\ DoneInv /\ AbortInv /\ TerminatedInv /\ EndsInv
=============================================================================
