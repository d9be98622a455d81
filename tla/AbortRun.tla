------------------------------- MODULE AbortRun -------------------------------
(***************************************************************************)
(* A run of 'yd task abort' with targets (abort.py): each is a unit of     *)
(* work, a Work Requirement or a Task Group whose running Tasks are listed *)
(* and aborted, but that the Tasks given by their IDs are one unit.  Each  *)
(* unit's Tasks are chosen and confirmed, unless '--yes'.  A Task that is  *)
(* in more than one is handled once; a failure of the session stops the    *)
(* run, and what is left is recorded as not attempted.                     *)
(*                                                                         *)
(* The order in which a unit's Tasks are aborted is left open.             *)
(***************************************************************************)
EXTENDS Integers, Sequences, FiniteSets

CONSTANTS
  Task,
  Unit,              \* the targets' units, in order: [parent, tasks], where parent
                     \* is a Work Requirement or Task Group, or None for Task IDs
  None,
  Codes              \* the exit codes of failures, of 1, 4, 5, 6, 7 and 8

SESSION_FAILURES == {4, 8}
Parents == {Unit[i].parent : i \in 1 .. Len(Unit)} \ {None}

Parameters ==
  /\ Len(Unit) \in Nat
  /\ \A i \in 1 .. Len(Unit) : Unit[i].tasks \subseteq Task
  /\ None \notin Parents /\ Parents \cap Task = {}
  /\ Codes \subseteq {1, 4, 5, 6, 7, 8}

Recorded == Task \cup Parents
Outcomes == {"aborted", "failed", "unselected", "declined", "nothing", "not attempted"}

VARIABLES
  yes,               \* '--yes'
  pc,                \* where the run is
  index,             \* the unit being done
  tasks,             \* its Tasks, fetched or yet to be handled
  unfetched,         \* the Task IDs yet to be fetched
  handled,           \* run.handled
  records,           \* records[x]: the outcomes recorded of x; all but the
                     \* first two of Outcomes are of "skipped"
  cause,             \* of the session's failure that stopped the run, or 0
  attempts,          \* for the properties: cancel_task() calls for each Task
  listed,            \* for the properties: the Tasks that each parent listed
  running            \* external: the Tasks running on Workers

state == <<yes, pc, index, tasks, unfetched, handled, records, cause>>
vars == <<state, attempts, listed, running>>

TypeOK ==
  /\ yes \in BOOLEAN
  /\ pc \in {"unit", "fetch", "choose", "abort", "exit"}
  /\ index \in 1 .. Len(Unit) + 1
  /\ tasks \subseteq Task /\ unfetched \subseteq Task
  /\ handled \subseteq Task
  /\ records \in [Recorded -> [Outcomes -> Nat]]
  /\ cause \in {0} \cup SESSION_FAILURES
  /\ attempts \in [Task -> Nat]
  /\ listed \in [Parents -> SUBSET Task]
  /\ running \subseteq Task
  /\ pc \in {"choose", "abort"} => tasks # {} /\ (pc = "choose" => tasks \cap handled = {})

Init ==
  /\ yes \in BOOLEAN
  /\ pc = "unit" /\ index = 1 /\ tasks = {} /\ unfetched = {} /\ handled = {}
  /\ records = [x \in Recorded |-> [o \in Outcomes |-> 0]]
  /\ cause = 0
  /\ attempts = [t \in Task |-> 0]
  /\ listed = [p \in Parents |-> {}]
  /\ running \in SUBSET Task

\* _record(), of each of xs
With(recs, xs, o) == [x \in Recorded |-> IF x \in xs THEN [recs[x] EXCEPT ![o] = @ + 1]
                                         ELSE recs[x]]
Records(xs, o) == records' = With(records, xs, o)

Times(x, o) == records[x][o]
Recs(x) == Times(x, "aborted") + Times(x, "failed") + Times(x, "unselected")
           + Times(x, "declined") + Times(x, "nothing") + Times(x, "not attempted")

\* The entities of the unit i, as recorded if it fails or is not attempted
Entities(i) == IF Unit[i].parent = None THEN Unit[i].tasks ELSE {Unit[i].parent}

NextUnit == pc' = "unit" /\ index' = index + 1 /\ tasks' = {} /\ unfetched' = {}

\* Mutant: the targets after the one under way are forgotten.
Stops_Forgets(recs, code) ==
  /\ records' = recs
  /\ pc' = "exit" /\ cause' = code
  /\ UNCHANGED <<index, tasks, unfetched>>

\* _run_units(): the units left are recorded, and nothing further is attempted
Stops(recs, code) ==
  /\ records' = With(recs, UNION {Entities(i) : i \in index + 1 .. Len(Unit)},
                     "not attempted")
  /\ pc' = "exit" /\ cause' = code
  /\ UNCHANGED <<index, tasks, unfetched>>
-----------------------------------------------------------------------------
(* The units. *)

\* _abort_tasks(), of those not yet handled
Takes(found) ==
  IF found \subseteq handled THEN NextUnit
  ELSE /\ tasks' = found \ handled
       /\ pc' = IF yes THEN "abort" ELSE "choose"
       /\ UNCHANGED <<index, unfetched>>

\* Mutant: what an earlier target handled is taken again.
List_Again(p) ==
  /\ pc = "unit" /\ index <= Len(Unit) /\ Unit[index].parent = p /\ p # None
  /\ LET found == Unit[index].tasks \cap running IN
       /\ listed' = [listed EXCEPT ![p] = @ \cup found]
       /\ IF found = {} THEN Records({p}, "nothing") /\ NextUnit
          ELSE /\ tasks' = found
               /\ pc' = IF yes THEN "abort" ELSE "choose"
               /\ UNCHANGED <<records, index, unfetched>>
  /\ UNCHANGED <<yes, handled, cause, attempts, running>>

\* _abort_in_work_requirement() and _abort_in_task_group()
List(p) ==
  /\ pc = "unit" /\ index <= Len(Unit) /\ Unit[index].parent = p /\ p # None
  /\ LET found == Unit[index].tasks \cap running IN
       /\ listed' = [listed EXCEPT ![p] = @ \cup found]
       /\ IF found = {} THEN Records({p}, "nothing") /\ NextUnit
          ELSE Takes(found) /\ UNCHANGED records
  /\ UNCHANGED <<yes, handled, cause, attempts, running>>

\* It is not found, or cannot be listed
ListFails(p, code) ==
  /\ pc = "unit" /\ index <= Len(Unit) /\ Unit[index].parent = p /\ p # None
  /\ LET recs == With(records, {p}, "failed") IN
       IF code \in SESSION_FAILURES THEN Stops(recs, code)
       ELSE records' = recs /\ NextUnit /\ UNCHANGED cause
  /\ UNCHANGED <<yes, handled, attempts, listed, running>>

\* _abort_tasks_by_id()
FetchIDs ==
  /\ pc = "unit" /\ index <= Len(Unit) /\ Unit[index].parent = None
  /\ pc' = "fetch" /\ unfetched' = Unit[index].tasks
  /\ UNCHANGED <<yes, index, tasks, handled, records, cause, attempts, listed, running>>

Fetch(t) ==
  /\ pc = "fetch" /\ t \in unfetched
  /\ unfetched' = unfetched \ {t}
  /\ tasks' = tasks \cup {t}
  /\ UNCHANGED <<yes, pc, index, handled, records, cause, attempts, listed, running>>

\* A failure of the session records those fetched and those not
FetchFails(t, code) ==
  /\ pc = "fetch" /\ t \in unfetched
  /\ LET recs == With(records, {t}, "failed")
         left == tasks \cup (unfetched \ {t}) IN
       IF code \in SESSION_FAILURES
       THEN /\ Stops(With(recs, left, "not attempted"), code)
            /\ handled' = handled \cup {t} \cup left
       ELSE /\ records' = recs
            /\ handled' = handled \cup {t}
            /\ unfetched' = unfetched \ {t}
            /\ UNCHANGED <<pc, index, tasks, cause>>
  /\ UNCHANGED <<yes, attempts, listed, running>>

Fetched ==
  /\ pc = "fetch" /\ unfetched = {}
  /\ Takes(tasks)
  /\ UNCHANGED <<yes, handled, records, cause, attempts, listed, running>>
-----------------------------------------------------------------------------
(* The Tasks of a unit. *)

\* Mutant: a Task that is declined is not handled.
Choose_AskedAgain(selected, confirm) ==
  /\ pc = "choose" /\ selected \subseteq tasks
  /\ confirm => selected # {}
  /\ LET recs == With(records, tasks \ selected, "unselected") IN
       IF confirm THEN /\ records' = recs
                       /\ tasks' = selected
                       /\ pc' = "abort"
                       /\ UNCHANGED <<index, unfetched>>
       ELSE /\ records' = With(recs, selected, "declined")
            /\ NextUnit
  /\ UNCHANGED <<yes, handled, cause, attempts, listed, running>>

\* select() and confirmed(): the rest, or all, are skipped
Choose(selected, confirm) ==
  /\ pc = "choose" /\ selected \subseteq tasks
  /\ confirm => selected # {}
  /\ LET recs == With(records, tasks \ selected, "unselected") IN
       IF confirm THEN /\ records' = recs
                       /\ handled' = handled \cup (tasks \ selected)
                       /\ tasks' = selected
                       /\ pc' = "abort"
                       /\ UNCHANGED <<index, unfetched>>
       ELSE /\ records' = With(recs, selected, "declined")
            /\ handled' = handled \cup tasks
            /\ NextUnit
  /\ UNCHANGED <<yes, cause, attempts, listed, running>>

\* Stdin is at its end: NoAnswerToPrompt, raised to the top
NoAnswer ==
  /\ pc = "choose"
  /\ pc' = "exit"
  /\ UNCHANGED <<yes, index, tasks, unfetched, handled, records, cause, attempts, listed,
                 running>>

Attempt(t) ==
  /\ pc = "abort" /\ t \in tasks
  /\ attempts' = [attempts EXCEPT ![t] = @ + 1]

Rest(t) == IF tasks = {t} THEN NextUnit
           ELSE tasks' = tasks \ {t} /\ UNCHANGED <<pc, index, unfetched>>

\* cancel_task(abort=True): the Task ends, in its own time
Abort(t) ==
  /\ Attempt(t)
  /\ handled' = handled \cup {t}
  /\ Records({t}, "aborted")
  /\ Rest(t)
  /\ UNCHANGED <<yes, cause, listed, running>>

AbortFails(t, code) ==
  /\ Attempt(t)
  /\ LET recs == With(records, {t}, "failed")
         left == tasks \ {t} IN
       IF code \in SESSION_FAILURES
       THEN /\ Stops(With(recs, left, "not attempted"), code)
            /\ handled' = handled \cup tasks
       ELSE /\ records' = recs
            /\ handled' = handled \cup {t}
            /\ Rest(t) /\ UNCHANGED cause
  /\ UNCHANGED <<yes, listed, running>>

Done ==
  /\ pc = "unit" /\ index > Len(Unit)
  /\ pc' = "exit"
  /\ UNCHANGED <<yes, index, tasks, unfetched, handled, records, cause, attempts, listed,
                 running>>

\* External: a Task finishes, aborted or not
Finishes(t) ==
  /\ t \in running
  /\ running' = running \ {t}
  /\ UNCHANGED <<state, attempts, listed>>

Next ==
  \/ FetchIDs \/ Fetched \/ NoAnswer \/ Done
  \/ \E p \in Parents : List(p) \/ \E code \in Codes : ListFails(p, code)
  \/ \E selected \in SUBSET tasks, confirm \in BOOLEAN : Choose(selected, confirm)
  \/ \E t \in Task : \/ Fetch(t) \/ Abort(t) \/ Finishes(t)
                     \/ \E code \in Codes : FetchFails(t, code) \/ AbortFails(t, code)

Spec == Init /\ [][Next]_vars
-----------------------------------------------------------------------------
(* What it is meant to ensure. *)

\* "A Task included by more than one target is aborted once": it is attempted
\* once, whatever happened to it the first time.
AttemptedOnce == \A t \in Task : attempts[t] <= 1

\* A Task that the user left out, or declined to abort, is not aborted for
\* another target that includes it.
LeftOut(t) == Times(t, "unselected") + Times(t, "declined") > 0
LeftOutKept == \A t \in Task : LeftOut(t) => attempts[t] = 0

\* Once the run has ended, unless for want of an answer, every target is told
\* of: by its own record, or by those of all the Tasks it listed.
Told(x) == Recs(x) > 0
Unanswered == index <= Len(Unit) /\ cause = 0
EveryTargetTold ==
  pc = "exit" /\ ~Unanswered =>
    \A i \in 1 .. Len(Unit) :
      IF Unit[i].parent = None THEN \A t \in Unit[i].tasks : Told(t)
      ELSE Told(Unit[i].parent)
           \/ (listed[Unit[i].parent] # {} /\ \A t \in listed[Unit[i].parent] : Told(t))
=============================================================================
