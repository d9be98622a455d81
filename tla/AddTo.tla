--------------------------------- MODULE AddTo ---------------------------------
(***************************************************************************)
(* Numbering the Tasks that '--add-to' adds to an existing Task Group      *)
(* (_settled_source(), submit.py).  They are numbered on from the Tasks it *)
(* holds, but the count of those in its summary lags behind: so the group  *)
(* is searched for the name of the first new Task, and while that is taken *)
(* the count is waited for.  Tasks without names are counted instead.      *)
(*                                                                         *)
(* A Task's name holds its number, zero-padded to the width of the total   *)
(* (formatted_number_str()): two names are one if both are the same.       *)
(***************************************************************************)
EXTENDS Integers, FiniteSets

CONSTANTS
  Before,            \* the names that the Task Group may hold: a set of sets of them
  Adding,            \* the Tasks to add
  OtherAdding,       \* those that another run of '--add-to' may add meanwhile
  MaxPolls           \* TASK_COUNT_UPDATE_WAIT, in polls

Parameters ==
  /\ Before \subseteq SUBSET [number : Nat \ {0}, width : {1, 2}]
  /\ Adding \in 1 .. 40 /\ OtherAdding \in 0 .. 40
  /\ MaxPolls \in Nat \ {0}

VARIABLES
  named,             \* whether the Tasks have names (setTaskNames)
  pc,                \* where the run is
  count,             \* position.existing_tasks
  polls,             \* the polls since the wait began
  added,             \* those of its Tasks added, counted from 0
  held,              \* external: the Tasks that the Task Group holds
  summary,           \* external: the count in its summary
  others             \* external: the Tasks that the other run has added

mine == <<named, pc, count, polls, added>>
vars == <<mine, held, summary, others>>

\* len(str(n)), below 100
Width(n) == IF n < 10 THEN 1 ELSE 2

\* The name of the k-th Task added, counted from 0
Name(k) == [number |-> count + k + 1, width |-> Width(count + Adding)]

\* Tasks without names are told apart by who added them
By(who, name) == [who |-> who, number |-> name.number, width |-> name.width]
HasName(name) == \E t \in held : t.number = name.number /\ t.width = name.width

\* Numbered from 1, without a gap
Gapless(tasks) == {t.number : t \in tasks} = 1 .. Cardinality(tasks)

TypeOK ==
  /\ named \in BOOLEAN
  /\ pc \in {"plan", "count", "check", "poll", "add", "done", "refused", "failed"}
  /\ count \in 0 .. Cardinality(held)
  /\ polls \in 0 .. MaxPolls
  /\ added \subseteq 0 .. Adding - 1
  /\ held \subseteq [who : {"before", "run", "other"}, number : 1 .. 99, width : {1, 2}]
  /\ summary \in 0 .. Cardinality(held)
  /\ others \in 0 .. OtherAdding

Init ==
  /\ named \in BOOLEAN
  /\ pc = "plan" /\ count = 0 /\ polls = 0 /\ added = {}
  /\ held \in {{By("before", name) : name \in names} : names \in Before}
  /\ summary \in 0 .. Cardinality(held)
  /\ others = 0
-----------------------------------------------------------------------------
(* The Platform. *)

\* The summary catches up, perhaps in steps
SummaryUpdates ==
  /\ \E n \in summary + 1 .. Cardinality(held) : summary' = n
  /\ UNCHANGED <<mine, held, others>>

\* Another run, that counted right, adds its next Task, unless it is refused
First == Cardinality({t \in held : t.who = "before"})
OtherName == [number |-> First + others + 1, width |-> Width(First + OtherAdding)]
OtherAdds ==
  /\ others < OtherAdding
  /\ ~named \/ ~HasName(OtherName)
  /\ held' = held \cup {By("other", OtherName)}
  /\ others' = others + 1
  /\ UNCHANGED <<mine, summary>>
-----------------------------------------------------------------------------
(* _settled_source() *)

\* _plan_extension(): from the Work Requirement's Task Group, as fetched
Plan ==
  /\ pc = "plan"
  /\ count' = summary
  /\ pc' = IF named THEN "check" ELSE "count"
  /\ UNCHANGED <<named, polls, added, held, summary, others>>

\* count_tasks_in_task_group()
CountTasks ==
  /\ pc = "count"
  /\ count' = Cardinality(held)
  /\ pc' = "add"
  /\ UNCHANGED <<named, polls, added, held, summary, others>>

\* Mutant: the name is not looked for.
Free_NotChecked ==
  /\ pc = "check"
  /\ pc' = "add"
  /\ UNCHANGED <<named, count, polls, added, held, summary, others>>

\* task_name_taken()
Free ==
  /\ pc = "check" /\ ~HasName(Name(0))
  /\ pc' = "add"
  /\ UNCHANGED <<named, count, polls, added, held, summary, others>>

Taken ==
  /\ pc = "check" /\ HasName(Name(0))
  /\ pc' = "poll" /\ polls' = 0
  /\ UNCHANGED <<named, count, added, held, summary, others>>

\* Mutant: a count that has changed is trusted.
Poll_Trusted ==
  /\ pc = "poll" /\ polls < MaxPolls
  /\ IF summary # count
     THEN count' = summary /\ pc' = "add" /\ UNCHANGED polls
     ELSE polls' = polls + 1 /\ UNCHANGED <<pc, count>>
  /\ UNCHANGED <<named, added, held, summary, others>>

\* Mutant: the polls are not counted.
Poll_ForEver ==
  /\ pc = "poll"
  /\ IF summary # count
     THEN count' = summary /\ pc' = "check"
     ELSE UNCHANGED <<pc, count>>
  /\ UNCHANGED <<named, polls, added, held, summary, others>>

\* _changed_task_count(), and _renumbered()
Poll ==
  /\ pc = "poll" /\ polls < MaxPolls
  /\ IF summary # count
     THEN count' = summary /\ pc' = "check" /\ UNCHANGED polls
     ELSE polls' = polls + 1 /\ UNCHANGED <<pc, count>>
  /\ UNCHANGED <<named, added, held, summary, others>>

StoodStill ==
  /\ pc = "poll" /\ polls = MaxPolls
  /\ pc' = "refused"
  /\ UNCHANGED <<named, count, polls, added, held, summary, others>>
-----------------------------------------------------------------------------
(* The Tasks are added, in batches of one, in any order. *)

AddTask(k) ==
  /\ pc = "add" /\ k \notin added
  /\ IF named /\ HasName(Name(k))
     THEN pc' = "failed" /\ UNCHANGED <<added, held>>
     ELSE /\ held' = held \cup {By("run", Name(k))}
          /\ added' = added \cup {k}
          /\ UNCHANGED pc
  /\ UNCHANGED <<named, count, polls, summary, others>>

Added ==
  /\ pc = "add" /\ added = 0 .. Adding - 1
  /\ pc' = "done"
  /\ UNCHANGED <<named, count, polls, added, held, summary, others>>

Run ==
  \/ Plan \/ CountTasks \/ Free \/ Taken \/ Poll \/ StoodStill \/ Added
  \/ \E k \in 0 .. Adding - 1 : AddTask(k)

Next == Run \/ SummaryUpdates \/ OtherAdds

Spec == Init /\ [][Next]_vars /\ WF_vars(Run)
-----------------------------------------------------------------------------
(* What it is meant to ensure. *)

\* "Tasks for an existing Task Group are added to it, numbered on from its
\* existing Tasks": they are numbered from the Tasks it holds, however far its
\* summary lags, once the run goes on to add them.  Of a Task Group numbered
\* without gaps.
Numbered == pc # "add" /\ pc' = "add" /\ Gapless(held) => count' = Cardinality(held)
NumberedOn == [][Numbered]_vars

\* A submission is refused before it adds anything, not part-way, unless another
\* run adds Tasks to the group meanwhile, or its numbers have a gap: what an
\* earlier upload that failed part-way leaves.
RefusedWhole ==
  pc = "failed" => others > 0 \/ ~Gapless({t \in held : t.who = "before"})

\* The run always ends, whatever the summary does.
Ended == pc \in {"done", "refused", "failed"}
Ends == <>Ended
=============================================================================
