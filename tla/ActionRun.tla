------------------------------ MODULE ActionRun ------------------------------
(***************************************************************************)
(* A run of an action command (utils/action_runner.py): its targets are    *)
(* resolved to things, confirmed once, and acted on a unit at a time, with *)
(* an outcome recorded for each and the causes of the failures beside them *)
(* (utils/results.py), from which the exit code comes (command_runner.py). *)
(* A failure of the session stops the run in either pass.  What a unit     *)
(* does is the command's own; a unit that records its own failures, as     *)
(* yd-shutdown's do, is one too.                                           *)
(*                                                                         *)
(* The order in which things are acted on (by_type) is left open.          *)
(***************************************************************************)
EXTENDS Integers, Sequences, FiniteSets

CONSTANTS
  Target,            \* the arguments: 1 .. n, in the order given, each once
  Thing,             \* what they name, as Item.key identifies it
  Names,             \* Names[t]: the thing that t names
  UnitOf,            \* UnitOf[x]: the unit that x is acted on in
  Codes              \* the exit codes of failures, of 1, 4, 5, 6, 7 and 8

SUCCESS == 0
FAILURE == 1
SESSION_FAILURES == {4, 8}

Parameters ==
  /\ IsFiniteSet(Target)
  /\ Target = 1 .. Cardinality(Target)
  /\ Names \in [Target -> Thing]
  /\ DOMAIN UnitOf = Thing
  /\ Thing \cap Target = {}
  /\ Codes \subseteq {1, 4, 5, 6, 7, 8}

VARIABLES
  pc,                \* which pass the run is in
  index,             \* the targets resolved so far
  items,             \* the things resolved and not yet acted on
  noted,             \* noted[x]: the records made of x
  outcome, cause,    \* the last of them, and the code of a failure
  causes,            \* _FAILURE_CAUSES
  exit               \* the exit code

records == <<noted, outcome, cause, causes>>
vars == <<pc, index, items, records, exit>>

Recorded == Target \cup Thing
Unset == -1

TypeOK ==
  /\ pc \in {"resolve", "confirm", "act", "return", "exit"}
  /\ index \in 0 .. Cardinality(Target)
  /\ items \subseteq {Names[t] : t \in 1 .. index}
  /\ noted \in [Recorded -> Nat]
  /\ outcome \in [Recorded -> {"none", "done", "skipped", "failed"}]
  /\ cause \in [Recorded -> Codes \cup {SUCCESS}]
  /\ causes \in Seq(Codes) /\ Len(causes) <= Cardinality(Recorded)
  /\ exit \in Codes \cup {Unset, SUCCESS, FAILURE}

Init ==
  /\ pc = "resolve" /\ index = 0 /\ items = {}
  /\ noted = [x \in Recorded |-> 0]
  /\ outcome = [x \in Recorded |-> "none"]
  /\ cause = [x \in Recorded |-> SUCCESS]
  /\ causes = <<>>
  /\ exit = Unset

\* record(), of those that failed with a code and those with another outcome
Records(failed, code, others, o) ==
  /\ noted' = [x \in Recorded |->
                 noted[x] + (IF x \in failed THEN 1 ELSE 0)
                          + (IF x \in others THEN 1 ELSE 0)]
  /\ outcome' = [x \in Recorded |-> IF x \in others THEN o
                                    ELSE IF x \in failed THEN "failed" ELSE outcome[x]]
  /\ cause' = [x \in Recorded |-> IF x \in failed THEN code ELSE cause[x]]

\* record_failure_cause(), for each of those that failed
Causes(failed, code) ==
  causes' = causes \o [k \in 1 .. Cardinality(failed) |-> code]

\* raise ReportedFailure(cause)
Stops(code) == pc' = "exit" /\ exit' = code
Goes(p) == pc' = p /\ UNCHANGED exit
-----------------------------------------------------------------------------
(* resolve_targets() *)

Left == {t \in Target : t > index + 1}

\* _Resolution.add(): a thing named twice is acted on once
Resolve(t) ==
  /\ pc = "resolve" /\ t = index + 1 /\ t \in Target
  /\ index' = t
  /\ items' = items \cup {Names[t]}
  /\ UNCHANGED <<pc, records, exit>>

\* Unresolved: in another state, or not to be acted on
Unresolved(t) ==
  /\ pc = "resolve" /\ t = index + 1 /\ t \in Target
  /\ index' = t
  /\ \/ Records({}, SUCCESS, {t}, "skipped") /\ UNCHANGED causes
     \/ \E code \in Codes \ SESSION_FAILURES :
          Records({t}, code, {}, "none") /\ Causes({t}, code)
  /\ UNCHANGED <<pc, items, exit>>

\* Mutant: the things already resolved are forgotten, not recorded.
LookupFails_Forgets(t, code) ==
  /\ pc = "resolve" /\ t = index + 1 /\ t \in Target
  /\ index' = t
  /\ Causes({t}, code)
  /\ IF code \in SESSION_FAILURES
     THEN /\ Records({t}, code, Left, "skipped")
          /\ Stops(code)
     ELSE /\ Records({t}, code, {}, "none")
          /\ Goes(pc)
  /\ UNCHANGED items

\* Any other failure of the lookup: one of the session records the rest
LookupFails(t, code) ==
  /\ pc = "resolve" /\ t = index + 1 /\ t \in Target
  /\ index' = t
  /\ Causes({t}, code)
  /\ IF code \in SESSION_FAILURES
     THEN /\ Records({t}, code, items \cup Left, "skipped")
          /\ Stops(code)
     ELSE /\ Records({t}, code, {}, "none")
          /\ Goes(pc)
  /\ UNCHANGED items

AllResolved ==
  /\ pc = "resolve" /\ index = Cardinality(Target)
  /\ Goes(IF items = {} THEN "return" ELSE "confirm")
  /\ UNCHANGED <<index, items, records>>
-----------------------------------------------------------------------------
(* confirm_items() *)

Confirm ==
  /\ pc = "confirm"
  /\ Goes("act")
  /\ UNCHANGED <<index, items, records>>

Decline ==
  /\ pc = "confirm"
  /\ Records({}, SUCCESS, items, "skipped")
  /\ items' = {}
  /\ Goes("return")
  /\ UNCHANGED <<index, causes>>
-----------------------------------------------------------------------------
(* carry_out() *)

Units == {UnitOf[x] : x \in items}
ItemsOf(u) == {x \in items : UnitOf[x] = u}

Done(u) ==
  /\ pc = "act"
  /\ Records({}, SUCCESS, ItemsOf(u), "done")
  /\ items' = items \ ItemsOf(u)
  /\ UNCHANGED <<pc, index, causes, exit>>

\* Mutant: one cause is recorded, for all the items of a unit.
Fails_OneCause(u, code) ==
  /\ pc = "act"
  /\ causes' = Append(causes, code)
  /\ IF code \in SESSION_FAILURES
     THEN /\ Records(ItemsOf(u), code, items \ ItemsOf(u), "skipped")
          /\ Stops(code)
          /\ items' = {}
     ELSE /\ Records(ItemsOf(u), code, {}, "none")
          /\ Goes(pc)
          /\ items' = items \ ItemsOf(u)
  /\ UNCHANGED index

\* Each of its items fails; a failure of the session stops the run (_stop())
Fails(u, code) ==
  /\ pc = "act"
  /\ Causes(ItemsOf(u), code)
  /\ IF code \in SESSION_FAILURES
     THEN /\ Records(ItemsOf(u), code, items \ ItemsOf(u), "skipped")
          /\ Stops(code)
          /\ items' = {}
     ELSE /\ Records(ItemsOf(u), code, {}, "none")
          /\ Goes(pc)
          /\ items' = items \ ItemsOf(u)
  /\ UNCHANGED index

AllActed ==
  /\ pc = "act" /\ items = {}
  /\ Goes("return")
  /\ UNCHANGED <<index, items, records>>
-----------------------------------------------------------------------------
(* run_command(), once main() returns *)

\* failure_exit_code(), of the failed records
FailureExitCode(failures) ==
  IF /\ failures # {}
     /\ Len(causes) = Cardinality(failures)
     /\ \A i, j \in 1 .. Len(causes) : causes[i] = causes[j]
  THEN causes[1] ELSE FAILURE

Failed == {x \in Recorded : outcome[x] = "failed"}

Return ==
  /\ pc = "return"
  /\ pc' = "exit"
  /\ exit' = IF Failed = {} THEN SUCCESS ELSE FailureExitCode(Failed)
  /\ UNCHANGED <<index, items, records>>

Next ==
  \/ AllResolved \/ Confirm \/ Decline \/ AllActed \/ Return
  \/ \E t \in Target : \/ Resolve(t) \/ Unresolved(t)
                       \/ \E code \in Codes : LookupFails(t, code)
  \/ \E u \in Units : Done(u) \/ \E code \in Codes : Fails(u, code)

Spec == Init /\ [][Next]_vars
-----------------------------------------------------------------------------
(* What it is meant to ensure. *)

\* The things that a target resolved to; a target in none of these failed, was
\* skipped or was never reached
Accounted(t) ==
  \/ noted[t] = 1 /\ outcome[t] \in {"failed", "skipped"}
  \/ noted[t] = 0 /\ noted[Names[t]] = 1

\* When the run ends, however it ends, every target is accounted for by exactly
\* one record: its own, or that of the thing it was resolved to.
EachRecordedOnce ==
  /\ \A x \in Recorded : noted[x] <= 1
  /\ pc = "exit" => \A t \in Target : Accounted(t)

\* A failure of the session is the last thing attempted: nothing is done, and
\* nothing else fails, after it, in either pass.
SessionFailed == \E i \in 1 .. Len(causes) : causes[i] \in SESSION_FAILURES
NothingAfterSession ==
  [][SessionFailed => UNCHANGED <<index, records>>]_vars

\* The exit code is 0 only if nothing failed, the session's own failure if that
\* stopped the run, and else the one cause of every failure, or 1.
ExitCodeTold ==
  pc = "exit" =>
    CASE Failed = {} -> exit = SUCCESS
      [] SessionFailed -> exit \in SESSION_FAILURES
      [] OTHER -> exit = IF \E c \in Codes : \A x \in Failed : cause[x] = c
                         THEN cause[CHOOSE x \in Failed : TRUE] ELSE FAILURE
=============================================================================
