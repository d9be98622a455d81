------------------------------- MODULE Waiting -------------------------------
(***************************************************************************)
(* What a command makes of the event streams it follows: follow_ids() and  *)
(* the failures its threads record (utils/follow_utils.py), and the exit   *)
(* codes of yd-wait (wait.py), yd-follow (follow.py) and yd-submit's       *)
(* '--exit-on-failure' (work_requirement_exit_code()).                     *)
(*                                                                         *)
(* A stream is followed by a thread of its own (EventStream), which here   *)
(* ends in one step, recording why if it failed, while the main thread     *)
(* polls; yd-submit follows its one stream itself.  Once a deadline has    *)
(* stopped the following, threads may still be running while the statuses  *)
(* are fetched and the failures read.                                      *)
(***************************************************************************)
EXTENDS Integers, FiniteSets

CONSTANTS
  Id,                \* YellowDog IDs, of Work Requirements: only one of theirs ends "bad"
  Codes              \* the exit codes of failures, of 1, 4, 5, 6, 7 and 8

SUCCESS == 0
FAILURE == 1
SESSION_FAILURES == {4, 8}

Parameters == IsFiniteSet(Id) /\ Codes \subseteq {1, 4, 5, 6, 7, 8}

VARIABLES
  command,           \* "wait", "follow" or "submit"
  ids,               \* the IDs followed
  timeout,           \* whether '--timeout' is given
  pc,                \* where the main thread is
  thread,            \* thread[i]: the stream of i, "running" or how it ended
  recorded,          \* recorded[i]: the codes in _FOLLOW_FAILURES for i
  stop,              \* _STOP_FOLLOWING
  charge,            \* charge[i]: the code its final status gave; Unread before
  unfetched,         \* for the properties: those whose status was not fetched
  exit,              \* the exit code
  entity             \* external: entity[i], "live", "good" or "bad"

asked == <<command, ids, timeout>>
streams == <<thread, recorded, stop>>
vars == <<asked, pc, streams, charge, unfetched, exit, entity>>

Unread == -1
ExitCodes == {SUCCESS, FAILURE} \cup Codes

TypeOK ==
  /\ command \in {"wait", "follow", "submit"} /\ ids \subseteq Id /\ timeout \in BOOLEAN
  /\ pc \in {"follow", "status", "exit"}
  /\ thread \in [Id -> {"running", "concluded", "assumed", "failed", "stopped"}]
  /\ recorded \in [Id -> SUBSET (Codes \cup {FAILURE})]
  /\ \A i \in Id : recorded[i] # {} => thread[i] = "failed"
  /\ stop \in BOOLEAN
  /\ charge \in [Id -> ExitCodes \cup {Unread}]
  /\ unfetched \subseteq ids
  /\ exit \in ExitCodes \cup {Unread}
  /\ entity \in [Id -> {"live", "good", "bad"}]

Init ==
  /\ command \in {"wait", "follow", "submit"}
  /\ ids \in (SUBSET Id) \ {{}}
  /\ command = "submit" => Cardinality(ids) = 1
  /\ timeout \in IF command = "wait" THEN BOOLEAN ELSE {FALSE}
  /\ pc = "follow"
  /\ thread = [i \in Id |-> "running"]
  /\ recorded = [i \in Id |-> {}]
  /\ stop = FALSE
  /\ charge = [i \in Id |-> Unread]
  /\ unfetched = {}
  /\ exit = Unread
  /\ entity \in [Id -> {"live", "good", "bad"}]
-----------------------------------------------------------------------------
(* The streams. *)

\* The stream ends: the entity finished, was taken to have, or the stop was seen
StreamEnds(i, how) ==
  /\ thread[i] = "running" /\ i \in ids
  /\ how = "concluded" => entity[i] # "live"
  /\ how = "stopped" => stop
  /\ thread' = [thread EXCEPT ![i] = how]
  /\ UNCHANGED <<asked, pc, recorded, stop, charge, unfetched, exit, entity>>

\* Or it failed, or its thread could not be started (FAILURE)
StreamFails(i, code) ==
  /\ thread[i] = "running" /\ i \in ids
  /\ thread' = [thread EXCEPT ![i] = "failed"]
  /\ recorded' = [recorded EXCEPT ![i] = @ \cup {code}]
  /\ UNCHANGED <<asked, pc, stop, charge, unfetched, exit, entity>>

Stream(i) ==
  \/ \E how \in {"concluded", "assumed", "stopped"} : StreamEnds(i, how)
  \/ \E code \in Codes \cup {FAILURE} : StreamFails(i, code)

\* External: what is followed finishes.
Finishes(i) ==
  /\ entity[i] = "live"
  /\ entity' = [entity EXCEPT ![i] = "good"] \/ entity' = [entity EXCEPT ![i] = "bad"]
  /\ UNCHANGED <<asked, pc, streams, charge, unfetched, exit>>
-----------------------------------------------------------------------------
(* _wait_for_streams() *)

AllEnded == \A i \in ids : thread[i] # "running"

Concluded ==
  /\ pc = "follow" /\ AllEnded
  /\ pc' = "status"
  /\ UNCHANGED <<asked, streams, charge, unfetched, exit, entity>>

\* Mutant: the deadline is looked at only as a stream ends.
Deadline_AsOneEnds ==
  /\ pc = "follow" /\ timeout /\ ~AllEnded
  /\ \E i \in ids : thread[i] # "running"
  /\ stop' = TRUE
  /\ pc' = "status"
  /\ UNCHANGED <<asked, thread, recorded, charge, unfetched, exit, entity>>

Deadline ==
  /\ pc = "follow" /\ timeout /\ ~AllEnded
  /\ stop' = TRUE
  /\ pc' = "status"
  /\ UNCHANGED <<asked, thread, recorded, charge, unfetched, exit, entity>>
-----------------------------------------------------------------------------
(* The exit code. *)

\* _exit_code_of()
ExitCodeOf(codes) ==
  IF codes = {} THEN SUCCESS
  ELSE IF Cardinality(codes) = 1 THEN CHOOSE c \in codes : TRUE ELSE FAILURE

\* follow_exit_code_of() and follow_exit_code()
FollowExitCodeOf(i) == ExitCodeOf(recorded[i])
FollowExitCode == ExitCodeOf(UNION {recorded[i] : i \in ids})

\* Mutant: with no failure of its own, an entity still live is charged nothing.
StillLive_Forgiven(i) == FollowExitCodeOf(i)

\* Mutant: an entity still live is charged with any stream's failure.
StillLive_Shared(i) == IF FollowExitCode # SUCCESS THEN FollowExitCode ELSE FAILURE

\* What yd-wait charges an entity still live with: its own stream's failure, or
\* FAILURE for the timeout
StillLive(i) == IF FollowExitCodeOf(i) # SUCCESS THEN FollowExitCodeOf(i) ELSE FAILURE

Charges(i, code) == charge' = [charge EXCEPT ![i] = code]

\* yd-wait fetches each final status
Fetch(i) ==
  /\ command = "wait" /\ pc = "status" /\ i \in ids /\ charge[i] = Unread
  /\ \/ /\ Charges(i, CASE entity[i] = "live" -> StillLive(i)
                        [] entity[i] = "bad" -> FAILURE
                        [] entity[i] = "good" -> SUCCESS)
        /\ UNCHANGED unfetched
     \/ /\ \E code \in Codes : Charges(i, code)
        /\ unfetched' = unfetched \cup {i}
  /\ UNCHANGED <<asked, pc, streams, exit, entity>>

Failures == {charge[i] : i \in ids} \ {SUCCESS}

WaitExits ==
  /\ command = "wait" /\ pc = "status"
  /\ \A i \in ids : charge[i] # Unread
  /\ exit' = ExitCodeOf(Failures)
  /\ pc' = "exit"
  /\ UNCHANGED <<asked, streams, charge, unfetched, entity>>

FollowExits ==
  /\ command = "follow" /\ pc = "status"
  /\ exit' = FollowExitCode
  /\ pc' = "exit"
  /\ UNCHANGED <<asked, streams, charge, unfetched, entity>>

\* Mutant: the stream's failure decides, whatever the Work Requirement's status.
SubmitExits_ByStream(i) ==
  /\ command = "submit" /\ pc = "status" /\ i \in ids
  /\ exit' = FollowExitCodeOf(i)
  /\ pc' = "exit"
  /\ UNCHANGED <<asked, streams, charge, unfetched, entity>>

\* work_requirement_exit_code()
SubmitExits(i) ==
  /\ command = "submit" /\ pc = "status" /\ i \in ids
  /\ \/ /\ exit' = CASE entity[i] = "live" -> FollowExitCodeOf(i)
                     [] entity[i] = "bad" -> FAILURE
                     [] entity[i] = "good" -> SUCCESS
        /\ UNCHANGED unfetched
     \/ /\ \E code \in Codes :
             exit' = IF code \in SESSION_FAILURES THEN code ELSE FAILURE
        /\ unfetched' = unfetched \cup {i}
  /\ pc' = "exit"
  /\ UNCHANGED <<asked, streams, charge, entity>>

Main ==
  \/ Concluded \/ Deadline \/ WaitExits \/ FollowExits
  \/ \E i \in Id : Fetch(i) \/ SubmitExits(i)

Next == Main \/ \E i \in Id : Stream(i) \/ Finishes(i)

\* The main thread polls and its requests time out, and the stream of an entity
\* that has finished ends (EventStream's Leaves).
StreamEndsOf(i) == entity[i] # "live" /\ Stream(i)
Spec ==
  /\ Init /\ [][Next]_vars
  /\ WF_vars(Main) /\ \A i \in Id : WF_vars(StreamEndsOf(i))
-----------------------------------------------------------------------------
(* What it is meant to ensure. *)

\* yd-wait exits 0 only when every entity has finished, and none failed,
\* whatever the streams did, the deadline, or the order they happened in.
WaitZeroMeansDone ==
  command = "wait" /\ exit = SUCCESS => \A i \in ids : entity[i] = "good"

\* A cause yd-wait gives is the cause of every entity it is charged to: its own
\* stream's, never another's, or that of its own status not being fetched.
OwnCause ==
  command = "wait" /\ exit \notin {Unread, SUCCESS, FAILURE} =>
    \A i \in ids :
      \/ charge[i] = SUCCESS
      \/ charge[i] = exit /\ (exit \in recorded[i] \/ i \in unfetched)

\* A Work Requirement that failed, or whose stream was lost before it finished,
\* or whose status was not fetched, never lets the submission exit 0.
SubmitSeesFailure ==
  command = "submit" /\ exit = SUCCESS =>
    /\ unfetched = {}
    /\ \A i \in ids : entity[i] = "good" \/ thread[i] \in {"assumed", "concluded"}
    /\ \A i \in ids : thread[i] = "concluded" => entity[i] = "good"

\* So an exit code tells what became of what was waited for, and never of another.
ExitTellsCause == OwnCause /\ SubmitSeesFailure

\* yd-wait ends if it has a timeout, or if all it waits for finish.
Ending == timeout \/ \A i \in ids : entity[i] # "live"
Ended == pc = "exit"
WaitEnds == Ending ~> Ended

\* "With --exit-on-failure, exits non-zero if the outcome is not a success":
\* exit code 0 means that the Work Requirement has completed.
SubmitZeroMeansSuccess ==
  command = "submit" /\ exit = SUCCESS => \A i \in ids : entity[i] = "good"
-----------------------------------------------------------------------------
(* Why it does: the invariant that the proofs rest on. *)

\* 'yd wait' charges nothing only for what is done, and otherwise a failure of its
\* own; its exit code is of what was charged.
ChargeInv ==
  /\ \A i \in ids :
       /\ charge[i] = SUCCESS => entity[i] = "good"
       /\ \/ charge[i] \in {Unread, SUCCESS, FAILURE} \cup recorded[i]
          \/ i \in unfetched
  /\ command = "wait" /\ pc = "exit" =>
       exit = ExitCodeOf(Failures) /\ \A i \in ids : charge[i] # Unread
  /\ pc # "exit" => exit = Unread

\* A stream that is not running ended for a reason, and without a deadline none is
\* running once the following is over.
StreamInv ==
  /\ \A i \in Id :
       /\ thread[i] = "concluded" => entity[i] # "live"
       /\ thread[i] = "stopped" => stop
       /\ thread[i] = "failed" => recorded[i] # {}
  /\ stop => timeout
  /\ timeout => command = "wait"
  /\ pc # "follow" /\ ~timeout => AllEnded

\* A submission follows one stream, whose status it has yet to fetch.
SubmitInv ==
  command = "submit" =>
    /\ \E i \in Id : ids = {i}
    /\ pc # "exit" => unfetched = {}

IInv == TypeOK /\ ChargeInv /\ StreamInv /\ SubmitInv /\ SubmitSeesFailure
=============================================================================
