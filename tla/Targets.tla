--------------------------------- MODULE Targets -------------------------------
(***************************************************************************)
(* The commands that act on what their command lines name: 'yd cancel',    *)
(* 'yd shutdown', 'yd start', 'yd hold' and 'yd finish', the Compute       *)
(* Requirement and Instance actions, the updates ('yd priority', 'yd       *)
(* resize', 'yd boost', 'yd token'), and 'yd compare', which only reads.   *)
(*                                                                         *)
(* The components of one specification: a behaviour is that of one of      *)
(* them, chosen as it begins, in the variables that they take turns to     *)
(* use. Each is a program of its own, and none of them reads another's     *)
(* state.                                                                  *)
(***************************************************************************)
EXTENDS Integers, Sequences, FiniteSets

CONSTANTS
  Thing, TypeOf, CommandLines, CommandCodes,                   \* of CommandRun
  CRs, Instances, Nodes, CrOf, RunsOn, Actions, ComputeLines,  \* of ComputeActions
  ListedPools, AUTO_SHUTDOWN_POOLS_CHECKED, StatusesBefore, ComputeCodes,
  Fields, DocOf, UpdateLines, MinNodes, MaxNodes, UpdateCodes, \* of Updates
  None, Pools, Stages, Comparisons, CompareCodes               \* of Compare

VARIABLES
  chosen,            \* which of them
  r1, r2, r3, r4, r5, r6, r7, r8, r9, r10, r11, r12, r13, r14, r15, r16, r17,
  r18   \* its variables

all == <<chosen, r1, r2, r3, r4, r5, r6, r7, r8, r9, r10, r11, r12, r13, r14, r15, r16, r17,
        r18>>

Unused == <<>>

Cmd == INSTANCE CommandRun WITH
  Things <- Thing, Codes <- CommandCodes,
  command <- r1, targets <- r2, abort <- r3, terminate <- r4, follow <- r5,
  pc <- r6, left <- r7, listed <- r8, items <- r9, fetched <- r10,
  records <- r11, causes <- r12, acted <- r13, followed <- r14, exit <- r15,
  status <- r16, cr <- r17, did <- r18

Compute == INSTANCE ComputeActions WITH
  Targets <- ComputeLines, Pools <- ListedPools,
  Statuses <- StatusesBefore, Codes <- ComputeCodes,
  action <- r1, targets <- r2, pools <- r3, pc <- r4, left <- r5,
  expanded <- r6, items <- r7, ruled <- r8, unlooked <- r9, units <- r10,
  records <- r11, causes <- r12, failures <- r13, done <- r14, follow <- r15,
  exit <- r16, status <- r17, requests <- r18

Update == INSTANCE Updates WITH
  Lines <- UpdateLines, Codes <- UpdateCodes,
  command <- r1, targets <- r2, pc <- r3, left <- r4, items <- r5,
  seen <- r6, groups <- r7, copy <- r8, records <- r9, causes <- r10,
  exit <- r11, value <- r12, alive <- r13, calls <- r14, answered <- r15,
  since <- r16

Cmp == INSTANCE Compare WITH
  Runs <- Comparisons, Codes <- CompareCodes,
  run <- r1, pools <- r2, requirements <- r3, nodes <- r4, stage <- r5,
  reports <- r6, failures <- r7, exit <- r8

Init ==
  \/ /\ chosen = "command" /\ Cmd!Init
  \/ /\ chosen = "compute" /\ Compute!Init
  \/ /\ chosen = "update" /\ Update!Init
     /\ r17 = Unused /\ r18 = Unused
  \/ /\ chosen = "compare" /\ Cmp!Init
     /\ r9 = Unused /\ r10 = Unused /\ r11 = Unused /\ r12 = Unused /\ r13 = Unused
     /\ r14 = Unused /\ r15 = Unused /\ r16 = Unused /\ r17 = Unused /\ r18 = Unused

\* The one that takes a step, and leaves the rest alone
OfCmd == chosen = "command" /\ UNCHANGED <<chosen>>
OfCompute == chosen = "compute" /\ UNCHANGED <<chosen>>
OfUpdate == chosen = "update" /\ UNCHANGED <<chosen, r17, r18>>
OfCmp ==
  chosen = "compare" /\ UNCHANGED <<chosen, r9, r10, r11, r12, r13, r14, r15, r16, r17, r18>>

Next ==
  \/ OfCmd /\ Cmd!Next
  \/ OfCompute /\ Compute!Next
  \/ OfUpdate /\ Update!Next
  \/ OfCmp /\ Cmp!Next

Spec == Init /\ [][Next]_all
-----------------------------------------------------------------------------
(* What each command promises, of the one that was begun. *)

\* Whatever fails or is named twice, each target of an action ends with one record,
\* that says what was done of it; and each comparison of a Task Group with one Worker
\* Pool is reported once.
EachTold ==
  /\ chosen = "command" => Cmd!ToldAsDone
  /\ chosen = "update" => Update!ChangedOnceAndTold
  /\ chosen = "compare" => Cmp!AllCompared

\* What '--follow' follows, and what is said to be done, is done: as the platform
\* has it, and not as the answers to requests that failed would have it.
FollowedIsFinished ==
  /\ chosen = "compute" => Compute!FollowedToAnEnd
  /\ chosen = "command" => Cmd!DoneMeansDone

\* A Compute Requirement or an Instance named in several ways is asked once at most; and
\* an auto shutdown is not set on the Compute Requirement of a Worker Pool, which would
\* reset the one that the pool has, unless the pool could not be looked for.
ComputeAsAsked == chosen = "compute" => Compute!OneRequestEach /\ Compute!PoolsOwnLeft

\* Task Groups that ask the same of a Worker Pool are told the same, whatever its
\* Nodes do as they are compared.
ComparedAlike == chosen = "compare" => Cmp!ComparedAlike

\* A change made by others since a thing was looked up is not overwritten by its
\* update, but in the moment between the copy and the request.
OthersChangesKept == [][chosen = "update" => Update!Kept]_all
=============================================================================
