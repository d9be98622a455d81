--------------------------------- MODULE Processes -----------------------------
(***************************************************************************)
(* The components whose promises are proved: the values that threads build *)
(* once between them, the runs of the MCP server, the following of an      *)
(* action on a Compute Requirement, a submission that adds to a Task Group *)
(* whose summary lags, the following of Work Requirements by 'yd follow',  *)
(* 'yd wait' and 'yd submit', the event stream of one entity, the event    *)
(* loops of Commander's window, the runner that the action commands share, *)
(* the aborting of Tasks, the upload of input files, 'yd nodeaction', and  *)
(* what 'yd provision' and 'yd instantiate' ask for.                       *)
(*                                                                         *)
(* A behaviour is that of one of them, chosen as it begins, in the         *)
(* variables that they take turns to use. Each is a program of its own,    *)
(* and none of them reads another's state. A component that has a module   *)
(* of proofs is taken from it, with its theorems.                          *)
(***************************************************************************)
EXTENDS Integers, Sequences, FiniteSets

CONSTANTS
  None,
  Thread, Lazies, Needs, MaxReads,                             \* of Lazy
  Command, Children, MaxRecords,                               \* of McpRun
  Instance, StatesBefore, MaxDrops,                            \* of Capacity
  NamesBefore, Adding, OtherAdding, MaxPolls,                  \* of AddTo
  Id, Codes,                                                   \* of Waiting
  RetryInterval, MaxRetryInterval, MaxOutage, ReadTimeout,
  ConnectTimeout, MaxAttempts, Settling,                       \* of EventStream
  Unusable, Unattended, MaxEdits, MaxNested, MaxCommands,      \* of Commander
  Target, Thing, Names, UnitOf, ActionCodes,                   \* of ActionRun
  Task, Unit,                                                  \* of AbortRun
  Runs, Local, Path, Uploads,                                  \* of InputFiles
  Nodes, GivenNodes, NodeCodes,                                \* of NodeActions
  Configured, Specified, Targets, BatchSizes, ProvisionCodes   \* of Provision

VARIABLES
  chosen,            \* which of them
  r1, r2, r3, r4, r5, r6, r7, r8, r9, r10, r11, r12, r13, r14, r15, r16, r17   \* its variables

all == <<chosen, r1, r2, r3, r4, r5, r6, r7, r8, r9, r10, r11, r12, r13, r14, r15, r16, r17>>

Unused == <<>>

Laz == INSTANCE Lazy_proofs WITH
  stack <- r1, owner <- r2, built <- r3, value <- r4, builds <- r5,
  reads <- r6, got <- r7

Mcp == INSTANCE McpRun WITH
  pc <- r1, due <- r2, stopped <- r3, stdout <- r4, alive <- r5,
  holding <- r6, group <- r7, unstarted <- r8, recorded <- r9,
  written <- r10, flushed <- r11

Wait == INSTANCE Capacity WITH
  Before <- StatesBefore,
  action <- r1, mode <- r2, phase <- r3, stuck <- r4, status <- r5,
  target <- r6, instances <- r7, connected <- r8, events <- r9, drops <- r10,
  pc <- r11, read <- r12, changed <- r13, expired <- r14

Add == INSTANCE AddTo WITH
  Before <- NamesBefore,
  named <- r1, pc <- r2, count <- r3, polls <- r4, added <- r5, held <- r6,
  summary <- r7, others <- r8

Follow == INSTANCE Waiting WITH
  command <- r1, ids <- r2, timeout <- r3, pc <- r4, thread <- r5,
  recorded <- r6, stop <- r7, charge <- r8, unfetched <- r9, exit <- r10,
  entity <- r11

Stream == INSTANCE EventStream WITH
  phase <- r1, result <- r2, connected <- r3, started <- r4, attempts <- r5,
  stop <- r6, entity <- r7, done <- r8, down <- r9, silent <- r10, after <- r11

Window == INSTANCE Commander WITH
  nested <- r1, inputs <- r2, found <- r3, invalid <- r4, timedOut <- r5,
  retried <- r6, generation <- r7, debounce <- r8, retry <- r9, skip <- r10,
  count <- r11, last <- r12, running <- r13, shuttingDown <- r14, fields <- r15

Action == INSTANCE ActionRun_proofs WITH
  Codes <- ActionCodes,
  pc <- r1, index <- r2, items <- r3, noted <- r4, outcome <- r5,
  cause <- r6, causes <- r7, exit <- r8

Abort == INSTANCE AbortRun_proofs WITH
  yes <- r1, pc <- r2, index <- r3, tasks <- r4, unfetched <- r5,
  handled <- r6, records <- r7, cause <- r8, attempts <- r9, listed <- r10,
  running <- r11

Inputs == INSTANCE InputFiles WITH
  Run <- Runs,
  overwrite <- r1, pc <- r2, handled <- r3, alreadyThere <- r4, seen <- r5,
  created <- r6, bucket <- r7, origin <- r8

Node == INSTANCE NodeActions WITH
  Codes <- NodeCodes,
  kind <- r1, follows <- r2, timed <- r3, given <- r4, status <- r5,
  stage <- r6, targets <- r7, turn <- r8, sent <- r9, queue <- r10,
  rows <- r11, causes <- r12, pending <- r13, finished <- r14,
  unfetched <- r15, late <- r16, code <- r17

Prov == INSTANCE Provision WITH
  Codes <- ProvisionCodes,
  command <- r1, source <- r2, mode <- r3, follow <- r4, config <- r5,
  overridden <- r6, spec <- r7, option <- r8, size <- r9, pc <- r10,
  asked <- r11, batches <- r12, made <- r13, told <- r14, followed <- r15,
  exit <- r16

Init ==
  \/ /\ chosen = "lazy" /\ Laz!Init
     /\ r8 = Unused /\ r9 = Unused /\ r10 = Unused /\ r11 = Unused /\ r12 = Unused
     /\ r13 = Unused /\ r14 = Unused /\ r15 = Unused /\ r16 = Unused /\ r17 = Unused
  \/ /\ chosen = "mcp" /\ Mcp!Init
     /\ r12 = Unused /\ r13 = Unused /\ r14 = Unused /\ r15 = Unused /\ r16 = Unused
     /\ r17 = Unused
  \/ /\ chosen = "wait" /\ Wait!Init
     /\ r15 = Unused /\ r16 = Unused /\ r17 = Unused
  \/ /\ chosen = "add" /\ Add!Init
     /\ r9 = Unused /\ r10 = Unused /\ r11 = Unused /\ r12 = Unused /\ r13 = Unused
     /\ r14 = Unused /\ r15 = Unused /\ r16 = Unused /\ r17 = Unused
  \/ /\ chosen = "follow" /\ Follow!Init
     /\ r12 = Unused /\ r13 = Unused /\ r14 = Unused /\ r15 = Unused /\ r16 = Unused
     /\ r17 = Unused
  \/ /\ chosen = "stream" /\ Stream!Init
     /\ r12 = Unused /\ r13 = Unused /\ r14 = Unused /\ r15 = Unused /\ r16 = Unused
     /\ r17 = Unused
  \/ /\ chosen = "commander" /\ Window!Init
     /\ r16 = Unused /\ r17 = Unused
  \/ /\ chosen = "action" /\ Action!Init
     /\ r9 = Unused /\ r10 = Unused /\ r11 = Unused /\ r12 = Unused /\ r13 = Unused
     /\ r14 = Unused /\ r15 = Unused /\ r16 = Unused /\ r17 = Unused
  \/ /\ chosen = "abort" /\ Abort!Init
     /\ r12 = Unused /\ r13 = Unused /\ r14 = Unused /\ r15 = Unused /\ r16 = Unused
     /\ r17 = Unused
  \/ /\ chosen = "inputs" /\ Inputs!Init
     /\ r9 = Unused /\ r10 = Unused /\ r11 = Unused /\ r12 = Unused /\ r13 = Unused
     /\ r14 = Unused /\ r15 = Unused /\ r16 = Unused /\ r17 = Unused
  \/ /\ chosen = "nodeaction" /\ Node!Init
  \/ /\ chosen = "provision" /\ Prov!Init
     /\ r17 = Unused

\* The one that takes a step, and leaves the rest alone
OfLaz ==
  chosen = "lazy" /\ UNCHANGED <<chosen, r8, r9, r10, r11, r12, r13, r14, r15, r16, r17>>
OfMcp == chosen = "mcp" /\ UNCHANGED <<chosen, r12, r13, r14, r15, r16, r17>>
OfWait == chosen = "wait" /\ UNCHANGED <<chosen, r15, r16, r17>>
OfAdd == chosen = "add" /\ UNCHANGED <<chosen, r9, r10, r11, r12, r13, r14, r15, r16, r17>>
OfFollow == chosen = "follow" /\ UNCHANGED <<chosen, r12, r13, r14, r15, r16, r17>>
OfStream == chosen = "stream" /\ UNCHANGED <<chosen, r12, r13, r14, r15, r16, r17>>
OfWindow == chosen = "commander" /\ UNCHANGED <<chosen, r16, r17>>
OfAction ==
  chosen = "action" /\ UNCHANGED <<chosen, r9, r10, r11, r12, r13, r14, r15, r16, r17>>
OfAbort == chosen = "abort" /\ UNCHANGED <<chosen, r12, r13, r14, r15, r16, r17>>
OfInputs ==
  chosen = "inputs" /\ UNCHANGED <<chosen, r9, r10, r11, r12, r13, r14, r15, r16, r17>>
OfNode == chosen = "nodeaction" /\ UNCHANGED <<chosen>>
OfProv == chosen = "provision" /\ UNCHANGED <<chosen, r17>>

Next ==
  \/ OfLaz /\ Laz!Next
  \/ OfMcp /\ Mcp!Next
  \/ OfWait /\ Wait!Next
  \/ OfAdd /\ Add!Next
  \/ OfFollow /\ Follow!Next
  \/ OfStream /\ Stream!Next
  \/ OfWindow /\ Window!Next
  \/ OfAction /\ Action!Next
  \/ OfAbort /\ Abort!Next
  \/ OfInputs /\ Inputs!Next
  \/ OfNode /\ Node!Next
  \/ OfProv /\ Prov!Next

\* What runs on: the threads of a process, the supervisor and its clocks, the
\* platform and the stream that follows it, a run that adds Tasks, a following and
\* the streams of what has finished, the thread of a stream, each of whose waits has a
\* timeout, and the returns of the window's event loops
Fairness ==
  /\ \A t \in Thread : WF_all(OfLaz /\ Laz!Steps(t))
  /\ WF_all(OfMcp /\ Mcp!Run)
  /\ WF_all(OfWait /\ Wait!Platform) /\ WF_all(OfWait /\ Wait!Connect)
  /\ WF_all(OfWait /\ Wait!Read) /\ WF_all(OfWait /\ Wait!Test)
  /\ WF_all(OfWait /\ Wait!Poll) /\ WF_all(OfWait /\ Wait!Expires)
  /\ WF_all(OfAdd /\ Add!Run)
  /\ WF_all(OfFollow /\ Follow!Main)
  /\ \A i \in Id : WF_all(OfFollow /\ Follow!StreamEndsOf(i))
  /\ WF_all(OfStream /\ Stream!ThreadStep)
  /\ WF_all(OfWindow /\ Window!Return) /\ WF_all(OfWindow /\ Window!Timer)

Spec == Init /\ [][Next]_all /\ Fairness
-----------------------------------------------------------------------------
(* What each component promises, of the one that was begun. *)

\* However many threads use a Lazy at once, it is built once, and each is given
\* what was built: only a builder that raised is called again.
BuiltOnce == chosen = "lazy" => Laz!BuiltOnce

\* A run of the MCP server that was stopped leaves nothing running of what its
\* command started, and loses nothing of what the command wrote as it ended.
NoneLeft == chosen = "mcp" => Mcp!NoneLeft /\ Mcp!FlushedKept

\* '--follow' and '--wait' return no sooner than every Instance is as it was asked;
\* 'yd wait' exits 0 only when all that it waits for is done, and none failed; and a
\* following of Nodes only when the queue of each has been seen done.
ReturnsDone ==
  /\ chosen = "wait" => Wait!ReturnsDone
  /\ chosen = "follow" => Follow!WaitZeroMeansDone
  /\ chosen = "nodeaction" => Node!FollowedIsFinished

\* The exit code of a following tells what became of what was followed, and never of
\* another; and that of an action tells the cause of its failures, where all of them
\* have one.
ExitTellsCause ==
  /\ chosen = "follow" => Follow!ExitTellsCause
  /\ chosen = "action" => Action!ExitCodeTold

\* Whatever fails, is interrupted or is named twice, each target of an action ends
\* with one record, that says what was done of it: done, failed, skipped, or left
\* for a session that failed; and what the platform said it had provisioned is told.
EachRecordedOnce ==
  /\ chosen = "action" => Action!EachRecordedOnce
  /\ chosen = "abort" => Abort!EveryTargetTold
  /\ chosen = "nodeaction" => Node!SubmittedOnceAndTold
  /\ chosen = "provision" => Prov!MadeIsTold

\* A run that succeeds has provisioned the counts that it was asked for, in batches
\* each consistent in itself.
ProvisionedAsAsked == chosen = "provision" => Prov!ProvisionedAsAsked

\* A Task named in several ways, alone and within what holds it, is aborted once at
\* most, and one that the command line leaves out is not.
AttemptedOnce == chosen = "abort" => Abort!AttemptedOnce /\ Abort!LeftOutKept

\* Each Task of a run reads the file that it names, with '--overwrite', but where
\* another run sends one to the same place.
OwnInputs == chosen = "inputs" => Inputs!OwnInputs

\* A file that was at its upload path before any of the runs, skipped or replaced, is
\* left there by all of them: no run's clean-up deletes it.
FoundKept == [][chosen = "inputs" => Inputs!LeftThere]_all

\* Tasks added to a Task Group are numbered on from those that it has, however far
\* its summary lags; and what is refused is refused whole, before any is added.
NumberedOn ==
  [][/\ (chosen = "add" => Add!RefusedWhole)'
     /\ chosen = "add" => Add!Numbered]_all

\* An event stream that stays down is given up on: no outage goes on without one for
\* longer than its limit, a last delay and a last connection.
OutageBounded == chosen = "stream" => Stream!OutageBounded

\* A stream is given up on only when it has delivered nothing for as long as an outage
\* may last, whatever drops there were before the last event of it.
NotGivenUpEarly == chosen = "stream" => Stream!NotGivenUpEarly

\* Once told to stop, wherever that finds it, the thread that follows a stream handles
\* at most the event it has in hand, makes at most the connection it was making, and
\* goes on for no longer than that connection, a response and one sleep can take.
StopHeeded == chosen = "stream" => Stream!StopHeeded

\* A command of the window acts on what the user was shown and agreed to, with the
\* fields as they stood when the user was asked, and no command is begun as the window
\* closes.
ActsOnWhatWasAgreed == [][chosen = "commander" => Window!Agreed]_all

\* What a discovery found is never replaced by what an older one finds.
NewerStands == [][chosen = "commander" => Window!Newer]_all

\* What is begun ends: the use of a Lazy, a run of the MCP server, a following of an
\* action that the platform is done with, a submission to a Task Group, a waiting
\* that has a timeout or whose Work Requirements finish, the following of a stream that
\* is told to stop or whose entity finishes, and every event loop of a window that
\* closes.
Ends ==
  /\ \A t \in Thread : (chosen = "lazy" /\ Laz!Using(t)) ~> (chosen = "lazy" /\ ~Laz!Using(t))
  /\ (chosen = "mcp") ~> (chosen = "mcp" /\ Mcp!Returned)
  /\ (chosen = "wait" /\ Wait!Due) ~> (chosen = "wait" /\ Wait!Returned)
  /\ (chosen = "add") ~> (chosen = "add" /\ Add!Ended)
  /\ (chosen = "follow" /\ Follow!Ending) ~> (chosen = "follow" /\ Follow!Ended)
  /\ (chosen = "stream" /\ Stream!Leaving) ~> (chosen = "stream" /\ Stream!Ended)
  /\ (chosen = "commander" /\ Window!Closing) ~> (chosen = "commander" /\ Window!Left)
=============================================================================
