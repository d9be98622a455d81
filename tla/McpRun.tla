-------------------------------- MODULE McpRun --------------------------------
(***************************************************************************)
(* One yd command run for an MCP client (mcp/runner.py, on POSIX): a child *)
(* in a process group of its own, whose pipes are read until all that hold *)
(* them have closed them.  At its timeout the group is interrupted, so     *)
(* that the command may flush the records of what it did; what is still    *)
(* there INTERRUPT_SECONDS later is killed, and its output waited for no   *)
(* longer than DRAIN_SECONDS.                                              *)
(*                                                                         *)
(* The command and its children do as they please: they may never end,     *)
(* close their pipes and go on, or leave the group.                        *)
(***************************************************************************)
EXTENDS Integers, FiniteSets

CONSTANTS
  Command,           \* the command's process
  Children,          \* those that it may start (rclone, say)
  MaxRecords         \* what it may record

Parameters ==
  /\ Command \notin Children /\ IsFiniteSet(Children)
  /\ MaxRecords \in Nat

Processes == {Command} \cup Children

VARIABLES
  pc,                \* "running", "interrupted", "killed", "output" (has its
                     \* output, and the group is yet to be killed) or "returned"
  due,               \* the timeout of the communicate() under way has passed
  stopped,           \* Run.stopped
  stdout,            \* the records in Run.stdout
  alive,             \* external: the processes alive, and of them
  holding,           \*   those with the pipes open,
  group,             \*   those in the process group,
  unstarted,         \* and those not yet started
  recorded,          \* external: the records of the command, written as it ends
  written,           \* external: those written to its pipe
  flushed            \* external: the command ended of its own accord

run == <<pc, due, stopped, stdout>>
processes == <<alive, holding, group, unstarted, recorded, written, flushed>>
vars == <<run, processes>>

TypeOK ==
  /\ pc \in {"running", "interrupted", "killed", "output", "returned"}
  /\ due \in BOOLEAN /\ stopped \in BOOLEAN
  /\ stdout \in 0 .. MaxRecords
  /\ alive \subseteq Processes /\ holding \subseteq alive /\ group \subseteq alive
  /\ unstarted \subseteq Children \ alive
  /\ recorded \in 0 .. MaxRecords /\ written \in {0, recorded}
  /\ flushed \in BOOLEAN
  /\ pc \in {"interrupted", "killed", "output"} => stopped

Init ==
  /\ pc = "running" /\ due = FALSE /\ stopped = FALSE /\ stdout = 0
  /\ alive = {Command} /\ holding = {Command} /\ group = {Command}
  /\ unstarted = Children
  /\ recorded = 0 /\ written = 0 /\ flushed = FALSE
-----------------------------------------------------------------------------
(* External: the processes. *)

Lives(p) == alive' = alive \ {p} /\ holding' = holding \ {p} /\ group' = group \ {p}

Starts(p) ==
  /\ Command \in alive /\ p \in unstarted
  /\ unstarted' = unstarted \ {p}
  /\ alive' = alive \cup {p} /\ holding' = holding \cup {p} /\ group' = group \cup {p}
  /\ UNCHANGED <<run, recorded, written, flushed>>

RecordsOne ==
  /\ Command \in alive /\ recorded < MaxRecords
  /\ recorded' = recorded + 1
  /\ UNCHANGED <<run, alive, holding, group, unstarted, written, flushed>>

\* Of its own accord, or on the interrupt: the wrapper flushes the result
CommandEnds ==
  /\ Command \in alive
  /\ Lives(Command)
  /\ written' = recorded /\ flushed' = TRUE
  /\ UNCHANGED <<run, unstarted, recorded>>

ChildEnds(p) ==
  /\ p \in alive \cap Children
  /\ Lives(p)
  /\ UNCHANGED <<run, unstarted, recorded, written, flushed>>

ChildDetaches(p) ==
  /\ p \in alive \cap Children
  /\ \/ holding' = holding \ {p} /\ UNCHANGED group
     \/ group' = group \ {p} /\ UNCHANGED holding
  /\ UNCHANGED <<run, alive, unstarted, recorded, written, flushed>>

Process ==
  \/ RecordsOne \/ CommandEnds
  \/ \E p \in Children : Starts(p) \/ ChildEnds(p) \/ ChildDetaches(p)
-----------------------------------------------------------------------------
(* run() *)

Due ==
  /\ pc \in {"running", "interrupted", "killed"} /\ ~due
  /\ due' = TRUE
  /\ UNCHANGED <<pc, stopped, stdout, processes>>

\* The pipes are at their end, and the command is waited for
AtEnd == holding = {} /\ Command \notin alive

\* communicate() returns the output: of an interrupted command, its group is
\* killed yet
Communicates ==
  /\ pc \in {"running", "interrupted", "killed"} /\ AtEnd
  /\ stdout' = written
  /\ pc' = IF pc = "interrupted" THEN "output" ELSE "returned"
  /\ UNCHANGED <<due, stopped, processes>>

\* _interrupted(): with the group gone, the system may not find it
TimesOut ==
  /\ pc = "running" /\ due /\ ~AtEnd
  /\ stopped' = TRUE /\ due' = FALSE
  /\ \/ pc' = "interrupted"
     \/ group = {} /\ pc' = "killed"
  /\ UNCHANGED <<stdout, processes>>

\* _stop_group()
StopGroup ==
  /\ alive' = alive \ (group \cup {Command}) /\ holding' = holding \cap alive'
  /\ group' = {}
  /\ UNCHANGED <<unstarted, recorded, written, flushed>>

Kill ==
  /\ pc = "interrupted" /\ due /\ ~AtEnd
  /\ StopGroup
  /\ pc' = "killed" /\ due' = FALSE
  /\ UNCHANGED <<stopped, stdout>>

\* Mutant: it is not killed, having given its output.
KillRest_Not ==
  /\ pc = "output"
  /\ pc' = "returned"
  /\ UNCHANGED <<due, stopped, stdout, processes>>

\* "Whatever it started, still running"
KillRest ==
  /\ pc = "output"
  /\ StopGroup
  /\ pc' = "returned"
  /\ UNCHANGED <<due, stopped, stdout>>

\* Mutant: what was read before the timeout is not kept.
Drained_Lost ==
  /\ pc = "killed" /\ due /\ ~AtEnd
  /\ pc' = "returned"
  /\ UNCHANGED <<due, stopped, stdout, processes>>

\* Mutant: the output of what was killed is waited for to its end.
Drained_Waits ==
  /\ pc = "killed" /\ due /\ AtEnd
  /\ stdout' = written /\ pc' = "returned"
  /\ UNCHANGED <<due, stopped, processes>>

\* TimeoutExpired: a process that left the group holds the pipes
Drained ==
  /\ pc = "killed" /\ due /\ ~AtEnd
  /\ stdout' = written
  /\ pc' = "returned"
  /\ UNCHANGED <<due, stopped, processes>>

Run == Due \/ Communicates \/ TimesOut \/ Kill \/ KillRest \/ Drained

Next == Run \/ Process

Spec == Init /\ [][Next]_vars /\ WF_vars(Run)
-----------------------------------------------------------------------------
(* What it is meant to ensure. *)

\* "A stop kills the group": a run that was stopped leaves nothing running of
\* what the command started, but what left its group.
NoneLeft == pc = "returned" /\ stopped => alive \cap group = {}

\* What the command wrote as it ended comes back, whether it ended in time, on
\* the interrupt, or with its pipes held open by what it started.
FlushedKept == pc = "returned" /\ flushed => stdout = recorded

\* The command is killed only once it has been interrupted, and its time to go
\* has passed: otherwise the records of what it did are lost.
Killed == Command \in alive /\ Command \notin alive' /\ ~flushed'
InterruptedFirst == [][(Killed => pc = "interrupted" /\ due)]_vars

\* A run always returns, whatever its processes do.
Returned == pc = "returned"
Returns == <>Returned
-----------------------------------------------------------------------------
(* Why it does: the invariant that the proofs rest on. *)

\* The command is in its group while it lives, so that what was killed, or found no
\* group to interrupt, has neither; and once a run has its output, it has no command.
GroupInv ==
  /\ Command \in alive => Command \in group
  /\ pc = "running" => ~stopped
  /\ pc = "killed" => group = {}
  /\ pc \in {"output", "returned"} => Command \notin alive
  /\ pc = "returned" /\ stopped => group = {}

\* All that is recorded is written as the command ends, and what was read is all of it.
FlushedInv ==
  /\ flushed => written = recorded /\ Command \notin alive
  /\ pc \in {"output", "returned"} => stdout = written

IInv == GroupInv /\ FlushedInv
=============================================================================
