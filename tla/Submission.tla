----------------------------- MODULE Submission -----------------------------
(***************************************************************************)
(* A submission (submit.py, and utils/json_raw.py for '--json-raw'): a     *)
(* Work Requirement is created, held if asked, and given its Tasks one     *)
(* Task Group after another; or, with '--add-to', Tasks are added to one   *)
(* that is already there.  A failure or a Ctrl-C part-way cancels a new    *)
(* Work Requirement and deletes the files uploaded for its Tasks; one      *)
(* added to is left as it is.                                              *)
(*                                                                         *)
(* The Tasks of the current Task Group are uploaded as TaskUpload says,    *)
(* which TaskBatches implements.  Building a batch uploads the input       *)
(* files its Tasks name (RcloneUploadedFiles, utils/submit_utils.py).      *)
(***************************************************************************)
EXTENDS Integers, FiniteSets

CONSTANTS
  Kinds,             \* the commands to try, of {"new", "raw", "add"}
  NumGroups,         \* Task Groups to add Tasks to
  NumBatches,        \* batches in each
  File,              \* upload paths
  Reads,             \* Reads[g][b]: the files the Tasks of a batch read
  Preexisting,       \* the files there before the submission
  MaxInterrupts      \* bound on the Ctrl-Cs

Group == 1 .. NumGroups
Batch == 0 .. NumBatches - 1

ASSUME Parameters ==
  /\ Kinds \subseteq {"new", "raw", "add"}
  /\ NumGroups \in Nat \ {0} /\ NumBatches \in Nat
  /\ Reads \in [Group -> [Batch -> SUBSET File]]
  /\ Preexisting \subseteq File
  /\ MaxInterrupts \in Nat

VARIABLES
  kind,              \* "add" with '--add-to', "raw" with '--json-raw'
  hold,              \* '--hold'
  pc,                \* where the program is
  entered,           \* for the properties: whether the try block was entered
  failure,           \* what it is going to raise
  undone,            \* the clean-up's steps that failed or were cut short
  group,             \* the Task Group being added to
  built,             \* the batches built of it
  contents, outcome, \* TaskUpload's, for that Task Group
  wr,                \* external: the Work Requirement on the Platform
  bucket,            \* external: the files at the upload paths
  created,           \* _rcloned_files: those this run may delete
  interrupts         \* the Ctrl-Cs so far

upload == <<group, built, contents, outcome>>
files == <<bucket, created>>
asked == <<kind, hold>>
vars == <<asked, pc, entered, failure, undone, upload, wr, files, interrupts>>

U == INSTANCE TaskUpload

Live == {"live", "held"}

TypeOK ==
  /\ kind \in Kinds /\ hold \in BOOLEAN
  /\ pc \in {"create", "created", "hold", "add", "cancel", "delete", "exit"}
  /\ entered \in BOOLEAN
  /\ failure \in {"none", "error", "interrupt"}
  /\ undone \subseteq {"cancel", "delete"}
  /\ group \in Group /\ built \in 0 .. NumBatches
  /\ contents \in [Batch -> 0 .. 1] /\ outcome \in {"open", "returned", "raised"}
  /\ wr \in {"absent", "cancelled"} \cup Live
  /\ bucket \subseteq File /\ created \subseteq File
  /\ interrupts \in 0 .. MaxInterrupts

\* The Work Requirement added to is addable, and '--hold' has no effect on it
Found == IF kind = "add" THEN wr \in Live ELSE wr = "absent"

Init ==
  /\ kind \in Kinds /\ hold \in BOOLEAN
  /\ pc = "create" /\ entered = FALSE /\ failure = "none" /\ undone = {}
  /\ group = 1 /\ built = 0 /\ U!Init
  /\ Found
  /\ bucket = Preexisting /\ created = {}
  /\ interrupts = 0

Holding == hold /\ kind # "add"

\* Mutant: the clean-up deletes the files, and cancels nothing.
Fails_NotCancelled(f) ==
  /\ failure' = f
  /\ pc' = IF kind = "add" THEN "exit" ELSE "delete"

\* An exception leaves the try block: the clean-up runs, for a new one
Fails(f) ==
  /\ failure' = f
  /\ pc' = IF kind = "add" THEN "exit" ELSE "cancel"

\* A Ctrl-C: the exception is KeyboardInterrupt, whatever was being handled
Interrupts ==
  /\ interrupts < MaxInterrupts
  /\ interrupts' = interrupts + 1
-----------------------------------------------------------------------------
(* The Work Requirement. *)

\* add_work_requirement(), or with '--add-to' update_work_requirement(), if any
Create ==
  /\ pc = "create"
  /\ pc' = "created"
  /\ wr' = IF kind = "add" THEN wr ELSE "live"
  /\ UNCHANGED <<asked, entered, failure, undone, upload, files, interrupts>>

\* It fails, done or not: the response may be what was lost
CreateFails ==
  /\ pc = "create"
  /\ pc' = "exit" /\ failure' = "error"
  /\ wr' \in IF kind = "add" THEN {wr} ELSE {"absent", "live"}
  /\ UNCHANGED <<asked, entered, undone, upload, files, interrupts>>

\* It is reported, and the try block entered
Enter ==
  /\ pc = "created"
  /\ pc' = IF Holding THEN "hold" ELSE "add"
  /\ entered' = TRUE
  /\ UNCHANGED <<asked, failure, undone, upload, wr, files, interrupts>>

\* Mutant: a Work Requirement that cannot be held is submitted all the same.
HoldFails_Goes ==
  /\ pc = "hold"
  /\ pc' = "add"
  /\ wr' \in {wr, "held"}
  /\ UNCHANGED <<asked, entered, failure, undone, upload, files, interrupts>>

Hold ==
  /\ pc = "hold"
  /\ pc' = "add"
  /\ wr' = "held"
  /\ UNCHANGED <<asked, entered, failure, undone, upload, files, interrupts>>

HoldFails ==
  /\ pc = "hold"
  /\ Fails("error")
  /\ wr' \in {wr, "held"}
  /\ UNCHANGED <<asked, entered, undone, upload, files, interrupts>>
-----------------------------------------------------------------------------
(* The Tasks, and the files they read. *)

Needs(b) == IF kind = "raw" THEN {} ELSE Reads[group][b]

\* Build the next batch, uploading the files not already there
Build ==
  /\ pc = "add" /\ outcome = "open" /\ built < NumBatches
  /\ built' = built + 1
  /\ bucket' = bucket \cup Needs(built)
  /\ created' = created \cup (Needs(built) \ bucket)
  /\ UNCHANGED <<asked, pc, entered, failure, undone, group, contents, outcome, wr,
                 interrupts>>

\* The Platform takes a batch that has been built, perhaps after the upload
\* gave up, but none of a cancelled Work Requirement's
Send ==
  /\ wr \in Live /\ pc # "create"
  /\ \E b \in Batch : b < built /\ U!Add(b)
  /\ UNCHANGED <<asked, pc, entered, failure, undone, group, built, wr, files, interrupts>>

UploadReturns ==
  /\ pc = "add" /\ outcome = "open"
  /\ U!Return
  /\ UNCHANGED <<asked, pc, entered, failure, undone, group, built, wr, files, interrupts>>

\* Mutant: the Tasks of the last Task Group are left out.
NextGroup_StopsEarly ==
  /\ pc = "add" /\ outcome = "returned"
  /\ IF group < NumGroups - 1
     THEN /\ group' = group + 1 /\ built' = 0
          /\ contents' = [b \in Batch |-> 0] /\ outcome' = "open"
          /\ UNCHANGED pc
     ELSE pc' = "exit" /\ UNCHANGED upload
  /\ UNCHANGED <<asked, entered, failure, undone, wr, files, interrupts>>

\* 'for addition in additions'
NextGroup ==
  /\ pc = "add" /\ outcome = "returned"
  /\ IF group < NumGroups
     THEN /\ group' = group + 1 /\ built' = 0
          /\ contents' = [b \in Batch |-> 0] /\ outcome' = "open"
          /\ UNCHANGED pc
     ELSE pc' = "exit" /\ UNCHANGED upload
  /\ UNCHANGED <<asked, entered, failure, undone, wr, files, interrupts>>

\* Mutant: one added to is cleaned up too.
UploadRaises_CleansAll ==
  /\ pc = "add" /\ U!Raise
  /\ pc' = "cancel"
  /\ failure' = "error"
  /\ UNCHANGED <<asked, entered, undone, group, built, wr, files, interrupts>>

UploadRaises ==
  /\ pc = "add" /\ U!Raise
  /\ Fails("error")
  /\ UNCHANGED <<asked, entered, undone, group, built, wr, files, interrupts>>
-----------------------------------------------------------------------------
(* cleanup_on_failure() *)

\* Mutant: a failure to cancel is raised, and hides the failure cleaned up after.
CancelFails_Raised ==
  /\ pc = "cancel"
  /\ pc' = "exit"
  /\ wr' \in {wr, "cancelled"}
  /\ undone' = undone \cup {"cancel"}
  /\ UNCHANGED <<asked, entered, failure, upload, files, interrupts>>

Cancel ==
  /\ pc = "cancel"
  /\ pc' = "delete"
  /\ wr' = "cancelled"
  /\ UNCHANGED <<asked, entered, failure, undone, upload, files, interrupts>>

\* Reported, and the next step still made
CancelFails ==
  /\ pc = "cancel"
  /\ pc' = "delete"
  /\ wr' \in {wr, "cancelled"}
  /\ undone' = undone \cup {"cancel"}
  /\ UNCHANGED <<asked, entered, failure, upload, files, interrupts>>

\* RcloneUploadedFiles.delete(): each file is attempted, whatever happened before
DeleteFile(f) ==
  /\ pc = "delete" /\ f \in created
  /\ created' = created \ {f}
  /\ \/ bucket' = bucket \ {f} /\ UNCHANGED undone
     \/ undone' = undone \cup {"delete"} /\ UNCHANGED bucket
  /\ UNCHANGED <<asked, pc, entered, failure, upload, wr, interrupts>>

Deleted ==
  /\ pc = "delete" /\ created = {}
  /\ pc' = "exit"
  /\ UNCHANGED <<asked, entered, failure, undone, upload, wr, files, interrupts>>
-----------------------------------------------------------------------------
(* Ctrl-C, wherever the main thread is; the request under way may be done. *)

InterruptCreate ==
  /\ pc \in {"create", "created"} /\ Interrupts
  /\ pc' = "exit" /\ failure' = "interrupt"
  /\ wr' \in IF kind # "add" /\ pc = "create" THEN {wr, "live"} ELSE {wr}
  /\ UNCHANGED <<asked, entered, undone, upload, files>>

InterruptHold ==
  /\ pc = "hold" /\ Interrupts
  /\ Fails("interrupt")
  /\ wr' \in {wr, "held"}
  /\ UNCHANGED <<asked, entered, undone, upload, files>>

\* Mutant: 'except Exception' alone, which a KeyboardInterrupt is not.
InterruptAdd_NotCaught ==
  /\ pc = "add" /\ Interrupts
  /\ \/ U!Raise
     \/ outcome = "returned" /\ UNCHANGED <<contents, outcome>>
  /\ pc' = "exit" /\ failure' = "interrupt"
  /\ UNCHANGED <<asked, entered, undone, group, built, wr, files>>

\* Between Task Groups, or as the upload's own failure; a file just copied is
\* not yet in _rcloned_files
InterruptAdd ==
  /\ pc = "add" /\ Interrupts
  /\ \/ U!Raise
     \/ outcome = "returned" /\ UNCHANGED <<contents, outcome>>
  /\ Fails("interrupt")
  /\ \/ UNCHANGED bucket
     \/ /\ outcome = "open" /\ built < NumBatches
        /\ \E f \in Needs(built) : bucket' = bucket \cup {f}
  /\ UNCHANGED <<asked, entered, undone, group, built, wr, created>>

\* Not an Exception: the clean-up is cut short
InterruptCleanup ==
  /\ pc \in {"cancel", "delete"} /\ Interrupts
  /\ pc' = "exit" /\ failure' = "interrupt"
  /\ undone' = undone \cup {"delete"} \cup (IF pc = "cancel" THEN {"cancel"} ELSE {})
  /\ wr' \in IF pc = "cancel" THEN {wr, "cancelled"} ELSE {wr}
  /\ bucket' \in {bucket} \cup
                 (IF pc = "delete" THEN {bucket \ {f} : f \in created} ELSE {})
  /\ UNCHANGED <<asked, entered, upload, created>>

Interrupt == InterruptCreate \/ InterruptHold \/ InterruptAdd \/ InterruptCleanup

Program ==
  \/ Create \/ CreateFails \/ Enter \/ Hold \/ HoldFails
  \/ Build \/ UploadReturns \/ NextGroup \/ UploadRaises
  \/ Cancel \/ CancelFails \/ Deleted \/ \E f \in File : DeleteFile(f)

Next == Program \/ Send \/ Interrupt

Spec == Init /\ [][Next]_vars
-----------------------------------------------------------------------------
(* What it is meant to ensure. *)

\* The batches of the Task Group g that are in the Work Requirement
TasksIn(g) == CASE g < group -> Batch
                [] g = group -> {b \in Batch : contents[b] = 1}
                [] g > group -> {}

Ended == pc = "exit"

\* A submission that ends well leaves every Task of every Task Group in a Work
\* Requirement that is live, and held if that was asked for.
SuccessIsWhole ==
  Ended /\ failure = "none" =>
    /\ \A g \in Group : TasksIn(g) = Batch
    /\ wr \in IF Holding THEN {"held"} ELSE Live

\* "Held before any Task is added, so that none starts": a Work Requirement to
\* be held never has a Task while it is not.
HeldBeforeTasks ==
  Holding /\ wr = "live" => \A g \in Group : TasksIn(g) = {}

\* A new Work Requirement whose submission failed once Tasks could be added is
\* cancelled, unless that is the step that failed or was cut short.
CancelledOnFailure ==
  Ended /\ entered /\ failure # "none" /\ kind # "add" =>
    wr = "cancelled" \/ "cancel" \in undone

\* A failed --add-to leaves the Work Requirement live, and every file that a
\* Task built for it may read in place.
AddedToIsLeft ==
  kind = "add" =>
    /\ wr \in Live
    /\ \A g \in Group, b \in Batch :
         (g < group \/ (g = group /\ b < built)) => Reads[g][b] \subseteq bucket

\* No Task of a live Work Requirement loses a file it reads, unless the Work
\* Requirement could not be cancelled: the files are deleted after that.
LiveTasksHaveInputs ==
  kind # "raw" /\ wr \in Live /\ "cancel" \notin undone =>
    \A g \in Group : \A b \in TasksIn(g) : Reads[g][b] \subseteq bucket

\* A failed submission leaves none of its own files behind, even when the Work
\* Requirement could not be cancelled, unless one could not be deleted.
NothingLeftBehind ==
  Ended /\ failure = "error" /\ kind = "new" /\ "delete" \notin undone =>
    bucket = Preexisting

=============================================================================
