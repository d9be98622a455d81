-------------------------- MODULE Submission_proofs --------------------------
(***************************************************************************)
(* Proofs about Submission, for every kind of submission, any Task Groups, *)
(* batches and files, and any number of interrupts.                        *)
(***************************************************************************)
EXTENDS Submission, TLAPS

\* Until there are Tasks to add there is nothing to undo.
StartInv ==
  pc \in {"create", "created", "hold"} =>
    /\ group = 1 /\ built = 0
    /\ failure = "none" /\ undone = {} /\ created = {}
    /\ pc # "hold" => ~entered

\* The Work Requirement at each place of the program.
StageInv ==
  /\ kind = "add" => wr \in Live /\ undone = {} /\ pc \notin {"hold", "cancel", "delete"}
  /\ pc = "create" /\ kind # "add" => wr = "absent"
  /\ pc = "created" => wr \in Live
  /\ pc = "hold" => Holding
  /\ pc = "add" => failure = "none" /\ wr \in IF Holding THEN {"held"} ELSE Live
  /\ pc \in {"cancel", "delete"} => failure # "none"
  /\ pc = "delete" => wr = "cancelled" \/ "cancel" \in undone

\* What the Platform holds was built, and an upload returns with all of it.
UploadInv ==
  /\ \A b \in Batch : contents[b] = 1 => b < built
  /\ outcome = "returned" => \A b \in Batch : contents[b] = 1
  /\ Holding /\ wr = "live" => group = 1 /\ built = 0
  /\ Ended /\ failure = "none" =>
       /\ group = NumGroups /\ outcome = "returned"
       /\ wr \in IF Holding THEN {"held"} ELSE Live

Built(g, b) == g < group \/ (g = group /\ b < built)

\* The files of what has been built are there, as long as its Tasks may run.
BuiltInv ==
  kind # "raw" /\ wr \in Live /\ "cancel" \notin undone =>
    \A g \in Group, b \in Batch : Built(g, b) => Reads[g][b] \subseteq bucket

\* The run's own files are those it knows to delete.
FilesInv ==
  failure # "interrupt" /\ "delete" \notin undone =>
    /\ bucket = Preexisting \cup created
    /\ created \cap Preexisting = {}
    /\ Ended /\ failure = "error" /\ kind = "new" => created = {}

IInv ==
  /\ TypeOK /\ StartInv /\ StageInv /\ UploadInv /\ BuiltInv /\ FilesInv
  /\ CancelledOnFailure
-----------------------------------------------------------------------------
LEMMA Groups == NumGroups \in Nat \ {0} /\ NumBatches \in Nat /\ 1 \in Group
BY Parameters DEF Group

LEMMA InitHolds == Init => IInv
<1> SUFFICES ASSUME Init PROVE IInv
  OBVIOUS
<1>1. TypeOK
  <2>1. contents \in [Batch -> 0 .. 1] /\ outcome \in {"open", "returned", "raised"}
    BY DEF Init, U!Init
  <2>2. group \in Group /\ built \in 0 .. NumBatches
    BY Groups DEF Init
  <2>3. bucket \subseteq File /\ created \subseteq File /\ interrupts \in 0 .. MaxInterrupts
    BY Parameters DEF Init
  <2>4. wr \in {"absent", "cancelled"} \cup Live
    BY DEF Init, Found, Live
  <2> QED
    BY <2>1, <2>2, <2>3, <2>4 DEF Init, TypeOK
<1>2. \A b \in Batch : contents[b] = 0
  BY DEF Init, U!Init
<1>3. UploadInv
  BY <1>2 DEF Init, U!Init, UploadInv, Holding, Ended
<1>4. BuiltInv
  <2> SUFFICES ASSUME NEW g \in Group, NEW b \in Batch, Built(g, b) PROVE FALSE
    BY DEF BuiltInv
  <2> QED
    BY Groups DEF Init, Built, Group, Batch
<1> QED
  BY <1>1, <1>3, <1>4
     DEF Init, Found, IInv, StartInv, StageInv, FilesInv, CancelledOnFailure, Ended, Holding, Live
-----------------------------------------------------------------------------
(* Each part of the invariant, by action. *)

\* What each of the actions is made of.
Steps ==
  \/ Create \/ CreateFails \/ Enter \/ Hold \/ HoldFails
  \/ Build \/ UploadReturns \/ NextGroup \/ UploadRaises
  \/ Cancel \/ CancelFails \/ Deleted \/ (\E f \in File : DeleteFile(f))
  \/ Send \/ InterruptCreate \/ InterruptHold \/ InterruptAdd \/ InterruptCleanup

LEMMA NextSteps == Next <=> Steps
BY DEF Next, Steps, Program, Interrupt

LEMMA TypeStep == TypeOK /\ Next => TypeOK'
<1> SUFFICES ASSUME TypeOK, Steps PROVE TypeOK'
  BY NextSteps
<1> USE DEF TypeOK, asked, files
<1>1. CASE Create
  BY <1>1 DEF Create, Live, upload
<1>2. CASE CreateFails
  BY <1>2 DEF CreateFails, Live, upload
<1>3. CASE Enter
  BY <1>3 DEF Enter, upload
<1>4. CASE Hold
  BY <1>4 DEF Hold, Live, upload
<1>5. CASE HoldFails
  BY <1>5 DEF HoldFails, Fails, Live, upload
<1>6. CASE Build
  <2>1. built \in Batch
    BY <1>6, Groups DEF Build, Batch
  <2>2. Reads[group][built] \subseteq File
    BY <2>1, Parameters
  <2>3. built' \in 0 .. NumBatches
    BY <1>6, Groups DEF Build
  <2> QED
    BY <1>6, <2>2, <2>3 DEF Build, Needs
<1>7. CASE UploadReturns
  BY <1>7 DEF UploadReturns, U!Return
<1>8. CASE NextGroup
  <2>1. group' \in Group
    BY <1>8, Groups DEF NextGroup, Group, upload
  <2>2. built' \in 0 .. NumBatches
    BY <1>8, Groups DEF NextGroup, upload
  <2>3. contents' \in [Batch -> 0 .. 1] /\ outcome' \in {"open", "returned", "raised"}
    BY <1>8 DEF NextGroup, upload
  <2> QED
    BY <1>8, <2>1, <2>2, <2>3 DEF NextGroup
<1>9. CASE UploadRaises
  BY <1>9 DEF UploadRaises, Fails, U!Raise
<1>10. CASE Cancel
  BY <1>10 DEF Cancel, upload
<1>11. CASE CancelFails
  BY <1>11 DEF CancelFails, upload
<1>12. CASE Deleted
  BY <1>12 DEF Deleted, upload
<1>13. CASE \E f \in File : DeleteFile(f)
  BY <1>13 DEF DeleteFile, upload
<1>14. CASE Send
  BY <1>14 DEF Send, U!Add
<1>15. CASE InterruptCreate
  BY <1>15, Parameters DEF InterruptCreate, Interrupts, Live, upload
<1>16. CASE InterruptHold
  BY <1>16, Parameters DEF InterruptHold, Fails, Interrupts, Live, upload
<1>17. CASE InterruptAdd
  <2>1. bucket' \subseteq File
    <3>1. CASE bucket' = bucket
      BY <3>1
    <3>2. CASE outcome = "open" /\ built < NumBatches /\ \E f \in Needs(built) : bucket' = bucket \cup {f}
      <4>1. built \in Batch
        BY <3>2, Groups DEF Batch
      <4> QED
        BY <3>2, <4>1, Parameters DEF Needs
    <3> QED
      BY <1>17, <3>1, <3>2 DEF InterruptAdd
  <2> QED
    BY <1>17, <2>1, Parameters DEF InterruptAdd, Fails, Interrupts, U!Raise
<1>18. CASE InterruptCleanup
  BY <1>18, Parameters DEF InterruptCleanup, Interrupts, Live, upload
<1> QED
  BY <1>1, <1>2, <1>3, <1>4, <1>5, <1>6, <1>7, <1>8, <1>9, <1>10, <1>11, <1>12, <1>13,
     <1>14, <1>15, <1>16, <1>17, <1>18 DEF Steps

\* Before the Tasks, nothing is built, failed or copied.
LEMMA StartStep == StartInv /\ Next => StartInv'
<1> SUFFICES ASSUME StartInv, Steps PROVE StartInv'
  BY NextSteps
<1> USE DEF StartInv, asked, files, upload
<1>1. CASE Create
  BY <1>1 DEF Create
<1>2. CASE CreateFails
  BY <1>2 DEF CreateFails
<1>3. CASE Enter
  BY <1>3 DEF Enter
<1>4. CASE Hold
  BY <1>4 DEF Hold
<1>5. CASE HoldFails
  BY <1>5 DEF HoldFails, Fails
<1>6. CASE Build
  BY <1>6 DEF Build
<1>7. CASE UploadReturns
  BY <1>7 DEF UploadReturns, U!Return
<1>8. CASE NextGroup
  BY <1>8 DEF NextGroup
<1>9. CASE UploadRaises
  BY <1>9 DEF UploadRaises, Fails, U!Raise
<1>10. CASE Cancel
  BY <1>10 DEF Cancel
<1>11. CASE CancelFails
  BY <1>11 DEF CancelFails
<1>12. CASE Deleted
  BY <1>12 DEF Deleted
<1>13. CASE \E f \in File : DeleteFile(f)
  BY <1>13 DEF DeleteFile
<1>14. CASE Send
  BY <1>14 DEF Send, U!Add
<1>15. CASE InterruptCreate
  BY <1>15 DEF InterruptCreate, Interrupts
<1>16. CASE InterruptHold
  BY <1>16 DEF InterruptHold, Fails, Interrupts
<1>17. CASE InterruptAdd
  BY <1>17 DEF InterruptAdd, Fails, Interrupts, U!Raise
<1>18. CASE InterruptCleanup
  BY <1>18 DEF InterruptCleanup, Interrupts
<1> QED
  BY <1>1, <1>2, <1>3, <1>4, <1>5, <1>6, <1>7, <1>8, <1>9, <1>10, <1>11, <1>12, <1>13,
     <1>14, <1>15, <1>16, <1>17, <1>18 DEF Steps

\* Where the program is, and what the Work Requirement then is.
LEMMA StageStep == StartInv /\ StageInv /\ Next => StageInv'
<1> SUFFICES ASSUME StartInv, StageInv, Steps PROVE StageInv'
  BY NextSteps
<1> USE DEF StartInv, StageInv, Holding, Live, asked, files, upload
<1>1. CASE Create
  BY <1>1 DEF Create
<1>2. CASE CreateFails
  BY <1>2 DEF CreateFails
<1>3. CASE Enter
  BY <1>3 DEF Enter
<1>4. CASE Hold
  BY <1>4 DEF Hold
<1>5. CASE HoldFails
  BY <1>5 DEF HoldFails, Fails
<1>6. CASE Build
  BY <1>6 DEF Build
<1>7. CASE UploadReturns
  BY <1>7 DEF UploadReturns, U!Return
<1>8. CASE NextGroup
  BY <1>8 DEF NextGroup
<1>9. CASE UploadRaises
  BY <1>9 DEF UploadRaises, Fails, U!Raise
<1>10. CASE Cancel
  BY <1>10 DEF Cancel
<1>11. CASE CancelFails
  BY <1>11 DEF CancelFails
<1>12. CASE Deleted
  BY <1>12 DEF Deleted
<1>13. CASE \E f \in File : DeleteFile(f)
  BY <1>13 DEF DeleteFile
<1>14. CASE Send
  BY <1>14 DEF Send, U!Add
<1>15. CASE InterruptCreate
  BY <1>15 DEF InterruptCreate, Interrupts
<1>16. CASE InterruptHold
  BY <1>16 DEF InterruptHold, Fails, Interrupts
<1>17. CASE InterruptAdd
  BY <1>17 DEF InterruptAdd, Fails, Interrupts, U!Raise
<1>18. CASE InterruptCleanup
  BY <1>18 DEF InterruptCleanup, Interrupts
<1> QED
  BY <1>1, <1>2, <1>3, <1>4, <1>5, <1>6, <1>7, <1>8, <1>9, <1>10, <1>11, <1>12, <1>13,
     <1>14, <1>15, <1>16, <1>17, <1>18 DEF Steps

\* The clean-up cancels before it ends, or notes that it could not.
LEMMA CancelledStep == StartInv /\ StageInv /\ CancelledOnFailure /\ Next => CancelledOnFailure'
<1> SUFFICES ASSUME StartInv, StageInv, CancelledOnFailure, Steps PROVE CancelledOnFailure'
  BY NextSteps
<1> USE DEF StartInv, StageInv, CancelledOnFailure, Ended, asked, files, upload
<1>1. CASE Create
  BY <1>1 DEF Create
<1>2. CASE CreateFails
  BY <1>2 DEF CreateFails
<1>3. CASE Enter
  BY <1>3 DEF Enter
<1>4. CASE Hold
  BY <1>4 DEF Hold
<1>5. CASE HoldFails
  BY <1>5 DEF HoldFails, Fails
<1>6. CASE Build
  BY <1>6 DEF Build
<1>7. CASE UploadReturns
  BY <1>7 DEF UploadReturns, U!Return
<1>8. CASE NextGroup
  BY <1>8 DEF NextGroup
<1>9. CASE UploadRaises
  BY <1>9 DEF UploadRaises, Fails, U!Raise
<1>10. CASE Cancel
  BY <1>10 DEF Cancel
<1>11. CASE CancelFails
  BY <1>11 DEF CancelFails
<1>12. CASE Deleted
  BY <1>12 DEF Deleted
<1>13. CASE \E f \in File : DeleteFile(f)
  BY <1>13 DEF DeleteFile
<1>14. CASE Send
  BY <1>14 DEF Send, U!Add
<1>15. CASE InterruptCreate
  BY <1>15 DEF InterruptCreate, Interrupts
<1>16. CASE InterruptHold
  BY <1>16 DEF InterruptHold, Fails, Interrupts
<1>17. CASE InterruptAdd
  BY <1>17 DEF InterruptAdd, Fails, Interrupts, U!Raise
<1>18. CASE InterruptCleanup
  BY <1>18 DEF InterruptCleanup, Interrupts
<1> QED
  BY <1>1, <1>2, <1>3, <1>4, <1>5, <1>6, <1>7, <1>8, <1>9, <1>10, <1>11, <1>12, <1>13,
     <1>14, <1>15, <1>16, <1>17, <1>18 DEF Steps

\* The files that this run copied.
LEMMA FilesStep == TypeOK /\ StartInv /\ StageInv /\ FilesInv /\ Next => FilesInv'
<1> SUFFICES ASSUME TypeOK, StartInv, StageInv, FilesInv, Steps PROVE FilesInv'
  BY NextSteps
<1> USE DEF StartInv, StageInv, FilesInv, Ended, asked, files, upload
<1>1. CASE Create
  BY <1>1 DEF Create
<1>2. CASE CreateFails
  BY <1>2 DEF CreateFails
<1>3. CASE Enter
  BY <1>3 DEF Enter
<1>4. CASE Hold
  BY <1>4 DEF Hold
<1>5. CASE HoldFails
  BY <1>5 DEF HoldFails, Fails
<1>6. CASE Build
  BY <1>6 DEF Build
<1>7. CASE UploadReturns
  BY <1>7 DEF UploadReturns, U!Return
<1>8. CASE NextGroup
  BY <1>8 DEF NextGroup
<1>9. CASE UploadRaises
  BY <1>9 DEF UploadRaises, Fails, U!Raise
<1>10. CASE Cancel
  BY <1>10 DEF Cancel
<1>11. CASE CancelFails
  BY <1>11 DEF CancelFails
<1>12. CASE Deleted
  BY <1>12 DEF Deleted
<1>13. CASE \E f \in File : DeleteFile(f)
  BY <1>13 DEF DeleteFile
<1>14. CASE Send
  BY <1>14 DEF Send, U!Add
<1>15. CASE InterruptCreate
  BY <1>15 DEF InterruptCreate, Interrupts
<1>16. CASE InterruptHold
  BY <1>16 DEF InterruptHold, Fails, Interrupts
<1>17. CASE InterruptAdd
  BY <1>17 DEF InterruptAdd, Fails, Interrupts, U!Raise
<1>18. CASE InterruptCleanup
  BY <1>18 DEF InterruptCleanup, Interrupts
<1> QED
  BY <1>1, <1>2, <1>3, <1>4, <1>5, <1>6, <1>7, <1>8, <1>9, <1>10, <1>11, <1>12, <1>13,
     <1>14, <1>15, <1>16, <1>17, <1>18 DEF Steps

\* What has been built, and what the Platform holds of it.
LEMMA UploadStep == TypeOK /\ StartInv /\ StageInv /\ UploadInv /\ Next => UploadInv'
<1> SUFFICES ASSUME TypeOK, StartInv, StageInv, UploadInv, Steps PROVE UploadInv'
  BY NextSteps
<1> USE DEF StartInv, StageInv, UploadInv, Holding, Live, Ended, asked, files, upload
<1>1. CASE Create
  BY <1>1 DEF Create
<1>2. CASE CreateFails
  BY <1>2 DEF CreateFails
<1>3. CASE Enter
  BY <1>3 DEF Enter
<1>4. CASE Hold
  BY <1>4 DEF Hold
<1>5. CASE HoldFails
  BY <1>5 DEF HoldFails, Fails
<1>6. CASE Build
  <2>1. \A b \in Batch : contents'[b] = 1 => b < built'
    BY <1>6, Groups DEF Build, Batch, TypeOK
  <2> QED
    BY <1>6, <2>1 DEF Build
<1>7. CASE UploadReturns
  BY <1>7 DEF UploadReturns, U!Return
<1>8. CASE NextGroup
  <2>1. CASE group < NumGroups
    BY <1>8, <2>1, Groups DEF NextGroup, TypeOK, Group
  <2>2. CASE group >= NumGroups
    <3>1. group = NumGroups
      BY <2>2, Groups DEF TypeOK, Group
    <3> QED
      BY <1>8, <3>1, Groups DEF NextGroup
  <2> QED
    BY <2>1, <2>2, Groups DEF TypeOK, Group
<1>9. CASE UploadRaises
  BY <1>9 DEF UploadRaises, Fails, U!Raise
<1>10. CASE Cancel
  BY <1>10 DEF Cancel
<1>11. CASE CancelFails
  BY <1>11 DEF CancelFails
<1>12. CASE Deleted
  BY <1>12 DEF Deleted
<1>13. CASE \E f \in File : DeleteFile(f)
  BY <1>13 DEF DeleteFile
<1>14. CASE Send
  <2>1. PICK b \in Batch : b < built /\ U!Add(b)
    BY <1>14 DEF Send
  <2>2. \A c \in Batch : contents'[c] = 1 => c = b \/ contents[c] = 1
    BY <2>1 DEF U!Add, TypeOK
  <2> QED
    BY <1>14, <2>1, <2>2 DEF Send, U!Add
<1>15. CASE InterruptCreate
  BY <1>15 DEF InterruptCreate, Interrupts
<1>16. CASE InterruptHold
  BY <1>16 DEF InterruptHold, Fails, Interrupts
<1>17. CASE InterruptAdd
  BY <1>17 DEF InterruptAdd, Fails, Interrupts, U!Raise
<1>18. CASE InterruptCleanup
  BY <1>18 DEF InterruptCleanup, Interrupts
<1> QED
  BY <1>1, <1>2, <1>3, <1>4, <1>5, <1>6, <1>7, <1>8, <1>9, <1>10, <1>11, <1>12, <1>13,
     <1>14, <1>15, <1>16, <1>17, <1>18 DEF Steps

\* As long as the Tasks may run, the files they read are added to, never deleted.
LEMMA StillThere ==
  ASSUME BuiltInv, bucket \subseteq bucket', kind' = kind, group' = group, built' = built,
         kind # "raw" /\ wr' \in Live /\ "cancel" \notin undone'
           => wr \in Live /\ "cancel" \notin undone
  PROVE  BuiltInv'
BY DEF BuiltInv, Built

\* Before the Tasks, no files are needed.
LEMMA NoneBuilt ==
  ASSUME group' = 1, built' = 0
  PROVE  BuiltInv'
<1> SUFFICES ASSUME NEW g \in Group, NEW b \in Batch, Built(g, b)' PROVE FALSE
  BY DEF BuiltInv
<1> QED
  BY DEF Built, Group, Batch

\* The files that Tasks which may run read.
LEMMA BuiltStep == TypeOK /\ StartInv /\ StageInv /\ UploadInv /\ BuiltInv /\ Next => BuiltInv'
<1> SUFFICES ASSUME TypeOK, StartInv, StageInv, UploadInv, BuiltInv, Steps PROVE BuiltInv'
  BY NextSteps
<1> USE DEF StartInv, Live, asked, files
<1>1. CASE Create
  BY <1>1, NoneBuilt DEF Create, upload
<1>2. CASE CreateFails
  BY <1>2, NoneBuilt DEF CreateFails, upload
<1>3. CASE Enter
  BY <1>3, NoneBuilt DEF Enter, upload
<1>4. CASE Hold
  BY <1>4, NoneBuilt DEF Hold, upload
<1>5. CASE HoldFails
  BY <1>5, NoneBuilt DEF HoldFails, Fails, upload
<1>6. CASE Build
  <2> SUFFICES ASSUME kind' # "raw", wr' \in Live, "cancel" \notin undone',
                      NEW g \in Group, NEW b \in Batch, Built(g, b)'
               PROVE  Reads[g][b] \subseteq bucket'
    BY DEF BuiltInv
  <2>1. CASE g = group /\ b = built
    BY <1>6, <2>1 DEF Build, Needs
  <2>2. CASE Built(g, b)
    BY <1>6, <2>2 DEF Build, BuiltInv
  <2>3. Built(g, b) \/ (g = group /\ b = built)
    BY <1>6 DEF Build, Built, TypeOK, Batch
  <2> QED
    BY <2>1, <2>2, <2>3
<1>7. CASE UploadReturns
  BY <1>7, StillThere DEF UploadReturns, U!Return, upload
<1>8. CASE NextGroup
  <2>1. CASE group < NumGroups
    <3> SUFFICES ASSUME kind' # "raw", wr' \in Live, "cancel" \notin undone',
                        NEW g \in Group, NEW b \in Batch, Built(g, b)'
                 PROVE  Reads[g][b] \subseteq bucket'
      BY DEF BuiltInv
    <3>1. Built(g, b)
      <4>1. b < built
        BY <1>8 DEF NextGroup, UploadInv
      <4>2. group' = group + 1 /\ ~(b < built')
        BY <1>8, <2>1 DEF NextGroup, Batch
      <4> QED
        BY <4>1, <4>2, Groups DEF Built, TypeOK, Group
    <3> QED
      BY <1>8, <3>1 DEF NextGroup, BuiltInv
  <2>2. CASE ~(group < NumGroups)
    BY <1>8, <2>2, StillThere DEF NextGroup, upload
  <2> QED
    BY <2>1, <2>2
<1>9. CASE UploadRaises
  BY <1>9, StillThere DEF UploadRaises, Fails, U!Raise, upload
<1>10. CASE Cancel
  BY <1>10, StillThere DEF Cancel, upload
<1>11. CASE CancelFails
  BY <1>11, StillThere DEF CancelFails, upload
<1>12. CASE Deleted
  BY <1>12, StillThere DEF Deleted, upload
<1>13. CASE \E f \in File : DeleteFile(f)
  BY <1>13 DEF DeleteFile, StageInv, BuiltInv, Live
<1>14. CASE Send
  BY <1>14, StillThere DEF Send, U!Add, upload
<1>15. CASE InterruptCreate
  BY <1>15, NoneBuilt DEF InterruptCreate, Interrupts, upload
<1>16. CASE InterruptHold
  BY <1>16, NoneBuilt DEF InterruptHold, Fails, Interrupts, upload
<1>17. CASE InterruptAdd
  <2>1. bucket \subseteq bucket'
    BY <1>17 DEF InterruptAdd
  <2> QED
    BY <1>17, <2>1, StillThere DEF InterruptAdd, Fails, U!Raise
<1>18. CASE InterruptCleanup
  <2>1. CASE pc = "cancel"
    BY <1>18, <2>1 DEF InterruptCleanup, BuiltInv
  <2>2. CASE pc = "delete"
    BY <1>18, <2>2 DEF InterruptCleanup, StageInv, BuiltInv, Live
  <2> QED
    BY <1>18, <2>1, <2>2 DEF InterruptCleanup
<1> QED
  BY <1>1, <1>2, <1>3, <1>4, <1>5, <1>6, <1>7, <1>8, <1>9, <1>10, <1>11, <1>12, <1>13,
     <1>14, <1>15, <1>16, <1>17, <1>18 DEF Steps

LEMMA Invariance == Spec => []IInv
<1>1. IInv /\ [Next]_vars => IInv'
  <2>1. CASE UNCHANGED vars
    <3> SUFFICES ASSUME IInv PROVE IInv'
      OBVIOUS
    <3> USE <2>1 DEF vars, asked, upload, files, IInv, Ended, Holding
    <3>1. TypeOK' /\ StartInv' /\ StageInv' /\ UploadInv'
      BY DEF TypeOK, StartInv, StageInv, UploadInv
    <3>2. BuiltInv' /\ FilesInv' /\ CancelledOnFailure'
      BY DEF BuiltInv, Built, FilesInv, CancelledOnFailure
    <3> QED
      BY <3>1, <3>2
  <2>2. CASE Next
    BY <2>2, TypeStep, StartStep, StageStep, UploadStep, BuiltStep, FilesStep, CancelledStep
       DEF IInv
  <2> QED
    BY <2>1, <2>2
<1> QED
  BY <1>1, InitHolds, PTL DEF Spec
-----------------------------------------------------------------------------
(* What a submission leaves behind. *)

\* Every variable keeps its type: the files a run knows to delete are among the
\* upload paths, and the Task Groups and batches are counted within their bounds.
THEOREM TypeCorrect == Spec => []TypeOK
BY Invariance, PTL DEF IInv

LEMMA TasksAreBuilt ==
  ASSUME TypeOK, UploadInv, NEW g \in Group, NEW b \in TasksIn(g)
  PROVE  b \in Batch /\ Built(g, b)
<1>1. CASE g < group
  BY <1>1 DEF TasksIn, Built
<1>2. CASE g = group
  BY <1>2 DEF TasksIn, Built, UploadInv, TypeOK, Group
<1>3. CASE g > group
  BY <1>3 DEF TasksIn, TypeOK, Group
<1> QED
  BY <1>1, <1>2, <1>3 DEF TypeOK, Group

\* A submission that ends well (submit_work_requirement() returns) leaves every
\* Task in a live Work Requirement, held if that was asked for.
THEOREM EndsWell == Spec => []SuccessIsWhole
<1>1. IInv => SuccessIsWhole
  <2> SUFFICES ASSUME IInv, Ended, failure = "none", NEW g \in Group
               PROVE  TasksIn(g) = Batch /\ wr \in IF Holding THEN {"held"} ELSE Live
    BY Groups DEF SuccessIsWhole, IInv, UploadInv, Group
  <2>1. group = NumGroups /\ wr \in IF Holding THEN {"held"} ELSE Live
    BY DEF IInv, UploadInv
  <2>2. \A b \in Batch : contents[b] = 1
    BY DEF IInv, UploadInv
  <2>3. CASE g < group
    <3>1. ~(g = group) /\ ~(g > group)
      BY <2>1, <2>3, Groups DEF Group
    <3> QED
      BY <2>1, <2>3, <3>1 DEF TasksIn
  <2>4. CASE g = group
    BY <2>1, <2>2, <2>4, Groups DEF TasksIn
  <2> QED
    BY <2>1, <2>3, <2>4, Groups DEF Group
<1> QED
  BY <1>1, Invariance, PTL

\* With '--hold' (HOLD in submit.py), no Task is in the Work Requirement until
\* it has been held.
THEOREM HeldFirst == Spec => []HeldBeforeTasks
<1>1. IInv => HeldBeforeTasks
  <2> SUFFICES ASSUME IInv, Holding, wr = "live", NEW g \in Group PROVE TasksIn(g) = {}
    BY DEF HeldBeforeTasks
  <2>1. group = 1 /\ built = 0
    BY DEF IInv, UploadInv
  <2> SUFFICES ASSUME NEW b \in TasksIn(g) PROVE FALSE
    OBVIOUS
  <2> QED
    BY <2>1, TasksAreBuilt, Groups DEF IInv, Built, Group, Batch
<1> QED
  BY <1>1, Invariance, PTL

\* A new Work Requirement whose submission fails is cancelled
\* (cleanup_on_failure()), or the run knows that it may not be.
THEOREM FailureCancels == Spec => []CancelledOnFailure
BY Invariance, PTL DEF IInv

\* One added to is left live, with the files its new Tasks may read.
THEOREM AddToLeaves == Spec => []AddedToIsLeft
<1>1. IInv => AddedToIsLeft
  <2> SUFFICES ASSUME IInv, kind = "add" PROVE AddedToIsLeft
    BY DEF AddedToIsLeft
  <2>1. wr \in Live /\ undone = {}
    BY DEF IInv, StageInv
  <2> QED
    BY <2>1 DEF IInv, BuiltInv, Built, AddedToIsLeft
<1> QED
  BY <1>1, Invariance, PTL

\* The clean-up takes no input file from Tasks that can still run, unless their
\* Work Requirement could not be cancelled.
THEOREM InputsStay == Spec => []LiveTasksHaveInputs
<1>1. IInv => LiveTasksHaveInputs
  BY TasksAreBuilt DEF IInv, BuiltInv, LiveTasksHaveInputs
<1> QED
  BY <1>1, Invariance, PTL

\* A submission that fails on its own leaves the upload paths as they were,
\* unless a file could not be deleted.
THEOREM LeavesNothing == Spec => []NothingLeftBehind
<1>1. IInv => NothingLeftBehind
  BY DEF IInv, FilesInv, NothingLeftBehind
<1> QED
  BY <1>1, Invariance, PTL
=============================================================================
