------------------------------ MODULE InputFiles ------------------------------
(***************************************************************************)
(* RcloneUploadedFiles (utils/submit_utils.py): the input files that runs  *)
(* of the submit command upload for their Tasks, each looked for at its    *)
(* upload path, copied there if need be, and deleted after a failure if    *)
(* the run created it.  The remote store is external, and is shared by     *)
(* runs of separate processes: the look and the copy are two calls to it.  *)
(***************************************************************************)
EXTENDS Integers, Sequences, FiniteSets

CONSTANTS
  Run,               \* runs of the command
  Local, Path,       \* local files, and upload paths
  Uploads,           \* Uploads[r]: what r uploads, a sequence of [local, path]
  None               \* nothing at an upload path

Parameters ==
  /\ Uploads \in [Run -> Seq([local : Local, path : Path])]
  /\ None \notin Local \cup Run
  /\ Local # {}

VARIABLES
  overwrite,         \* overwrite[r]: '--overwrite'
  pc,                \* pc[r]: where the run is
  handled,           \* handled[r]: the number of its uploads dealt with
  alreadyThere,      \* alreadyThere[r]: what it found when it last looked
  seen, created,     \* _seen_files, and the paths of _rcloned_files
  bucket,            \* external: bucket[p], what is at the path p
  origin             \* for the properties: the run that first put it there

vars == <<overwrite, pc, handled, alreadyThere, seen, created, bucket, origin>>

Nobody == None
TypeOK ==
  /\ overwrite \in [Run -> BOOLEAN]
  /\ pc \in [Run -> {"next", "copy", "submitted", "delete", "failed"}]
  /\ handled \in [Run -> Nat] /\ \A r \in Run : handled[r] <= Len(Uploads[r])
  /\ alreadyThere \in [Run -> BOOLEAN]
  /\ seen \in [Run -> SUBSET [local : Local, path : Path]]
  /\ created \in [Run -> SUBSET Path]
  /\ bucket \in [Path -> Local \cup {None}]
  /\ origin \in [Path -> Run \cup {Nobody}]

Init ==
  /\ overwrite \in [Run -> BOOLEAN]
  /\ pc = [r \in Run |-> "next"]
  /\ handled = [r \in Run |-> 0]
  /\ alreadyThere = [r \in Run |-> FALSE]
  /\ seen = [r \in Run |-> {}]
  /\ created = [r \in Run |-> {}]
  /\ bucket \in [Path -> {None, CHOOSE l \in Local : TRUE}]
  /\ origin = [p \in Path |-> Nobody]

Upload(r) == Uploads[r][handled[r] + 1]
At(r, p) == pc' = [pc EXCEPT ![r] = p]
Handled(r) == handled' = [handled EXCEPT ![r] = @ + 1]

\* Another file is bound for the same place
Clashes(r) == \E u \in seen[r] : u.path = Upload(r).path /\ u.local # Upload(r).local
-----------------------------------------------------------------------------
(* upload_dataclient_input_files(), one file at a time *)

Duplicate(r) ==
  /\ pc[r] = "next" /\ handled[r] < Len(Uploads[r])
  /\ Upload(r) \in seen[r]
  /\ Handled(r)
  /\ UNCHANGED <<overwrite, pc, alreadyThere, seen, created, bucket, origin>>

\* Mutant: two files bound for the same place are not refused.
Look_NoRefusal(r) ==
  /\ pc[r] = "next" /\ handled[r] < Len(Uploads[r])
  /\ Upload(r) \notin seen[r]
  /\ alreadyThere' = [alreadyThere EXCEPT ![r] = bucket[Upload(r).path] # None]
  /\ At(r, "copy")
  /\ UNCHANGED <<overwrite, handled, seen, created, bucket, origin>>

\* rclone.exists(), unless another file is bound for the same place
Look(r) ==
  /\ pc[r] = "next" /\ handled[r] < Len(Uploads[r])
  /\ Upload(r) \notin seen[r]
  /\ ~Clashes(r)
  /\ alreadyThere' = [alreadyThere EXCEPT ![r] = bucket[Upload(r).path] # None]
  /\ At(r, "copy")
  /\ UNCHANGED <<overwrite, handled, seen, created, bucket, origin>>

\* 'if already_there and not overwrite'
Skip(r) ==
  /\ pc[r] = "copy"
  /\ alreadyThere[r] /\ ~overwrite[r]
  /\ seen' = [seen EXCEPT ![r] = @ \cup {Upload(r)}]
  /\ Handled(r)
  /\ At(r, "next")
  /\ UNCHANGED <<overwrite, alreadyThere, created, bucket, origin>>

\* Mutant: a file replaced counts as one created.
Copy_Claims(r) ==
  /\ pc[r] = "copy"
  /\ ~alreadyThere[r] \/ overwrite[r]
  /\ LET p == Upload(r).path IN
       /\ bucket' = [bucket EXCEPT ![p] = Upload(r).local]
       /\ origin' = IF bucket[p] = None THEN [origin EXCEPT ![p] = r] ELSE origin
       /\ created' = [created EXCEPT ![r] = @ \cup {p}]
  /\ seen' = [seen EXCEPT ![r] = @ \cup {Upload(r)}]
  /\ Handled(r)
  /\ At(r, "next")
  /\ UNCHANGED <<overwrite, alreadyThere>>

\* rclone.copy_to()
Copy(r) ==
  /\ pc[r] = "copy"
  /\ ~alreadyThere[r] \/ overwrite[r]
  /\ LET p == Upload(r).path IN
       /\ bucket' = [bucket EXCEPT ![p] = Upload(r).local]
       /\ origin' = IF bucket[p] = None THEN [origin EXCEPT ![p] = r] ELSE origin
       /\ created' = IF alreadyThere[r] THEN created
                     ELSE [created EXCEPT ![r] = @ \cup {p}]
  /\ seen' = [seen EXCEPT ![r] = @ \cup {Upload(r)}]
  /\ Handled(r)
  /\ At(r, "next")
  /\ UNCHANGED <<overwrite, alreadyThere>>

\* The Tasks are all added, and the files are theirs from now on
Submitted(r) ==
  /\ pc[r] = "next" /\ handled[r] = Len(Uploads[r])
  /\ At(r, "submitted")
  /\ UNCHANGED <<overwrite, handled, alreadyThere, seen, created, bucket, origin>>

\* A missing file, a clash, a failed copy, or any other failure of the submission
Fails(r) ==
  /\ pc[r] \in {"next", "copy"}
  /\ At(r, "delete")
  /\ UNCHANGED <<overwrite, handled, alreadyThere, seen, created, bucket, origin>>

\* delete(): each file the run created, whether or not it can be
Delete(r) ==
  /\ pc[r] = "delete"
  /\ \/ \E p \in created[r] :
          /\ created' = [created EXCEPT ![r] = @ \ {p}]
          /\ \/ bucket' = [bucket EXCEPT ![p] = None]
                /\ origin' = [origin EXCEPT ![p] = Nobody]
             \/ UNCHANGED <<bucket, origin>>
          /\ UNCHANGED <<pc, seen>>
     \/ /\ created[r] = {}
        /\ At(r, "failed")
        /\ seen' = [seen EXCEPT ![r] = {}]
        /\ UNCHANGED <<created, bucket, origin>>
  /\ UNCHANGED <<overwrite, handled, alreadyThere>>

Next == \E r \in Run :
  \/ Duplicate(r) \/ Look(r) \/ Skip(r) \/ Copy(r) \/ Submitted(r)
  \/ Fails(r) \/ Delete(r)

Spec == Init /\ [][Next]_vars
-----------------------------------------------------------------------------
(* What it is meant to ensure. *)

\* A file that was at its upload path before any of the runs, skipped or
\* replaced, is left there by all of them: no run's clean-up deletes it.
LeftThere == \A p \in Path : bucket[p] # None /\ origin[p] = Nobody => bucket'[p] # None
FoundKept == [][LeftThere]_vars

\* No two Tasks of a run that read different files from the same place are both
\* submitted: with one run at a path and '--overwrite', what its Tasks read is
\* the file they name.
Sends(r, p) == \E i \in 1 .. Len(Uploads[r]) : Uploads[r][i].path = p
OwnInputs ==
  \A r \in Run : pc[r] = "submitted" /\ overwrite[r] =>
    \A i \in 1 .. Len(Uploads[r]) :
      LET u == Uploads[r][i] IN
      bucket[u.path] = u.local \/ \E s \in Run \ {r} : Sends(s, u.path)
-----------------------------------------------------------------------------
(* Why it does. *)

Uploading == {"next", "copy", "submitted"}

\* Until it fails, a run has seen what it has dealt with, and nothing else.
SeenInv ==
  \A r \in Run :
    /\ pc[r] \in Uploading => seen[r] = {Uploads[r][i] : i \in 1 .. handled[r]}
    /\ pc[r] = "copy" => handled[r] < Len(Uploads[r]) /\ ~Clashes(r)
    /\ pc[r] = "submitted" => handled[r] = Len(Uploads[r])

\* A run deletes only at paths it uploads to.
CreatedInv == \A r \in Run : \A p \in created[r] : Sends(r, p)

\* What was there before is no run's to delete, nor about to be: the run that is
\* to copy over it has found it there.
FoundInv ==
  \A p \in Path : bucket[p] # None /\ origin[p] = Nobody =>
    \A r \in Run : /\ p \notin created[r]
                   /\ pc[r] = "copy" /\ Upload(r).path = p => alreadyThere[r]

\* What a run that overwrites has put in place is there until another's follows.
OwnInv ==
  \A r \in Run : pc[r] \in Uploading /\ overwrite[r] =>
    \A u \in seen[r] : bucket[u.path] = u.local \/ \E s \in Run \ {r} : Sends(s, u.path)

IInv == TypeOK /\ SeenInv /\ CreatedInv /\ FoundInv /\ OwnInv

\* A step of one run.
Step(r) ==
  \/ Duplicate(r) \/ Look(r) \/ Skip(r) \/ Copy(r) \/ Submitted(r) \/ Fails(r) \/ Delete(r)
=============================================================================
