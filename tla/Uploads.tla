------------------------------- MODULE Uploads -------------------------------
(***************************************************************************)
(* 'yd data upload' (upload.py, and the uploads of                         *)
(* dataclient/operations.py): where every argument goes is worked out and  *)
(* looked at before anything is sent.  The files given are sent together,  *)
(* those of a directory in one rclone run, and then each directory.        *)
(*                                                                         *)
(* External: rclone, which may fail having sent any of a run's files, and  *)
(* deletes nothing of a sync that fails.                                   *)
(***************************************************************************)
EXTENDS Integers, FiniteSets, Trees

CONSTANTS
  Lines,             \* command lines: [args, mode, to, prefix], each argument
                     \* [path, name] (the name of '.' is <<>>), and whether a
                     \* prefix is configured within the bucket
  Local,             \* the local files
  Remotes

OK == 0
FAILURE == 1
USAGE == 2
Running == -1

Parameters ==
  \A l \in Lines :
    /\ l.mode \in {"files only", "recursive", "flatten", "sync"}
    /\ l.to \in {"own", "directory", "path"} /\ l.prefix \in BOOLEAN

VARIABLES
  line,
  pc,                \* "plan", "run" or "returned"
  runs,              \* rclone runs left: [kind, into, files]
  failures, exit,
  told,              \* told[p]: the last record of remote path p: [action, size]
  remote,
  before             \* for the properties: remote at the start

vars == <<line, pc, runs, failures, exit, told, remote, before>>

Init ==
  /\ line \in Lines
  /\ pc = "plan" /\ runs = <<>> /\ failures = 0 /\ exit = Running /\ told = <<>>
  /\ remote \in Remotes /\ before = remote
-----------------------------------------------------------------------------
(* _plan() *)

IsDir(a) == Under(Local, a.path) # {}
Fails(a) == ~Holds(Local, a.path) \/ (IsDir(a) /\ line.mode = "files only")
Sent == SelectSeq(line.args, LAMBDA a : ~Fails(a))

\* Where an argument goes, within the bucket and prefix
Goes(a) ==
  IF line.to = "own" THEN a.name
  ELSE IF Len(line.args) > 1 \/ (line.to = "directory" /\ ~IsDir(a)) THEN <<"D">> \o a.name
  ELSE <<"D">>

\* _local_files(), as they go
FilesOf(a) ==
  IF ~IsDir(a) THEN <<[to |-> Goes(a), size |-> Local[a.path]]>>
  ELSE LET ps == SetToSeq(Under(Local, a.path))
           Place(p) == IF line.mode = "flatten" THEN <<Last(p)>> ELSE Below(a.path, p)
       IN [k \in DOMAIN ps |-> [to |-> Goes(a) \o Place(ps[k]), size |-> Local[ps[k]]]]

Destinations(a) ==
  IF line.mode = "flatten" THEN {FilesOf(a)[k].to : k \in DOMAIN FilesOf(a)} ELSE {Goes(a)}

\* Mutant: of a flattened directory, only where it goes is compared.
Collides_Directories(a, b) == a # b /\ Goes(a) = Goes(b)

\* _refuse_colliding_destinations(): an argument given twice is not refused
Collides(a, b) == a # b /\ Destinations(a) \cap Destinations(b) # {}

\* Mutant: the bucket itself may be synced to.
Unsafe_Not(a) == FALSE

\* _refuse_unsafe_syncs(), sync_destination_problem()
Unsafe(a) == line.mode = "sync" /\ IsDir(a) /\ Goes(a) = <<>> /\ ~line.prefix

Refused ==
  \E i, j \in DOMAIN Sent : Unsafe(Sent[i]) \/ Collides(Sent[i], Sent[j])

Run(kind, into, files) == [kind |-> kind, into |-> into, files |-> files]

\* upload_files(): the files of one local directory that go to one remote
\* directory under their own names go in one run, and each other in its own
Together(a, b) ==
  /\ Front(a.path) = Front(b.path) /\ Front(Goes(a)) = Front(Goes(b))
  /\ \A x \in {a, b} : Last(Goes(x)) = Last(x.path)

FileRuns ==
  LET files == SelectSeq(Sent, LAMBDA a : ~IsDir(a))
      With(k) == SelectSeq([j \in DOMAIN files |-> j], LAMBDA j : Together(files[k], files[j]))
      First(k) == Len(With(k)) > 1 /\ k = With(k)[1]
      Alone(k) == Len(With(k)) <= 1
      ks == [j \in DOMAIN files |-> j]
      Batch(k) == Run("batch", Front(Goes(files[k])),
                      [j \in DOMAIN With(k) |-> FilesOf(files[With(k)[j]])[1]])
      firsts == SelectSeq(ks, First)
      singles == SelectSeq(ks, Alone)
  IN [j \in DOMAIN firsts |-> Batch(firsts[j])]
     \o [j \in DOMAIN singles |-> Run("copy", Goes(files[singles[j]]), FilesOf(files[singles[j]]))]

DirectoryRuns ==
  LET dirs == SelectSeq(Sent, IsDir)
      kind == CASE line.mode = "flatten" -> "each"
                [] line.mode = "sync" -> "sync"
                [] OTHER -> "copy"
  IN [k \in DOMAIN dirs |-> Run(kind, Goes(dirs[k]), FilesOf(dirs[k]))]

Plan ==
  /\ pc = "plan"
  /\ IF Refused
     THEN /\ pc' = "returned" /\ exit' = USAGE
          /\ UNCHANGED runs
     ELSE /\ pc' = "run" /\ runs' = FileRuns \o DirectoryRuns
          /\ UNCHANGED exit
  /\ failures' = Len(line.args) - Len(Sent)
  /\ UNCHANGED <<line, told, remote, before>>
-----------------------------------------------------------------------------
(* One rclone run, and what is recorded of it. *)

Records(fs, Action(_)) ==
  FoldLeft(LAMBDA t, k : (fs[k].to :> [action |-> Action(k), size |-> fs[k].size]) @@ t,
           told, [k \in DOMAIN fs |-> k])

Succeeds ==
  /\ pc = "run" /\ runs # <<>>
  /\ LET r == runs[1]
         written == Written(remote, r.files)
         mirrored == {r.files[k].to : k \in DOMAIN r.files}
     IN /\ remote' = IF r.kind = "sync" THEN Without(written, Under(written, r.into) \ mirrored)
                     ELSE written
        /\ told' = Records(r.files, LAMBDA k : "uploaded")
  /\ runs' = Tail(runs)
  /\ UNCHANGED <<line, pc, failures, exit, before>>

\* Mutant: a directory that cannot be listed is taken to hold what was sent.
Arrived_Unlisted(r, k, listed, done) ==
  \/ r.kind = "batch" /\ (~listed \/ r.files[k].to \in DOMAIN remote')
  \/ r.kind = "each" /\ k \in done

\* Whether the file k is recorded as uploaded by a run that failed: of a batch,
\* if the remote directory can be listed and has it at its size
Arrived(r, k, listed, done) ==
  \/ /\ r.kind = "batch" /\ listed
     /\ r.files[k].to \in DOMAIN remote' /\ remote'[r.files[k].to] = r.files[k].size
  \/ r.kind = "each" /\ k \in done

\* A batch's files fail each, and a directory fails once
RunFails ==
  /\ pc = "run" /\ runs # <<>>
  /\ \E done \in SUBSET DOMAIN runs[1].files, listed \in BOOLEAN :
       LET r == runs[1]
           some == SelectSeq([k \in DOMAIN r.files |-> k], LAMBDA k : k \in done)
           failed == {k \in DOMAIN r.files : ~Arrived(r, k, listed, done)}
       IN /\ r.kind = "each" => done # DOMAIN r.files
          /\ remote' = Written(remote, [k \in DOMAIN some |-> r.files[some[k]]])
          /\ told' = Records(r.files, LAMBDA k : IF k \in failed THEN "failed" ELSE "uploaded")
          /\ failures' = failures + (IF r.kind = "batch" THEN Cardinality(failed)
                                     ELSE IF failed = {} THEN 0 ELSE 1)
  /\ runs' = Tail(runs)
  /\ UNCHANGED <<line, pc, exit, before>>

Finish ==
  /\ pc = "run" /\ runs = <<>>
  /\ pc' = "returned" /\ exit' = IF failures > 0 THEN FAILURE ELSE OK
  /\ UNCHANGED <<line, runs, failures, told, remote, before>>

Next == Plan \/ Succeeds \/ RunFails \/ Finish

Spec == Init /\ [][Next]_vars
-----------------------------------------------------------------------------
(* What it is meant to ensure. *)

\* What was recorded as uploaded is there, at the size recorded: it was sent,
\* however much of its run failed, and what a later argument sent neither
\* overwrote nor deleted it.  A directory's own files that are flattened into
\* one are warned of, the last of them standing.
UploadedIsThere ==
  \A p \in DOMAIN told :
    told[p].action = "uploaded" => p \in DOMAIN remote /\ remote[p] = told[p].size

\* No argument's file takes the place of another's.
NoneOverwritten ==
  exit = OK =>
    \A k \in DOMAIN line.args :
      \A f \in DOMAIN FilesOf(line.args[k]) :
        \E g \in DOMAIN FilesOf(line.args[k]) :
          LET sent == FilesOf(line.args[k])[g]
          IN /\ sent.to = FilesOf(line.args[k])[f].to
             /\ sent.to \in DOMAIN remote /\ remote[sent.to] = sent.size

\* The bucket itself is never made to mirror a directory: a file in it stays.
BucketKept ==
  ~line.prefix => \A p \in DOMAIN before : Len(p) = 1 => p \in DOMAIN remote
=============================================================================
