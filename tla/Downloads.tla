------------------------------ MODULE Downloads ------------------------------
(***************************************************************************)
(* 'yd data download' (download.py, and the downloads of                   *)
(* dataclient/operations.py): each remote path given is listed and fetched *)
(* in turn, by one rclone run or several.  With '--sync', what a run       *)
(* fetches into is made to mirror it, so where each would go is looked at  *)
(* before anything is fetched.                                             *)
(*                                                                         *)
(* External: rclone, which may fail having fetched any of a run's files,   *)
(* and deletes nothing of a sync that fails; and the remote, whose files   *)
(* others may change between one argument and the next.                    *)
(***************************************************************************)
EXTENDS Integers, FiniteSets, Trees

CONSTANTS
  Lines,             \* command lines: [args, sync, flatten, to], each argument
                     \* [glob, of]: the names it matches, or its own; {} if '/'
  Remotes, Locals,   \* the trees there may be at the start
  Others             \* files that others may upload: [to, size]

OK == 0
FAILURE == 1
USAGE == 2
Running == -1

Parameters ==
  /\ \A l \in Lines :
       /\ l.to \in {"bare", "into", "destination"}
       /\ ~(l.sync /\ l.flatten)            \* refused by the command line
       /\ \A k \in DOMAIN l.args : ~l.args[k].glob => Cardinality(l.args[k].of) <= 1

VARIABLES
  line, args,        \* those left
  pc,                \* "check", "argument", "run" or "returned"
  unchecked,         \* the wildcards that could not be listed for a sync
  runs,              \* rclone runs left of an argument: [kind, into, files]
  succeeded,         \* of the argument, so far
  failures, exit,
  told,              \* told[p]: the last record of local path p: [action, size]
  remote, local,
  before, planned    \* for the properties: local at the start, and the paths to
                     \* be written that arguments have listed

vars == <<line, args, pc, unchecked, runs, succeeded, failures, exit, told,
          remote, local, before, planned>>

Init ==
  /\ line \in Lines
  /\ args = FoldLeft(LAMBDA s, a : IF Contains(s, a) THEN s ELSE Append(s, a), <<>>, line.args)
  /\ pc = IF line.sync THEN "check" ELSE "argument"
  /\ unchecked = {} /\ runs = <<>> /\ succeeded = TRUE /\ failures = 0
  /\ exit = Running /\ told = <<>>
  /\ remote \in Remotes /\ local \in Locals
  /\ before = local /\ planned = {}
-----------------------------------------------------------------------------
(* Where each argument goes. *)

Base == IF line.to = "bare" THEN <<>> ELSE <<"D">>

\* local_destination_for()
Destination(a) ==
  IF line.to = "destination" \/ a.glob THEN Base ELSE Base \o SetToSeq(a.of)

\* destination_is_item()
IsItem(a) == ~a.glob /\ line.to # "destination"

\* glob_matches()
Matches(a) == {n \in a.of : Holds(remote, <<n>>)}

\* The paths that a sync of it would mirror into
Targets(a) ==
  IF a.glob THEN {Destination(a) \o <<n>> : n \in Matches(a)} ELSE {Destination(a)}

\* Mutant: the current directory may be synced into.
Problems_NotCwd(as) ==
  \E i, j \in DOMAIN as : i < j /\ Targets(as[i]) \cap Targets(as[j]) # {}

Problems(as) ==
  \/ \E i \in DOMAIN as : line.to # "destination" /\ <<>> \in Targets(as[i])
  \/ \E i, j \in DOMAIN as : i < j /\ Targets(as[i]) \cap Targets(as[j]) # {}

\* _refuse_unsafe_syncs()
Check ==
  /\ pc = "check"
  /\ \E unlisted \in SUBSET {args[k] : k \in {j \in DOMAIN args : args[j].glob}} :
       /\ unchecked' = unlisted
       /\ IF Problems(SelectSeq(args, LAMBDA a : a \notin unlisted))
          THEN pc' = "returned" /\ exit' = USAGE
          ELSE pc' = "argument" /\ UNCHANGED exit
  /\ UNCHANGED <<line, args, runs, succeeded, failures, told, remote, local, before, planned>>
-----------------------------------------------------------------------------
(* One argument: download_files(), _download_with_glob(). *)

Ready == pc = "argument" /\ args # <<>>

\* One never synced unchecked, one that is not there, one not listed
ArgumentFails ==
  /\ Ready
  /\ args' = Tail(args) /\ failures' = failures + 1
  /\ UNCHANGED <<line, pc, unchecked, runs, succeeded, exit, told, remote, local, before, planned>>

\* The files of the directory at source, as they go to a directory
Tree(source, into) ==
  LET ps == SetToSeq(Under(remote, source))
      Place(p) == IF line.flatten THEN <<Last(p)>> ELSE Below(source, p)
  IN [k \in DOMAIN ps |-> [to |-> into \o Place(ps[k]), size |-> remote[ps[k]]]]

Run(kind, into, files) == [kind |-> kind, into |-> into, files |-> files]

DirectoryRun(source, into) ==
  Run(IF line.flatten THEN "each" ELSE IF line.sync THEN "sync" ELSE "copy",
      into, Tree(source, into))

FileRun(n, into) == Run("copy", into, <<[to |-> into, size |-> remote[<<n>>]]>>)

\* A wildcard's files in one run, and each directory that it matches in another
GlobRuns(a) ==
  LET files == SetToSeq({n \in Matches(a) : <<n>> \in DOMAIN remote})
      dirs == SetToSeq(Matches(a) \ {files[k] : k \in DOMAIN files})
      into == Destination(a)
  IN (IF files = <<>> THEN <<>>
      ELSE <<Run("batch", into, [k \in DOMAIN files |->
               [to |-> into \o <<files[k]>>, size |-> remote[<<files[k]>>]]])>>)
     \o [k \in DOMAIN dirs |->
           DirectoryRun(<<dirs[k]>>,
                        IF line.flatten THEN into ELSE into \o <<dirs[k]>>)]

ItemRuns(a) ==
  LET source == SetToSeq(a.of)
      into == Destination(a)
  IN <<IF source \in DOMAIN remote
       THEN FileRun(source[1], IF IsItem(a) THEN into ELSE into \o source)
       ELSE DirectoryRun(source, into)>>

ArgumentBegins ==
  /\ Ready
  /\ LET a == args[1] IN
       /\ a \notin unchecked
       /\ IF a.glob THEN Matches(a) # {} ELSE Holds(remote, SetToSeq(a.of))
       /\ runs' = IF a.glob THEN GlobRuns(a) ELSE ItemRuns(a)
  /\ planned' = planned \cup
       UNION {{runs'[k].files[f].to : f \in DOMAIN runs'[k].files} : k \in DOMAIN runs'}
  /\ pc' = "run" /\ succeeded' = TRUE
  /\ UNCHANGED <<line, args, unchecked, failures, exit, told, remote, local, before>>

ArgumentEnds ==
  /\ pc = "run" /\ runs = <<>>
  /\ args' = Tail(args) /\ pc' = "argument"
  /\ failures' = failures + (IF succeeded THEN 0 ELSE 1)
  /\ UNCHANGED <<line, unchecked, runs, succeeded, exit, told, remote, local, before, planned>>

Finish ==
  /\ pc = "argument" /\ args = <<>>
  /\ pc' = "returned" /\ exit' = IF failures > 0 THEN FAILURE ELSE OK
  /\ UNCHANGED <<line, args, unchecked, runs, succeeded, failures, told, remote, local, before, planned>>
-----------------------------------------------------------------------------
(* One rclone run, and what is recorded of it. *)

\* A record of each of the files fs, the last of a path's standing
Records(fs, Action(_)) ==
  FoldLeft(LAMBDA t, k : (fs[k].to :> [action |-> Action(k), size |-> fs[k].size]) @@ t,
           told, [k \in DOMAIN fs |-> k])

\* Mutant: a later run that succeeds stands for those before it.
Succeeds_Forgets ==
  /\ pc = "run" /\ runs # <<>>
  /\ local' = Written(local, runs[1].files)
  /\ told' = Records(runs[1].files, LAMBDA k : "downloaded")
  /\ runs' = Tail(runs) /\ succeeded' = TRUE
  /\ UNCHANGED <<line, args, pc, unchecked, failures, exit, remote, before, planned>>

Succeeds ==
  /\ pc = "run" /\ runs # <<>>
  /\ LET r == runs[1]
         written == Written(local, r.files)
         mirrored == {r.files[k].to : k \in DOMAIN r.files}
     IN /\ local' = IF r.kind = "sync" THEN Without(written, Under(written, r.into) \ mirrored)
                    ELSE written
        /\ told' = Records(r.files, LAMBDA k : "downloaded")
  /\ runs' = Tail(runs)
  /\ UNCHANGED <<line, args, pc, unchecked, succeeded, failures, exit, remote, before, planned>>

\* Mutant: what the failed run fetched is not looked at.
Fetched_Taken(r, k, done) == r.kind # "copy"

\* Whether the file k is recorded as downloaded by a run that failed: a batch's
\* by whether it is there at its size (_arrived()), and each copied alone by its
\* own result; of the others, which failed is unknown
Fetched(r, k, done) ==
  \/ r.kind = "batch" /\ r.files[k].to \in DOMAIN local' /\ local'[r.files[k].to] = r.files[k].size
  \/ r.kind = "each" /\ k \in done

Fails ==
  /\ pc = "run" /\ runs # <<>>
  /\ \E done \in SUBSET DOMAIN runs[1].files :
       LET r == runs[1]
           some == SelectSeq([k \in DOMAIN r.files |-> k], LAMBDA k : k \in done)
       IN /\ r.kind = "each" => done # DOMAIN r.files
          /\ local' = Written(local, [k \in DOMAIN some |-> r.files[some[k]]])
          /\ told' = Records(r.files, LAMBDA k : IF Fetched(r, k, done) THEN "downloaded" ELSE "failed")
          /\ succeeded' = (succeeded /\ \A k \in DOMAIN r.files : Fetched(r, k, done))
  /\ runs' = Tail(runs)
  /\ UNCHANGED <<line, args, pc, unchecked, failures, exit, remote, before, planned>>

OthersUpload ==
  /\ pc = "argument"
  /\ \E f \in Others : ~Holds(remote, f.to) /\ remote' = Written(remote, <<f>>)
  /\ UNCHANGED <<line, args, pc, unchecked, runs, succeeded, failures, exit, told, local, before, planned>>

Next ==
  \/ Check \/ ArgumentFails \/ ArgumentBegins \/ ArgumentEnds \/ Finish
  \/ Succeeds \/ Fails \/ OthersUpload

Spec == Init /\ [][Next]_vars
-----------------------------------------------------------------------------
(* What it is meant to ensure. *)

\* What was recorded as downloaded is there, at the size recorded: it was
\* fetched, however much of its run failed, and no sync of a later argument
\* deleted it.
DownloadedIsThere ==
  \A p \in DOMAIN told :
    told[p].action = "downloaded" => p \in DOMAIN local /\ local[p] = told[p].size

\* Unless it was named as the destination, the current directory is not
\* mirrored: no file of its own is deleted.
CurrentDirectoryKept ==
  line.to = "bare" => \A p \in DOMAIN before : Len(p) = 1 => p \in DOMAIN local

\* A run that reports success has downloaded all that its arguments matched.
ZeroMeansAll ==
  exit = OK => \A p \in planned : p \in DOMAIN told /\ told[p].action = "downloaded"
=============================================================================
