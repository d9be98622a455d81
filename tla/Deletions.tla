------------------------------ MODULE Deletions ------------------------------
(***************************************************************************)
(* 'yd data delete' (delete.py, and the deletions of                       *)
(* dataclient/operations.py): each path, or what a wildcard matches, is    *)
(* listed once, confirmed, and deleted, the files of a directory in one    *)
(* rclone run and the rest each in its own.                                *)
(*                                                                         *)
(* External: rclone, which may fail having deleted any of a run's files,   *)
(* and does not fail for those in a list that are gone already; and the    *)
(* remote, to and from which others may upload and delete.                 *)
(***************************************************************************)
EXTENDS Integers, FiniteSets, Trees

CONSTANTS
  Lines,             \* command lines: [paths, recursive], each path [glob, of]:
                     \* the paths it matches, or its own; <<>> for the root
  Remotes,
  Theirs,            \* files that others may upload: [to, size]
  MaxTheirs          \* the times that others change the remote

OK == 0
FAILURE == 1
USAGE == 2
Running == -1

Parameters ==
  /\ \A l \in Lines : \A k \in DOMAIN l.paths : ~l.paths[k].glob => Cardinality(l.paths[k].of) = 1
  /\ MaxTheirs \in Nat

VARIABLES
  line, paths,       \* those left
  pc,                \* "start", "list", "confirm", "delete" or "returned"
  targets,           \* what the path's listing gave: paths, in order
  runs,              \* rclone runs left: sequences of paths
  failures, exit,
  told,              \* told[p]: the last record of p
  remote, theirs,
  before, agreed     \* for the properties: remote at the start, and what was
                     \* confirmed: with whether others have uploaded to it since

vars == <<line, paths, pc, targets, runs, failures, exit, told, remote, theirs,
          before, agreed>>

Init ==
  /\ line \in Lines
  /\ paths = FoldLeft(LAMBDA s, p : IF Contains(s, p) THEN s ELSE Append(s, p), <<>>, line.paths)
  /\ pc = "start" /\ targets = <<>> /\ runs = <<>>
  /\ failures = 0 /\ exit = Running /\ told = <<>>
  /\ remote \in Remotes /\ theirs = 0
  /\ before = remote /\ agreed = <<>>
-----------------------------------------------------------------------------
(* Which are deleted. *)

The(p) == CHOOSE q \in p.of : TRUE

\* The remote's root, or the bucket itself, but not a wildcard within it
Root(p) == ~p.glob /\ The(p) = <<>>

\* _refuse_roots()
Start ==
  /\ pc = "start"
  /\ IF \E k \in DOMAIN paths : Root(paths[k])
     THEN pc' = "returned" /\ exit' = USAGE
     ELSE pc' = "list" /\ UNCHANGED exit
  /\ UNCHANGED <<line, paths, targets, runs, failures, told, remote, theirs, before, agreed>>

Told(ps, action) == [p \in ps |-> action] @@ told

IsFile(p) == p \in DOMAIN remote
Found(p) == {q \in p.of : Holds(remote, q)}

\* It cannot be listed: the path itself fails
ListFails ==
  /\ pc = "list" /\ paths # <<>>
  /\ paths' = Tail(paths) /\ failures' = failures + 1
  /\ told' = IF paths[1].glob THEN told ELSE Told(paths[1].of, "failed")
  /\ UNCHANGED <<line, pc, targets, runs, exit, remote, theirs, before, agreed>>

\* deletion_targets(): nothing there is skipped, and a directory fails without
\* '--recursive'
List ==
  /\ pc = "list" /\ paths # <<>>
  /\ LET found == Found(paths[1])
         refused == {p \in found : ~IsFile(p) /\ ~line.recursive}
     IN /\ targets' = SetToSeq(found \ refused)
        /\ failures' = failures + Cardinality(refused)
        /\ told' = IF found = {} /\ ~paths[1].glob THEN Told(paths[1].of, "skipped")
                   ELSE Told(refused, "failed")
        /\ IF found = refused THEN paths' = Tail(paths) /\ UNCHANGED pc
           ELSE pc' = "confirm" /\ UNCHANGED paths
  /\ UNCHANGED <<line, runs, exit, remote, theirs, before, agreed>>

Decline ==
  /\ pc = "confirm"
  /\ told' = Told({targets[k] : k \in DOMAIN targets}, "skipped")
  /\ pc' = "list" /\ paths' = Tail(paths) /\ targets' = <<>>
  /\ UNCHANGED <<line, runs, failures, exit, remote, theirs, before, agreed>>

\* NoAnswerToPrompt: nothing more is tried
NoAnswer ==
  /\ pc = "confirm"
  /\ pc' = "returned" /\ exit' = FAILURE
  /\ UNCHANGED <<line, paths, targets, runs, failures, told, remote, theirs, before, agreed>>

\* delete_items(), _by_directory(): files of one directory together
Runs(ts) ==
  LET files == SelectSeq(ts, IsFile)
      With(p) == SelectSeq(files, LAMBDA q : Front(q) = Front(p))
      firsts == SelectSeq(files, LAMBDA p : Len(With(p)) > 1 /\ p = With(p)[1])
      singles == SelectSeq(ts, LAMBDA p : ~IsFile(p) \/ Len(With(p)) = 1)
  IN [k \in DOMAIN firsts |-> With(firsts[k])] \o [k \in DOMAIN singles |-> <<singles[k]>>]

\* Mutant: what a wildcard matches is listed again once it is confirmed.
Confirm_ListedAgain ==
  /\ pc = "confirm"
  /\ pc' = "delete" /\ runs' = Runs(SetToSeq(Found(paths[1])))
  /\ agreed' = [k \in DOMAIN targets |-> targets[k]] \o agreed
  /\ UNCHANGED <<line, paths, targets, failures, exit, told, remote, theirs, before>>

Confirm ==
  /\ pc = "confirm"
  /\ pc' = "delete" /\ runs' = Runs(targets)
  /\ agreed' = targets \o agreed
  /\ UNCHANGED <<line, paths, targets, failures, exit, told, remote, theirs, before>>
-----------------------------------------------------------------------------
(* One rclone run: 'delete' of several files, 'deletefile' or 'purge'. *)

Removes(tree, p) == Without(tree, {p} \cup Under(tree, p))

Succeeds ==
  /\ pc = "delete" /\ runs # <<>>
  /\ remote' = FoldLeft(Removes, remote, runs[1])
  /\ told' = Told({runs[1][k] : k \in DOMAIN runs[1]}, "deleted")
  /\ runs' = Tail(runs)
  /\ UNCHANGED <<line, paths, pc, targets, failures, exit, theirs, before, agreed>>

\* Mutant: a directory that cannot be listed is taken to hold none.
Left_NoneUnlisted(r, listed) ==
  IF Len(r) = 1 THEN {r[1]}
  ELSE IF listed THEN {r[k] : k \in DOMAIN r} \cap DOMAIN remote' ELSE {}

\* Those of a run that failed that are recorded as failed: of several files,
\* those still there, or if they cannot be listed, all (_files_left())
Left(r, listed) ==
  IF Len(r) = 1 \/ ~listed THEN {r[k] : k \in DOMAIN r}
  ELSE {r[k] : k \in DOMAIN r} \cap DOMAIN remote'

Fails ==
  /\ pc = "delete" /\ runs # <<>>
  /\ \E done \in SUBSET UNION {{runs[1][k]} \cup Under(remote, runs[1][k]) : k \in DOMAIN runs[1]},
        listed \in BOOLEAN :
       LET left == Left(runs[1], listed) IN
         /\ remote' = Without(remote, done)
         /\ told' = [p \in left |-> "failed"] @@ Told({runs[1][k] : k \in DOMAIN runs[1]}, "deleted")
         /\ failures' = failures + Cardinality(left)
  /\ runs' = Tail(runs)
  /\ UNCHANGED <<line, paths, pc, targets, exit, theirs, before, agreed>>

Deleted ==
  /\ pc = "delete" /\ runs = <<>>
  /\ pc' = "list" /\ paths' = Tail(paths) /\ targets' = <<>>
  /\ UNCHANGED <<line, runs, failures, exit, told, remote, theirs, before, agreed>>

Finish ==
  /\ pc = "list" /\ paths = <<>>
  /\ pc' = "returned" /\ exit' = IF failures > 0 THEN FAILURE ELSE OK
  /\ UNCHANGED <<line, paths, targets, runs, failures, told, remote, theirs, before, agreed>>
-----------------------------------------------------------------------------
(* External: others. *)

OthersUpload ==
  /\ theirs < MaxTheirs /\ pc # "returned"
  /\ \E f \in Theirs : f.to \notin DOMAIN remote /\ remote' = Written(remote, <<f>>)
                       /\ told' = Without(told, {f.to, Front(f.to)})
  /\ theirs' = theirs + 1
  /\ UNCHANGED <<line, paths, pc, targets, runs, failures, exit, before, agreed>>

OthersDelete ==
  /\ theirs < MaxTheirs /\ pc # "returned"
  /\ \E p \in DOMAIN remote :
       remote' = Without(remote, {p}) /\ before' = Without(before, {p})
  /\ theirs' = theirs + 1
  /\ UNCHANGED <<line, paths, pc, targets, runs, failures, exit, told, agreed>>

Next ==
  \/ Start \/ ListFails \/ List \/ Decline \/ NoAnswer \/ Confirm \/ Succeeds \/ Fails
  \/ Deleted \/ Finish \/ OthersUpload \/ OthersDelete

Spec == Init /\ [][Next]_vars
-----------------------------------------------------------------------------
(* What it is meant to ensure. *)

\* What was recorded as deleted is gone, however much of its run failed, until
\* others upload it again; and success means that nothing failed.
DeletedIsGone ==
  /\ \A p \in DOMAIN told : told[p] = "deleted" => ~Holds(remote, p)
  /\ exit = OK => \A p \in DOMAIN told : told[p] # "failed"

\* "What is shown and confirmed is exactly what is deleted": a file that is gone,
\* and that others did not delete, was confirmed, or in a directory that was.
OnlyConfirmed ==
  \A p \in DOMAIN before \ DOMAIN remote :
    \E k \in DOMAIN agreed : agreed[k] = p \/ In(agreed[k], p)
=============================================================================
