-------------------------------- MODULE Trees --------------------------------
(***************************************************************************)
(* Trees of files, local or of an rclone remote: functions from paths,     *)
(* which are sequences of names, to sizes.  A directory is there as long   *)
(* as a file is in it, as it is in a bucket.                               *)
(***************************************************************************)
EXTENDS Sequences, SequencesExt, TLC

In(dir, p) == IsStrictPrefix(dir, p)
Under(tree, dir) == {p \in DOMAIN tree : In(dir, p)}
Holds(tree, p) == p \in DOMAIN tree \/ Under(tree, p) # {}
Below(dir, p) == SubSeq(p, Len(dir) + 1, Len(p))

Without(tree, ps) == [p \in DOMAIN tree \ ps |-> tree[p]]

\* With files [to, size] written to it in their order, a later over an earlier
Written(tree, files) ==
  FoldLeft(LAMBDA t, f : (f.to :> f.size) @@ t, tree, files)
=============================================================================
