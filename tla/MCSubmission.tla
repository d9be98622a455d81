---------------------------- MODULE MCSubmission ----------------------------
(***************************************************************************)
(* Values for the constants of Submission: two Task Groups of two batches, *)
(* three input files, one of them read by Tasks of both Task Groups and    *)
(* one already there.                                                      *)
(***************************************************************************)
EXTENDS Submission, TLC

CONSTANTS data, model, there

AllKinds == {"new", "raw", "add"}
Files == {data, model, there}
AlreadyThere == {there}
Inputs == << (0 :> {data} @@ 1 :> {there}), (0 :> {data, model} @@ 1 :> {}) >>
=============================================================================
