----------------------------- MODULE TaskUpload -----------------------------
(***************************************************************************)
(* What uploading the Tasks of one Task Group promises, without threads,   *)
(* attempts or lost responses: the Platform takes each batch at most once, *)
(* the upload may give up at any time, and it returns only when every      *)
(* batch is there, after which the Task Group's contents never change.     *)
(* TaskBatches implements it.                                              *)
(***************************************************************************)
EXTENDS Integers

CONSTANT Batch       \* the batches of the Task Group

VARIABLES
  contents,          \* contents[b]: copies of the batch b that the Platform holds
  outcome            \* "open" until the call ends, then "returned" or "raised"

vars == <<contents, outcome>>

Init == /\ contents = [b \in Batch |-> 0]
        /\ outcome = "open"

\* The Platform may still carry out a request of an upload that gave up.
Add(b) == /\ outcome # "returned"
          /\ contents[b] = 0
          /\ contents' = [contents EXCEPT ![b] = 1]
          /\ UNCHANGED outcome

Return == /\ outcome = "open"
          /\ \A b \in Batch : contents[b] = 1
          /\ outcome' = "returned"
          /\ UNCHANGED contents

Raise == /\ outcome = "open"
         /\ outcome' = "raised"
         /\ UNCHANGED contents

Next == Return \/ Raise \/ \E b \in Batch : Add(b)

Spec == Init /\ [][Next]_vars /\ WF_vars(Return \/ Raise)
=============================================================================
