------------------------------ MODULE Provision ------------------------------
(***************************************************************************)
(* A run of 'yd provision' or 'yd instantiate' (provision.py and           *)
(* instantiate.py): what is asked for is taken from the configuration, or  *)
(* from a specification with the configuration's values merged into it;    *)
(* the node counts of a Worker Pool are made consistent; a configuration's *)
(* are divided into batches; and each batch is provisioned and recorded in *)
(* turn, up to the first that fails.                                       *)
(*                                                                         *)
(* Of the properties merged the counts are modelled; the others are        *)
(* inserted by the same rule and sent as they are.  Interruptions are not  *)
(* modelled.                                                               *)
(***************************************************************************)
EXTENDS Integers, Sequences, FiniteSets

CONSTANTS
  None,              \* no value
  Configured,        \* counts a configuration may set: records of counts or None
  Specified,         \* counts a specification may have
  Targets,           \* what '--target' may give, or None
  BatchSizes,        \* 'computeRequirementBatchSize', once loaded
  Codes              \* the exit codes of failures

Count == Int \cup {None}
Counts == [target : Count, min : Count, max : Count]
SUCCESS == 0
FAILURE == 1
NOT_FOUND == 6
Unset == -1

Parameters ==
  /\ None \notin Int
  /\ Configured \subseteq Counts /\ Specified \subseteq Counts
  /\ Targets \subseteq Nat \cup {None}
  /\ BatchSizes \subseteq Nat \ {0}
  /\ Codes \subseteq 1 .. 8

VARIABLES
  command,           \* "provision" or "instantiate"
  source,            \* "configuration" or "specification"
  mode,              \* "run", "report" or "dry run"
  follow,            \* '--follow'
  config, overridden,\* the configuration's counts, those '--property' gave
  spec,              \* the specification's counts
  option,            \* '--target'
  size,
  pc,
  asked,             \* the counts to be sent
  batches,           \* those of each Worker Pool or Compute Requirement
  made,              \* external: the batches that exist on the Platform
  told,              \* the batches whose IDs are recorded
  followed,          \* the batches that were followed
  exit

input == <<command, source, mode, follow, config, overridden, spec, option, size>>
results == <<made, told, followed, exit>>
vars == <<input, pc, asked, batches, results>>

TypeOK ==
  /\ pc \in {"merge", "counts", "names", "model", "divide", "send", "follow", "done"}
  /\ asked \in Counts
  /\ batches \in Seq(Counts)
  /\ made \subseteq DOMAIN batches
  /\ told \subseteq DOMAIN batches /\ followed \subseteq DOMAIN batches
  /\ exit \in {Unset, SUCCESS, FAILURE, NOT_FOUND} \cup Codes
-----------------------------------------------------------------------------
(* What is asked for. *)

\* ConfigWorkerPool: the configuration's counts with its defaults, '--target' first
Loaded ==
  LET target == IF config.target = None THEN 1 ELSE config.target
  IN [target |-> IF option # None THEN option ELSE target,
      min |-> IF config.min = None THEN 0 ELSE config.min,
      max |-> IF config.max # None THEN config.max
              ELSE IF target > 1 THEN target ELSE 1]

\* _merge_into_template_usage(), _merge_into_provisioned_properties()
Merged(key) ==
  LET given == IF key = "target" THEN option ELSE None
  IN IF given # None THEN given
     ELSE IF config[key] # None /\ (spec[key] = None \/ key \in overridden)
          THEN config[key] ELSE spec[key]

Keys == {"target", "min", "max"}

Start ==
  /\ pc = "merge"
  /\ asked' = IF source = "configuration" THEN Loaded ELSE [k \in Keys |-> Merged(k)]
  /\ pc' = IF command = "provision" /\ source = "configuration" THEN "counts" ELSE "names"
  /\ UNCHANGED <<input, batches, results>>

Known(n) == n # None

\* Mutant: 'maxNodes' is not raised to the target.
Rationalised_MaxKept(c) ==
  LET min == IF Known(c.min) /\ c.min < 0 THEN 0 ELSE c.min
      target == IF Known(c.target) /\ Known(min) /\ c.target < min THEN min ELSE c.target
  IN [target |-> target, min |-> min, max |-> c.max]

\* _rationalised_node_counts()
Rationalised(c) ==
  LET min == IF Known(c.min) /\ c.min < 0 THEN 0 ELSE c.min
      target == IF Known(c.target) /\ Known(min) /\ c.target < min THEN min ELSE c.target
      atLeast1 == IF Known(c.max) /\ c.max < 1 /\ (~Known(target) \/ target <= 1)
                  THEN 1 ELSE c.max
      max == IF Known(target) /\ Known(atLeast1) /\ target > atLeast1 THEN target ELSE atLeast1
  IN [target |-> target, min |-> min, max |-> max]

\* Once merged, so that the counts made consistent are those sent
Rationalise ==
  /\ pc = "counts"
  /\ asked' = Rationalised(asked)
  /\ pc' = IF source = "configuration" THEN "names" ELSE "model"
  /\ UNCHANGED <<input, batches, results>>

\* The template's and image's names are looked up
Name ==
  /\ pc = "names"
  /\ pc' = IF source = "configuration" THEN "divide"
           ELSE IF command = "provision" THEN "counts" ELSE "model"
  /\ UNCHANGED <<input, asked, batches, results>>
-----------------------------------------------------------------------------
(* Batches. *)

CeilDiv(a, b) == -((-a) \div b)

\* The k'th of n shares of x, the first ones larger by one
Share(x, n, k) == x \div n + (IF k <= x % n THEN 1 ELSE 0)

\* Mutant: what is left over is not handed out.
NodeBatches_Even(c) ==
  LET n == CeilDiv(c.max, size)
  IN [k \in 1 .. n |-> [key \in Keys |-> c[key] \div n]]

\* _allocate_nodes_to_batches() of provision.py
NodeBatches(c) ==
  LET n == CeilDiv(c.max, size)
  IN [k \in 1 .. n |-> [key \in Keys |-> Share(c[key], n, k)]]

Instances(n) == [target |-> n, min |-> None, max |-> None]

\* _allocate_nodes_to_batches() of instantiate.py
InstanceBatches(c) ==
  LET n == CeilDiv(c.target, size)
  IN IF n = 0 THEN <<Instances(0)>>
     ELSE [k \in 1 .. n |-> Instances(Share(c.target, n, k))]

\* A report is on the first batch alone, and there may be none
Divide ==
  /\ pc = "divide"
  /\ batches' = IF command = "provision" THEN NodeBatches(asked) ELSE InstanceBatches(asked)
  /\ pc' = IF mode = "run" THEN "send" ELSE "follow"
  /\ UNCHANGED <<input, asked, results>>

\* A specification is not divided
Model ==
  /\ pc = "model"
  /\ batches' = <<IF command = "provision" THEN asked
                  ELSE [asked EXCEPT !.min = None, !.max = None]>>
  /\ pc' = IF mode = "run" THEN "send" ELSE "follow"
  /\ UNCHANGED <<input, asked, results>>
-----------------------------------------------------------------------------
(* Provisioning. *)

Sending == pc = "send" /\ exit = Unset
Next1 == Cardinality(made) + 1

\* Mutant: the IDs are recorded once all the batches exist.
Provisioned_ToldAtEnd ==
  /\ Sending /\ Next1 \in DOMAIN batches
  /\ made' = made \cup {Next1}
  /\ told' = IF Next1 = Len(batches) THEN DOMAIN batches ELSE told
  /\ UNCHANGED <<input, pc, asked, batches, followed, exit>>

\* Each batch is recorded as soon as it exists
Provisioned ==
  /\ Sending /\ Next1 \in DOMAIN batches
  /\ made' = made \cup {Next1}
  /\ told' = told \cup {Next1}
  /\ UNCHANGED <<input, pc, asked, batches, followed, exit>>

\* No more to send
Sent ==
  /\ Sending /\ Next1 \notin DOMAIN batches
  /\ pc' = "follow"
  /\ UNCHANGED <<input, asked, batches, results>>

\* The exit code is that of what is followed, or of the Platform's report
Follow(code) ==
  /\ pc = "follow"
  /\ pc' = "done"
  /\ followed' = IF follow /\ mode = "run" THEN told ELSE {}
  /\ exit' = IF followed' # {} \/ mode = "report" THEN code ELSE SUCCESS
  /\ UNCHANGED <<input, asked, batches, made, told>>

Stops(code) == pc' = "done" /\ exit' = code

\* A template or image that is not found, or is ambiguous, or a request that fails
NameFails(code) ==
  /\ pc = "names"
  /\ Stops(code)
  /\ UNCHANGED <<input, asked, batches, made, told, followed>>

\* A property that the SDK's model needs is missing
ModelFails ==
  /\ pc = "model"
  /\ Stops(FAILURE)
  /\ UNCHANGED <<input, asked, batches, made, told, followed>>

\* The error is raised again, and no more batches are sent
ProvisionFails(code) ==
  /\ Sending /\ Next1 \in DOMAIN batches
  /\ Stops(code)
  /\ UNCHANGED <<input, asked, batches, made, told, followed>>

\* External: it exists, but there was no answer
AnswerLost(code) ==
  /\ Sending /\ Next1 \in DOMAIN batches
  /\ made' = made \cup {Next1}
  /\ Stops(code)
  /\ UNCHANGED <<input, asked, batches, told, followed>>

Init ==
  /\ command \in {"provision", "instantiate"}
  /\ source \in {"configuration", "specification"}
  /\ mode \in {"run", "report", "dry run"} /\ follow \in BOOLEAN
  /\ config \in Configured
  /\ option \in Targets
  /\ size \in BatchSizes
  /\ IF source = "specification"
     THEN spec \in Specified /\ overridden \in SUBSET {k \in Keys : config[k] # None}
     ELSE spec = [k \in Keys |-> None] /\ overridden = {}
  /\ pc = "merge"
  /\ asked = [k \in Keys |-> None] /\ batches = <<>>
  /\ made = {} /\ told = {} /\ followed = {}
  /\ exit = Unset

Next ==
  \/ Start \/ Rationalise \/ Name \/ Divide \/ Model \/ Provisioned \/ Sent \/ ModelFails
  \/ \E code \in Codes : NameFails(code) \/ ProvisionFails(code) \/ AnswerLost(code)
  \/ \E code \in Codes \cup {SUCCESS} : Follow(code)

Spec == Init /\ [][Next]_vars
-----------------------------------------------------------------------------
(* What it is meant to ensure. *)

\* The counts by their precedence: '--target', '--property', the specification,
\* the configuration.
Wanted(key) ==
  LET ranked == <<IF key = "target" THEN option ELSE None,
                  IF key \in overridden THEN config[key] ELSE None,
                  spec[key], config[key]>>
      given == {i \in 1 .. 4 : ranked[i] # None}
  IN IF given = {} THEN None ELSE ranked[CHOOSE i \in given : \A j \in given : i <= j]

Asked == IF source = "configuration" THEN Loaded ELSE [k \in Keys |-> Wanted(k)]

AtMost(a, b) == Known(a) /\ Known(b) => a <= b
Consistent(c) == AtMost(0, c.min) /\ AtMost(c.min, c.target) /\ AtMost(c.target, c.max)

Total(key) ==
  LET ofFirst[n \in 0 .. Len(batches)] ==
        IF n = 0 THEN 0 ELSE ofFirst[n - 1] + batches[n][key]
  IN ofFirst[Len(batches)]

\* A run that succeeds has provisioned what was asked for, divided or not, if the
\* counts asked for are consistent, and at least as many nodes if they are not;
\* and each batch that exists is consistent in itself and within the batch size.
ProvisionedAsAsked ==
  /\ exit = SUCCESS /\ mode = "run" =>
       /\ made = DOMAIN batches
       /\ \A k \in IF command = "provision" THEN Keys ELSE {"target"} :
            Known(Asked[k]) /\ Asked[k] >= 0 =>
              IF command = "instantiate" \/ (Consistent(Asked) /\ AtMost(1, Asked.max))
              THEN Total(k) = Asked[k] ELSE Total(k) >= Asked[k]
  /\ \A k \in made :
       /\ Consistent(batches[k])
       /\ source = "configuration" =>
            AtMost(batches[k].target, size) /\ AtMost(batches[k].max, size)

\* Whatever fails, each batch that was provisioned is recorded, but for one whose
\* answer was lost, after which none is sent; a success follows them all.
MadeIsTold ==
  /\ made # told => exit \notin {Unset, SUCCESS} /\ made = told \cup {Cardinality(made)}
  /\ exit = SUCCESS /\ follow => followed = made
  /\ mode # "run" => made = {}
-----------------------------------------------------------------------------
(* Why it does. *)

\* Those that exist are the first of the batches, and while the run goes on those told
MadeInv ==
  /\ made = 1 .. Cardinality(made) /\ Cardinality(made) \in Nat
  /\ exit = Unset => told = made
  /\ (exit = Unset) <=> (pc # "done")
  /\ pc = "send" => mode = "run"
  /\ pc \in {"merge", "counts", "names", "divide", "model"} => made = {}

IInv == MadeInv /\ MadeIsTold

\* The command line, the configuration and the specification
InputInv ==
  /\ command \in {"provision", "instantiate"}
  /\ source \in {"configuration", "specification"}
  /\ mode \in {"run", "report", "dry run"}
  /\ config \in Configured /\ option \in Targets /\ size \in BatchSizes
  /\ spec \in Specified \cup {[k \in Keys |-> None]}
  /\ overridden \subseteq {k \in Keys : config[k] # None}

\* What the counts asked for come to, and the batches that they are sent in
Counted == IF command = "provision" THEN Rationalised(Asked) ELSE Asked
Divided ==
  IF source = "configuration"
  THEN IF command = "provision" THEN NodeBatches(Counted) ELSE InstanceBatches(Counted)
  ELSE <<IF command = "provision" THEN Counted ELSE [Counted EXCEPT !.min = None, !.max = None]>>

\* How far the counts have come, and that what is sent is what they are divided into
DividedInv ==
  /\ pc \in {"merge", "counts", "names", "model", "divide", "send", "follow", "done"}
  /\ pc = "counts" => command = "provision" /\ asked = Asked
  /\ pc = "names" => asked = IF source = "configuration" THEN Counted ELSE Asked
  /\ pc = "divide" => source = "configuration" /\ asked = Counted
  /\ pc = "model" => source = "specification" /\ asked = Counted
  /\ pc \in {"send", "follow"} \/ made # {} \/ exit = SUCCESS => batches = Divided
  /\ made \subseteq DOMAIN batches
  /\ (pc = "follow" \/ exit = SUCCESS) /\ mode = "run" => made = DOMAIN batches

SentInv == InputInv /\ DividedInv
=============================================================================
