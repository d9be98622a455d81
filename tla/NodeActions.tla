----------------------------- MODULE NodeActions -----------------------------
(***************************************************************************)
(* A run of 'yd node action' (nodeaction.py): the Nodes given are          *)
(* resolved, actions are submitted to them (to each in turn, or to all of  *)
(* them or of the Worker Pool in one request), each submission recorded,   *)
(* and with '--follow' their queues are polled until each is EMPTY or      *)
(* FAILED.  With '--status' the queues alone are fetched or polled.        *)
(*                                                                         *)
(* A queue is the Platform's: the actions of a submission are in it by the *)
(* time that a following's first delay is over, and nothing else submits.  *)
(* The specification's parsing, which precedes all requests, and the       *)
(* interactive choice of a Worker Pool and Nodes are not modelled.         *)
(***************************************************************************)
EXTENDS Integers, Sequences, FiniteSets, SequencesExt

CONSTANTS
  Nodes,             \* the Nodes, some of which may be given
  GivenNodes,        \* the sequences of Nodes that '--node' may give
  Codes          \* the exit codes of failures

OK == 0
FAILED == 1
MISSING == 6
SESSION == {4, 8}
Running == -1

Parameters ==
  /\ IsFiniteSet(Nodes)
  /\ GivenNodes \subseteq Seq(Nodes)
  /\ Codes \subseteq {1, 4, 5, 6, 7, 8}

VARIABLES
  kind,              \* "each", "grouped", "all" or "status"
  follows, timed,    \* '--follow', '--timeout'
  given,             \* the Nodes given
  status,            \* external: each Node's status
  stage,
  targets,           \* the Nodes to act on, in order
  turn,              \* how many of them were submitted to or polled
  sent,              \* external: how often the actions were put in the Node's queue
  queue,             \* external: each Node's queue
  rows,              \* the outcomes recorded of each Node, or of all in one
  causes,            \* the codes of the failures recorded
  pending, finished, unfetched, \* following: Nodes still polled, seen to be done, given up
  late,              \* the deadline has passed
  code

input == <<kind, follows, timed, given, status>>
following == <<pending, finished, unfetched, late>>
vars == <<input, stage, targets, turn, sent, queue, rows, causes, following, code>>

TypeOK ==
  /\ kind \in {"each", "grouped", "all", "status"} /\ follows \in BOOLEAN
  /\ given \in GivenNodes /\ status \in [Nodes -> {"RUNNING", "TERMINATED", "missing"}]
  /\ stage \in {"resolve", "confirm", "submit", "settle", "poll", "sleep", "show", "end"}
  /\ targets \in Seq(Nodes)
  /\ turn \in Nat
  /\ sent \in [Nodes -> Nat]
  /\ queue \in [Nodes -> {"EMPTY", "EXECUTING", "FAILED"}]
  /\ rows \in [Nodes -> SUBSET {"submitted", "skipped", "failed"}]
  /\ causes \in Seq(Codes)
  /\ pending \subseteq Nodes /\ finished \subseteq Nodes
  /\ unfetched \in Seq(Codes \X Nodes)
  /\ late \in BOOLEAN
  /\ code \in {Running, OK, FAILED, MISSING} \cup Codes
-----------------------------------------------------------------------------
Live == {n \in Nodes : status[n] = "RUNNING"}
Sorted == SetToSeq(pending)      \* the order does not matter

\* The exit code that the failures share, or 1
Shared(codes) == IF codes = <<>> THEN OK
                 ELSE IF \A k \in DOMAIN codes : codes[k] = codes[1] THEN codes[1] ELSE FAILED

Ends(exit) == stage' = "end" /\ code' = exit
Goes(to) == stage' = to /\ UNCHANGED code
Tells(ns, outcome) ==
  rows' = [n \in Nodes |-> IF n \in ns THEN rows[n] \cup {outcome} ELSE rows[n]]
TargetSet == ToSet(targets)

Init ==
  /\ kind \in {"each", "grouped", "all", "status"}
  /\ follows \in BOOLEAN /\ timed \in BOOLEAN /\ (timed => follows)
  /\ given \in GivenNodes
  /\ kind = "all" => given = <<>>              \* with '--all-nodes'
  /\ kind \in {"each", "grouped"} => given # <<>>
  /\ status \in [Nodes -> {"RUNNING", "TERMINATED", "missing"}]
  /\ stage = "resolve" /\ targets = <<>> /\ turn = 0
  /\ sent = [n \in Nodes |-> 0]
  /\ queue = [n \in Nodes |-> "EMPTY"]
  /\ rows = [n \in Nodes |-> {}] /\ causes = <<>>
  /\ pending = {} /\ finished = {} /\ unfetched = <<>> /\ late = FALSE
  /\ code = Running

Earlier(m, n) == \E i \in DOMAIN given : given[i] = m /\ \A j \in 1 .. i : given[j] # n

\* dict.fromkeys(): each of them once, in the order given
Once(ns) ==
  {s \in [1 .. Cardinality(ns) -> ns] :
     ToSet(s) = ns /\ \A i, j \in DOMAIN s : i < j => Earlier(s[i], s[j])}

\* _resolve_targets(): a Node that has finished is skipped
Resolve ==
  /\ stage = "resolve" /\ kind \in {"each", "grouped"}
  /\ \A n \in ToSet(given) : status[n] # "missing"
  /\ targets' \in Once({n \in ToSet(given) : status[n] = "RUNNING"})
  /\ Tells({n \in ToSet(given) : status[n] = "TERMINATED"}, "skipped")
  /\ IF targets' = <<>> THEN Ends(OK) ELSE Goes("confirm")
  /\ UNCHANGED <<input, turn, sent, queue, causes, following>>

\* One that does not exist fails the run, before anything is submitted
ResolveFindsNone ==
  /\ stage = "resolve" /\ kind \in {"each", "grouped"}
  /\ \E n \in ToSet(given) : status[n] = "missing"
  /\ Ends(MISSING)
  /\ UNCHANGED <<input, targets, turn, sent, queue, rows, causes, following>>

\* '--all-nodes'
ResolveAll ==
  /\ stage = "resolve" /\ kind = "all"
  /\ Goes("confirm")
  /\ UNCHANGED <<input, targets, turn, sent, queue, rows, causes, following>>

\* '--status': the Nodes given are not fetched, and all are those that are live
ResolveStatus ==
  /\ stage = "resolve" /\ kind = "status"
  /\ targets' \in IF given = <<>> THEN {SetToSeq(Live)} ELSE Once(ToSet(given))
  /\ pending' = ToSet(targets')
  /\ IF targets' = <<>> THEN Ends(OK)
     ELSE Goes(IF follows THEN "poll" ELSE "show")
  /\ UNCHANGED <<input, turn, sent, queue, rows, causes, finished, unfetched, late>>

\* Of the Worker Pool and its Nodes
ResolveFails(c) ==
  /\ stage = "resolve"
  /\ Ends(c)
  /\ UNCHANGED <<input, targets, turn, sent, queue, rows, causes, following>>

Whole == IF kind = "all" THEN Nodes ELSE TargetSet

Confirm ==
  /\ stage = "confirm"
  /\ \/ Goes("submit") /\ UNCHANGED rows
     \/ Tells(Whole, "skipped") /\ Ends(OK)
  /\ UNCHANGED <<input, targets, turn, sent, queue, causes, following>>
-----------------------------------------------------------------------------
(* Submissions. *)

Puts(ns) ==
  /\ sent' = [n \in Nodes |-> sent[n] + (IF n \in ns THEN 1 ELSE 0)]
  /\ queue' = [n \in Nodes |-> IF n \in ns THEN "EXECUTING" ELSE queue[n]]

\* _submit_grouped(), _submit_to_all_nodes(): one request, whole or not at all
Submit ==
  /\ stage = "submit" /\ kind \in {"grouped", "all"}
  /\ Puts(Whole \cap Live)
  /\ Tells(Whole, "submitted")
  /\ IF follows THEN Goes("settle") ELSE Ends(OK)
  /\ UNCHANGED <<input, targets, turn, causes, following>>

SubmitFails(c) ==
  /\ stage = "submit" /\ kind \in {"grouped", "all"}
  /\ Tells(Whole, "failed")
  /\ causes' = Append(causes, c)
  /\ Ends(c)
  /\ UNCHANGED <<input, targets, turn, sent, queue, following>>

Node == targets[turn + 1]
Each == stage = "submit" /\ kind = "each" /\ turn < Len(targets)

SubmitToNode ==
  /\ Each
  /\ Puts({Node})
  /\ Tells({Node}, "submitted")
  /\ turn' = turn + 1
  /\ UNCHANGED <<input, stage, targets, causes, following, code>>

\* Mutant: a session failure leaves the Nodes after it unrecorded.
SubmitToNodeFails_RestForgotten(c) ==
  /\ Each
  /\ turn' = turn + 1
  /\ causes' = Append(causes, c)
  /\ Tells({Node}, "failed")
  /\ IF c \in SESSION THEN Ends(c) ELSE UNCHANGED <<stage, code>>
  /\ UNCHANGED <<input, targets, sent, queue, following>>

\* _after_failure(): the rest are still tried, unless it is the session's
SubmitToNodeFails(c) ==
  /\ Each
  /\ turn' = turn + 1
  /\ causes' = Append(causes, c)
  /\ IF c \in SESSION
     THEN /\ rows' = [n \in Nodes |-> IF n = Node THEN rows[n] \cup {"failed"}
                        ELSE IF \E k \in turn + 2 .. Len(targets) : targets[k] = n
                        THEN rows[n] \cup {"skipped"} ELSE rows[n]]
          /\ Ends(c)
     ELSE Tells({Node}, "failed") /\ UNCHANGED <<stage, code>>
  /\ UNCHANGED <<input, targets, sent, queue, following>>

SubmittedToEach ==
  /\ stage = "submit" /\ kind = "each" /\ turn = Len(targets)
  /\ IF follows /\ (\E n \in Nodes : "submitted" \in rows[n])
     THEN Goes("settle") ELSE Ends(Shared(causes))
  /\ UNCHANGED <<input, targets, turn, sent, queue, rows, causes, following>>
-----------------------------------------------------------------------------
(* Following. *)

\* _follow_submitted(): those submitted to, or the Worker Pool's live Nodes
Settle ==
  /\ stage = "settle"
  /\ LET ns == IF kind = "all" THEN Live ELSE {n \in Nodes : "submitted" \in rows[n]} IN
       /\ pending' = ns
       /\ IF ns = {} THEN Ends(OK) ELSE Goes("poll")
  /\ turn' = 0
  /\ UNCHANGED <<input, targets, sent, queue, rows, causes, finished, unfetched, late>>

NotFetched == Shared([k \in DOMAIN unfetched |-> unfetched[k][1]])

\* Once all have finished
Outcome == IF unfetched = <<>> THEN Shared(causes)
           ELSE IF kind = "status" THEN NotFetched ELSE FAILED

GivenUp == {unfetched[k][2] : k \in DOMAIN unfetched}
\* One of a round: seen to be done it is no longer polled, from the next round on
Poll(n) ==
  /\ stage = "poll" /\ turn < Len(Sorted) /\ n = Sorted[turn + 1]
  /\ turn' = turn + 1
  /\ status[n] # "missing"
  /\ finished' = IF queue[n] \in {"EMPTY", "FAILED"} THEN finished \cup {n} ELSE finished
  /\ UNCHANGED <<input, stage, targets, sent, queue, rows, causes, pending, unfetched,
                 late, code>>

\* Given up, unless the failure is the session's
PollFails(n, c) ==
  /\ stage = "poll" /\ turn < Len(Sorted) /\ n = Sorted[turn + 1]
  /\ status[n] = "missing" => c = MISSING
  /\ IF c \in SESSION THEN Ends(c) /\ UNCHANGED <<turn, unfetched>>
     ELSE /\ turn' = turn + 1
          /\ unfetched' = Append(unfetched, <<c, n>>)
          /\ UNCHANGED <<stage, code>>
  /\ UNCHANGED <<input, targets, sent, queue, rows, causes, pending, finished, late>>

\* Mutant: a queue that could not be fetched counts as finished.
RoundEnds_GivenUpFinished ==
  /\ stage = "poll" /\ turn = Len(Sorted)
  /\ pending' = pending \ (finished \cup GivenUp)
  /\ turn' = 0
  /\ IF pending' = {} THEN Ends(Shared(causes))
     ELSE IF late THEN Ends(FAILED) ELSE Goes("sleep")
  /\ UNCHANGED <<input, targets, sent, queue, rows, causes, finished, unfetched, late>>

RoundEnds ==
  /\ stage = "poll" /\ turn = Len(Sorted)
  /\ pending' = pending \ (finished \cup GivenUp)
  /\ turn' = 0
  /\ IF pending' = {} \/ late
     THEN Ends(IF pending' # {} THEN FAILED ELSE Outcome)
     ELSE Goes("sleep")
  /\ UNCHANGED <<input, targets, sent, queue, rows, causes, finished, unfetched, late>>

Sleep ==
  /\ stage = "sleep"
  /\ Goes("poll")
  /\ UNCHANGED <<input, targets, turn, sent, queue, rows, causes, following>>

\* '--status' without '--follow': each queue is fetched once
Show ==
  /\ stage = "show" /\ turn < Len(targets)
  /\ turn' = turn + 1
  /\ \/ /\ status[targets[turn + 1]] # "missing"
        /\ UNCHANGED <<unfetched, stage, code>>
     \/ \E c \in Codes :
          IF c \in SESSION THEN Ends(c) /\ UNCHANGED unfetched
          ELSE unfetched' = Append(unfetched, <<c, targets[turn + 1]>>) /\ UNCHANGED <<stage, code>>
  /\ UNCHANGED <<input, targets, sent, queue, rows, causes, pending, finished, late>>

Shown ==
  /\ stage = "show" /\ turn = Len(targets)
  /\ Ends(NotFetched)
  /\ UNCHANGED <<input, targets, turn, sent, queue, rows, causes, following>>
-----------------------------------------------------------------------------
(* External. *)

\* The agent on the Node takes the actions, and one may fail
Execute(n) ==
  /\ queue[n] = "EXECUTING"
  /\ \E q \in {"EMPTY", "FAILED"} : queue' = [queue EXCEPT ![n] = q]
  /\ UNCHANGED <<input, stage, targets, turn, sent, rows, causes, following, code>>

DeadlinePasses ==
  /\ timed /\ ~late /\ stage \in {"settle", "poll", "sleep"}
  /\ late' = TRUE
  /\ UNCHANGED <<input, stage, targets, turn, sent, queue, rows, causes, pending, finished,
                 unfetched, code>>

Run ==
  \/ Resolve \/ ResolveFindsNone \/ ResolveAll \/ ResolveStatus
  \/ Confirm \/ Submit \/ SubmitToNode \/ SubmittedToEach
  \/ Settle \/ RoundEnds \/ Sleep \/ Show \/ Shown
  \/ \E n \in Nodes : Poll(n)
  \/ \E c \in Codes :
       \/ ResolveFails(c) \/ SubmitFails(c) \/ SubmitToNodeFails(c)
       \/ \E n \in Nodes : PollFails(n, c)

Next == Run \/ DeadlinePasses \/ \E n \in Nodes : Execute(n)

Spec == Init /\ [][Next]_vars
-----------------------------------------------------------------------------
(* What it is meant to ensure. *)

\* The actions are put in a Node's queue once at most, and if they are it is
\* recorded so; when the run ends each Node to act on has one record, and the exit
\* code is 0 only if none is of a failure.
SubmittedOnceAndTold ==
  /\ \A n \in Nodes :
       /\ sent[n] <= 1
       /\ sent[n] = 1 => rows[n] = {"submitted"}
       /\ kind # "all" /\ rows[n] = {"submitted"} => sent[n] = 1
  /\ code # Running /\ stage = "end" /\ kind # "status" =>
       /\ \A n \in TargetSet : Cardinality(rows[n]) = 1
       /\ code = OK => \A n \in Nodes : "failed" \notin rows[n]

\* A following that exits with 0 has seen every queue it followed done: those of
\* the Nodes submitted to have nothing left of it.
FollowedIsFinished ==
  code = OK /\ follows =>
    /\ \A n \in Nodes : sent[n] = 1 => queue[n] # "EXECUTING"
    /\ kind = "status" => finished = TargetSet
-----------------------------------------------------------------------------
(* Why it does. *)

\* The records that each may have, by how far the run is
RowsInv ==
  /\ \A j, k \in DOMAIN targets : targets[j] = targets[k] => j = k
  /\ stage \in {"resolve", "confirm"} => turn = 0
  /\ stage = "resolve" => targets = <<>> /\ \A n \in Nodes : rows[n] = {}
  /\ stage \in {"confirm", "submit"} =>
       /\ kind # "each" => turn = 0
       /\ turn <= Len(targets)
       /\ \A k \in DOMAIN targets :
            IF k > turn THEN rows[targets[k]] = {} ELSE rows[targets[k]] \in {{"submitted"}, {"failed"}}
       /\ \A n \in Nodes \ TargetSet : rows[n] \subseteq (IF kind = "all" THEN {} ELSE {"skipped"})
  /\ stage \in {"settle", "poll", "sleep", "end"} /\ kind # "status" =>
       \A n \in TargetSet : rows[n] \in {{"submitted"}, {"failed"}, {"skipped"}}
  /\ stage = "end" \/ causes # <<>> \/ \A n \in Nodes : "failed" \notin rows[n]
  /\ stage = "end" /\ code = OK => \A n \in Nodes : "failed" \notin rows[n]
  /\ kind # "each" /\ stage # "end" => causes = <<>>
  /\ stage \in {"resolve", "confirm"} => causes = <<>>

\* What has been submitted is recorded as such, and was to be followed
SentInv ==
  /\ stage \in {"resolve", "confirm"} \/ kind = "status" =>
       \A n \in Nodes : sent[n] = 0 /\ queue[n] = "EMPTY"
  /\ kind = "status" => stage \notin {"confirm", "submit", "settle"}
  /\ stage = "show" => kind = "status"
  /\ stage \in {"confirm", "submit"} /\ kind = "grouped" => TargetSet \subseteq Live
  /\ stage = "submit" /\ kind # "each" => \A n \in Nodes : sent[n] = 0
  /\ \A n \in Nodes :
       /\ sent[n] <= 1
       /\ sent[n] = 1 => rows[n] = {"submitted"}
       /\ kind # "all" /\ rows[n] = {"submitted"} => sent[n] = 1
       /\ kind = "all" /\ sent[n] = 1 => n \in Live

\* Each of those followed is still polled, or was seen done, or was given up
FollowInv ==
  /\ stage = "end" <=> code # Running
  /\ stage = "show" => ~follows
  /\ stage = "settle" /\ kind = "each" => \E n \in Nodes : "submitted" \in rows[n]
  /\ stage \in {"resolve", "confirm", "submit", "settle"} => finished = {} /\ unfetched = <<>>
  /\ \A n \in finished : queue[n] # "EXECUTING"
  /\ stage \in {"poll", "sleep"} =>
       /\ \A n \in Nodes : sent[n] = 1 => n \in pending \cup finished \cup GivenUp
       /\ kind = "status" =>
            /\ pending \cup finished \subseteq TargetSet
            /\ TargetSet \subseteq pending \cup finished \cup GivenUp

IInv == TypeOK /\ RowsInv /\ SentInv /\ FollowInv /\ FollowedIsFinished
=============================================================================
