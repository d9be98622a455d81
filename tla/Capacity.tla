------------------------------- MODULE Capacity -------------------------------
(***************************************************************************)
(* When '--follow' or '--wait' of an action that leaves its Compute        *)
(* Requirement alive is done (capacity_wait.py).  The Platform accepts the *)
(* action, begins it after a moment, and takes each Instance through it in *)
(* its own time.  '--follow' tests after each event of the Compute         *)
(* Requirement's stream, and '--wait' as it polls, whether the action's    *)
(* rule is met: each test reads the Compute Requirement and then, in       *)
(* another request, its Instances.                                         *)
(*                                                                         *)
(* External, and taken to be so: a stream begins with an event; the        *)
(* Platform begins an action with all of its Instances; and an Instance    *)
(* that is replaced is changing until its replacement runs.  What the      *)
(* Platform does once the command has returned is left out.                *)
(***************************************************************************)
EXTENDS Integers, FiniteSets, FiniteSetsExt

CONSTANTS
  Instance,
  Before,            \* Before[kind]: the Instances' states before such an action
  MaxDrops           \* the times that the stream may drop

\* An Instance that does not exist, or is no more, is off; PENDING, STOPPING and
\* TERMINATING are changing
InstanceStates == {"off", "running", "stopped", "changing"}

\* The rule that ends each action (ComputeAction.done_when, and resize.py)
done_when ==
  [stop |-> "until_stopped", terminate |-> "until_quiet", start |-> "until_settled",
   deprovision |-> "until_settled", reprovision |-> "until_settled",
   resize |-> "until_settled", restart |-> "until_settled_again",
   pool |-> "until_settled_again"]

Kinds == DOMAIN Before

Parameters ==
  /\ IsFiniteSet(Instance)
  /\ Kinds \subseteq DOMAIN done_when
  /\ \A kind \in Kinds : Before[kind] \subseteq [Instance -> InstanceStates \ {"changing"}]
  /\ MaxDrops \in Nat

VARIABLES
  action,            \* [kind, chosen, goal, whole, before, target]: what was asked,
                     \* and the target count that was found
  mode,              \* "follow", "wait", or "wait timed" with '--timeout'
  phase,             \* external: "accepted", "begun", or "over"
  stuck,             \* external: the provider is out of capacity
  status,            \* external: "running", "stopped", or "changing" (next_status too)
  target,            \* external: targetInstanceCount
  instances,         \* external: the state of each
  connected,         \* the stream is open
  events,            \* those sent and not yet read
  drops,
  pc,                \* "idle", "read", "returned" or "timed out"
  read,              \* the [status, target] of the test under way
  changed,           \* it has been seen unsettled
  expired            \* the deadline has passed

platform == <<phase, stuck, status, target, instances>>
follower == <<pc, read, changed, expired>>
vars == <<action, mode, platform, connected, events, drops, follower>>

Running(in) == Cardinality({i \in Instance : in[i] = "running"})
Existing(in) == Cardinality({i \in Instance : in[i] # "off"})
Changing(in) == \E i \in Instance : in[i] = "changing"

\* Capacity.settled and Capacity.quiet
Settled(s, t, in) == s = "running" /\ Running(in) = t /\ ~Changing(in)
Quiet(s, in) == s \in {"running", "stopped"} /\ ~Changing(in)

TypeOK ==
  /\ action.kind \in Kinds /\ action.chosen \subseteq Instance
  /\ mode \in {"follow", "wait", "wait timed"}
  /\ phase \in {"accepted", "begun", "over"}
  /\ stuck \in BOOLEAN
  /\ status \in {"running", "stopped", "changing"}
  /\ target \in 0 .. Cardinality(Instance)
  /\ instances \in [Instance -> InstanceStates]
  /\ connected \in BOOLEAN /\ events \in Nat /\ (events > 0 => connected)
  /\ drops \in 0 .. MaxDrops
  /\ pc \in {"idle", "read", "returned", "timed out"}
  /\ read \in [status : {"running", "stopped", "changing"}, target : Nat]
  /\ changed \in BOOLEAN /\ expired \in BOOLEAN
  /\ pc = "timed out" => expired
-----------------------------------------------------------------------------
(* What may be asked, of a Compute Requirement in what state. *)

\* The Instances that each action takes, and what it makes of them
Takes(kind) ==
  CASE kind \in {"stop", "restart"} -> {"running"}
    [] kind \in {"terminate", "deprovision"} -> {"running", "stopped"}
    [] kind = "start" -> {"stopped"}
    [] kind = "reprovision" -> {"off"}
    [] OTHER -> {"running", "off"}
Makes(kind, state) ==
  CASE kind = "stop" -> {"stopped"}
    [] kind = "deprovision" -> {"off"}
    [] kind = "terminate" -> {"off", "running"}
    [] kind \in {"resize", "pool"} -> {IF state = "off" THEN "running" ELSE "off"}
    [] OTHER -> {"running"}

Less(m, n) == IF m < n THEN 0 ELSE m - n

\* The target once it is accepted, or for a Worker Pool's, begun
TargetOf(kind, chosen, in, goal, before) ==
  CASE kind = "deprovision" -> Less(before, Cardinality(chosen))
    [] kind \in {"reprovision", "resize", "pool"} ->
         Existing([i \in Instance |-> IF i \in chosen THEN goal[i] ELSE in[i]])
    [] OTHER -> before

\* Of the Compute Requirement as a whole, and not of Instances by their IDs
Wholly(kind, chosen, in) ==
  /\ kind \in {"stop", "start"} => chosen = {i \in Instance : in[i] \in Takes(kind)}
  /\ kind = "start" => Running(in) = 0
  /\ kind \in {"stop", "start", "reprovision", "resize", "pool"}

\* A resize is up or down
OneWay(kind, chosen, in) ==
  kind \in {"resize", "pool"} => \A i, j \in chosen : in[i] = in[j]

Init ==
  /\ \E kind \in Kinds, whole \in BOOLEAN, before \in 0 .. Cardinality(Instance) :
     \E in \in Before[kind] :
       \E chosen \in (SUBSET {i \in Instance : in[i] \in Takes(kind)}) \ {{}} :
         \E goal \in [chosen -> {"off", "running", "stopped"}] :
           /\ \A i \in chosen : goal[i] \in Makes(kind, in[i])
           /\ OneWay(kind, chosen, in)
           /\ whole => Wholly(kind, chosen, in)
           /\ ~whole => kind \notin {"reprovision", "resize", "pool"}
           /\ action = [kind |-> kind, chosen |-> chosen, goal |-> goal, whole |-> whole,
                        before |-> before, target |-> TargetOf(kind, chosen, in, goal, before)]
           /\ instances = in
           /\ status = IF whole /\ kind = "start" THEN "stopped" ELSE "running"
           /\ target = IF kind = "pool" THEN before
                       ELSE TargetOf(kind, chosen, in, goal, before)
  /\ mode \in {"follow"} \cup
              (IF action.kind \in {"resize", "reprovision"} THEN {"wait", "wait timed"} ELSE {})
  /\ phase = "accepted" /\ stuck \in BOOLEAN
  /\ connected = FALSE /\ events = 0 /\ drops = 0
  /\ pc = "idle" /\ read = [status |-> status, target |-> target]
  /\ changed = FALSE /\ expired = FALSE
-----------------------------------------------------------------------------
(* External: the Platform. *)

Publishes == events' = IF connected THEN events + 1 ELSE events

Begins ==
  /\ phase = "accepted" /\ pc # "returned"
  /\ phase' = "begun"
  /\ status' = IF action.whole THEN "changing" ELSE status
  /\ target' = action.target
  /\ instances' = [i \in Instance |-> IF i \in action.chosen THEN "changing" ELSE instances[i]]
  /\ Publishes
  /\ UNCHANGED <<action, mode, stuck, connected, drops, follower>>

Changes(i) ==
  /\ phase = "begun" /\ instances[i] = "changing" /\ ~stuck /\ pc # "returned"
  /\ instances' = [instances EXCEPT ![i] = action.goal[i]]
  /\ Publishes
  /\ UNCHANGED <<action, mode, phase, stuck, status, target, connected, drops, follower>>

IsOver ==
  /\ phase = "begun" /\ ~Changing(instances) /\ pc # "returned"
  /\ phase' = "over"
  /\ status' = IF action.whole /\ action.kind = "stop" THEN "stopped" ELSE "running"
  /\ Publishes
  /\ UNCHANGED <<action, mode, stuck, target, instances, connected, drops, follower>>

Platform == Begins \/ IsOver \/ \E i \in Instance : Changes(i)
-----------------------------------------------------------------------------
(* The stream (follow_events()), and the tests. *)

Connect ==
  /\ mode = "follow" /\ pc = "idle" /\ ~connected
  /\ connected' = TRUE /\ events' = 1
  /\ UNCHANGED <<action, mode, platform, drops, follower>>

\* What was sent and not read is lost
Drop ==
  /\ mode = "follow" /\ connected /\ pc # "returned" /\ drops < MaxDrops
  /\ connected' = FALSE /\ events' = 0 /\ drops' = drops + 1
  /\ UNCHANGED <<action, mode, platform, follower>>

\* _current_capacity(): the Compute Requirement
Read ==
  /\ pc = "idle"
  /\ IF mode = "follow" THEN events > 0 /\ events' = events - 1 ELSE UNCHANGED events
  /\ pc' = "read"
  /\ read' = [status |-> status, target |-> target]
  /\ UNCHANGED <<action, mode, platform, connected, drops, changed, expired>>

\* Mutant: that it has changed is not asked.
IsDone_Unchanged(s, c) ==
  CASE done_when[action.kind] \in {"until_settled", "until_settled_again"} -> s.settled
    [] OTHER -> s.quiet

\* The rules
IsDone(s, c) ==
  CASE done_when[action.kind] = "until_settled" -> s.settled
    [] done_when[action.kind] = "until_settled_again" -> c /\ s.settled
    [] OTHER -> c /\ s.quiet

Capacity == [settled |-> Settled(read.status, read.target, instances),
             quiet |-> Quiet(read.status, instances)]

\* Mutant: it has changed if it was seen changing.
Seen_Changing == changed' = (changed \/ ~Capacity.quiet)

\* "not capacity.settled", remembered
Seen == changed' = (changed \/ ~Capacity.settled)

\* capacity_reached(): its Instances
Test ==
  /\ mode = "follow" /\ pc = "read"
  /\ Seen
  /\ pc' = IF IsDone(Capacity, changed') THEN "returned" ELSE "idle"
  /\ UNCHANGED <<action, mode, platform, connected, events, drops, read, expired>>

\* wait_for_capacity(): the deadline is looked at once all have been read
Poll ==
  /\ mode # "follow" /\ pc = "read"
  /\ pc' = IF Capacity.settled THEN "returned"
           ELSE IF expired THEN "timed out" ELSE "idle"
  /\ UNCHANGED <<action, mode, platform, connected, events, drops, read, changed, expired>>

Expires ==
  /\ mode = "wait timed" /\ ~expired
  /\ expired' = TRUE
  /\ UNCHANGED <<action, mode, platform, connected, events, drops, pc, read, changed>>

Next == Platform \/ Connect \/ Drop \/ Read \/ Test \/ Poll \/ Expires

Spec == Init /\ [][Next]_vars /\ WF_vars(Platform) /\ WF_vars(Connect)
        /\ WF_vars(Read) /\ WF_vars(Test) /\ WF_vars(Poll) /\ WF_vars(Expires)
-----------------------------------------------------------------------------
(* What it is meant to ensure. *)

\* What a rule takes for granted, though nothing asks it, of the Compute Requirement that
\* the action found: that it was at its target, with none of its Instances stopped (but
\* those to start, and for a reprovision, short of it).
AtTarget ==
  /\ action.kind # "reprovision" => action.before = Existing(instances)
  /\ action.kind # "start" => \A i \in Instance : instances[i] # "stopped"

\* "--follow ... returns when the action is done", and so does '--wait': no
\* sooner than every Instance it was asked of is as it asked.  What is asked to
\* be as it was is done once it is so again.  Of a Compute Requirement that was not
\* at its target, and of none other, it may return before the action is begun.
AsAsked == \A i \in action.chosen : instances[i] = action.goal[i]
ReturnsDone == pc = "returned" => IF phase = "accepted" THEN ~AtTarget ELSE AsAsked

\* An action that ends with its Compute Requirement otherwise than it began, at
\* its target or stopped, is seen to be done, however much of it was lost with
\* the stream, and a wait with a timeout always ends.
Differs == \/ done_when[action.kind] = "until_settled" /\ action.target = Running(instances)
           \/ done_when[action.kind] \in {"until_stopped", "until_quiet"}
              /\ action.target # Running(instances)
Due == mode = "wait timed" \/ (phase = "over" /\ Differs)
Returned == pc = "returned" \/ (mode = "wait timed" /\ pc = "timed out")
FollowReturns == Due ~> Returned
-----------------------------------------------------------------------------
(* Why it does: the invariant that the proofs rest on. *)

\* Until the Platform begins it, an action that is done once settled finds what was at
\* its target not so, and any other finds it so, whenever the two are read.
AcceptedInv ==
  phase = "accepted" =>
    /\ read = [status |-> status, target |-> target]
    /\ AtTarget =>
         IF done_when[action.kind] = "until_settled" THEN ~Settled(status, target, instances)
         ELSE Settled(status, target, instances) /\ ~changed

\* Once it is begun, what it was asked of is changing or as it was asked.
BegunInv ==
  /\ action.chosen \subseteq Instance
  /\ \A i \in action.chosen : action.goal[i] \in InstanceStates \ {"changing"}
  /\ instances \in [Instance -> InstanceStates]
  /\ \A i \in Instance \ action.chosen : instances[i] # "changing"
  /\ phase # "accepted" =>
       \A i \in action.chosen : instances[i] \in {"changing", action.goal[i]}

\* '--wait' is of what is done once it is settled.
PolledInv == mode # "follow" => done_when[action.kind] = "until_settled"

IInv == AcceptedInv /\ BegunInv /\ PolledInv /\ ReturnsDone
=============================================================================
