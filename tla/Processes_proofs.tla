---------------------------- MODULE Processes_proofs ---------------------------
(***************************************************************************)
(* Proofs about Processes: what each of its components promises, for every *)
(* value of its constants. Those of Lazy, ActionRun, AbortRun and          *)
(* EventStream rest on the invariants that are proved beside them, and     *)
(* those of McpRun, Capacity, Waiting, Commander, InputFiles, NodeActions  *)
(* and Provision on the invariants that close their modules and are proved *)
(* to be inductive here.                                                   *)
(*                                                                         *)
(* A component's variables are named here as Processes names them: of      *)
(* McpRun, r1 is pc, and so on, as its instances there are made.           *)
(***************************************************************************)
EXTENDS Processes, FiniteSetTheorems, SequenceTheorems, TLAPS

-----------------------------------------------------------------------------
(* Values built on first use. *)

\* A value is built once, however many threads read it at once.
THEOREM LazyBuiltOnce ==
  ASSUME Laz!Parameters
  PROVE  Spec => []BuiltOnce
<1> DEFINE I == chosen = "lazy" => Laz!IInv
<1>1. Init => I
  BY Laz!InitHolds DEF Init
<1>2. I /\ [Next]_all => I'
  <2>1. SUFFICES ASSUME I, [Next]_all, chosen' = "lazy" PROVE Laz!IInv'
    OBVIOUS
  <2>2. chosen = "lazy" /\ [Laz!Next]_(Laz!vars)
    BY <2>1 DEF Next, OfLaz, OfMcp, OfWait, OfAdd, OfFollow, OfStream, OfWindow, OfAction, OfAbort,
         OfInputs, OfNode, OfProv, all, Laz!vars
  <2> QED
    BY <2>1, <2>2, Laz!StepHolds
<1>3. I => BuiltOnce
  BY Laz!Implies DEF BuiltOnce
<1> QED
  BY <1>1, <1>2, <1>3, PTL DEF Spec
-----------------------------------------------------------------------------
(* Runs of the MCP server. *)

LEMMA McpStep ==
  ASSUME Mcp!Parameters
  PROVE  Mcp!IInv /\ [Mcp!Next]_(Mcp!vars) => Mcp!IInv'
<1> SUFFICES ASSUME Mcp!IInv, [Mcp!Next]_(Mcp!vars) PROVE Mcp!IInv'
  OBVIOUS
<1> USE DEF Mcp!IInv, Mcp!GroupInv, Mcp!FlushedInv, Mcp!run, Mcp!processes
<1>1. CASE Mcp!RecordsOne
  BY <1>1 DEF Mcp!RecordsOne
<1>2. CASE Mcp!CommandEnds
  BY <1>2 DEF Mcp!CommandEnds, Mcp!Lives
<1>3. ASSUME NEW p \in Children, Mcp!Starts(p) \/ Mcp!ChildEnds(p) \/ Mcp!ChildDetaches(p)
      PROVE  Mcp!IInv'
  BY <1>3 DEF Mcp!Starts, Mcp!ChildEnds, Mcp!ChildDetaches, Mcp!Lives, Mcp!Parameters
<1>4. CASE Mcp!Due \/ Mcp!Communicates \/ Mcp!TimesOut \/ Mcp!Drained
  BY <1>4 DEF Mcp!Due, Mcp!Communicates, Mcp!TimesOut, Mcp!Drained, Mcp!AtEnd
<1>5. CASE Mcp!Kill \/ Mcp!KillRest
  <2>1. /\ Command \notin r5' /\ r7' = {} /\ UNCHANGED <<r3, r4, r9, r10, r11>>
        /\ r1' = "killed" \/ (r1 = "output" /\ r1' = "returned")
    BY <1>5 DEF Mcp!Kill, Mcp!KillRest, Mcp!StopGroup
  <2>2. Mcp!GroupInv'
    BY <2>1
  <2> QED
    BY <2>1, <2>2
<1>6. CASE UNCHANGED Mcp!vars
  BY <1>6 DEF Mcp!vars
<1> QED
  BY <1>1, <1>2, <1>3, <1>4, <1>5, <1>6 DEF Mcp!Next, Mcp!Run, Mcp!Process

\* A run that was stopped leaves none of its group running, and all that its command
\* wrote as it ended comes back.
THEOREM McpLeavesNone ==
  ASSUME Mcp!Parameters
  PROVE  Spec => []NoneLeft
<1> DEFINE I == chosen = "mcp" => Mcp!IInv
<1>1. Init => I
  BY DEF Init, Mcp!Init, Mcp!IInv, Mcp!GroupInv, Mcp!FlushedInv
<1>2. I /\ [Next]_all => I'
  <2>1. SUFFICES ASSUME I, [Next]_all, chosen' = "mcp" PROVE Mcp!IInv'
    OBVIOUS
  <2>2. chosen = "mcp" /\ [Mcp!Next]_(Mcp!vars)
    BY <2>1 DEF Next, OfLaz, OfMcp, OfWait, OfAdd, OfFollow, OfStream, OfWindow, OfAction, OfAbort,
         OfInputs, OfNode, OfProv, all, Mcp!vars, Mcp!run, Mcp!processes
  <2> QED
    BY <2>1, <2>2, McpStep
<1>3. I => NoneLeft
  BY DEF NoneLeft, Mcp!NoneLeft, Mcp!FlushedKept, Mcp!IInv, Mcp!GroupInv, Mcp!FlushedInv
<1> QED
  BY <1>1, <1>2, <1>3, PTL DEF Spec
-----------------------------------------------------------------------------
(* Following and waiting. *)

\* An instance of a module has the operators of FiniteSets under names of its own.
LEMMA FollowFinite ==
  /\ \A S : Follow!IsFiniteSet(S) <=> IsFiniteSet(S)
  /\ \A S : Follow!Cardinality(S) = Cardinality(S)
BY DEF Follow!IsFiniteSet, IsFiniteSet, Follow!Cardinality, Cardinality

LEMMA ExitCodesFinite == \A S : S \subseteq {1, 4, 5, 6, 7, 8} => IsFiniteSet(S)
<1>1. \A n \in Nat : IsFiniteSet(1 .. n)
  BY FS_Interval
<1>2. {1, 4, 5, 6, 7, 8} \subseteq 1 .. 8
  OBVIOUS
<1> QED
  BY <1>1, <1>2, FS_Subset

LEMMA FollowExitCodeIs ==
  ASSUME NEW codes
  PROVE  /\ codes = {} => Follow!ExitCodeOf(codes) = 0
         /\ codes # {} => Follow!ExitCodeOf(codes) \in codes \cup {1}
         /\ 0 \notin codes => (Follow!ExitCodeOf(codes) = 0 <=> codes = {})
         /\ IsFiniteSet(codes) /\ Follow!ExitCodeOf(codes) \notin {0, 1} =>
              codes = {Follow!ExitCodeOf(codes)}
<1> USE DEF Follow!ExitCodeOf, Follow!SUCCESS, Follow!FAILURE
<1>1. codes # {} => (CHOOSE c \in codes : TRUE) \in codes
  OBVIOUS
<1>2. IsFiniteSet(codes) /\ Cardinality(codes) = 1 => \E x : codes = {x}
  BY FS_Singleton
<1> QED
  BY <1>1, <1>2

LEMMA FollowStreamStep ==
  ASSUME Follow!Parameters, Follow!IInv, NEW i \in Id, Follow!Stream(i) \/ Follow!Finishes(i)
  PROVE  Follow!IInv'
<1> USE DEF Follow!SUCCESS, Follow!FAILURE, Follow!Unread, Follow!ExitCodes, Follow!asked,
        Follow!streams, Follow!IInv
<1>1. ASSUME NEW how \in {"concluded", "assumed", "stopped"}, Follow!StreamEnds(i, how)
      PROVE  Follow!IInv'
  <2> USE <1>1 DEF Follow!StreamEnds
  <2>1. Follow!TypeOK'
    BY DEF Follow!TypeOK
  <2>2. Follow!ChargeInv'
    BY DEF Follow!ChargeInv, Follow!TypeOK, Follow!Failures
  <2>3. Follow!StreamInv'
    BY DEF Follow!StreamInv, Follow!TypeOK, Follow!AllEnded
  <2>4. Follow!SubmitInv'
    BY DEF Follow!SubmitInv
  <2>5. Follow!SubmitSeesFailure'
    BY DEF Follow!SubmitSeesFailure, Follow!TypeOK, Follow!StreamInv, Follow!AllEnded,
           Follow!ChargeInv
  <2> QED
    BY <2>1, <2>2, <2>3, <2>4, <2>5
<1>2. ASSUME NEW code \in Codes \cup {1}, Follow!StreamFails(i, code)
      PROVE  Follow!IInv'
  <2> USE <1>2 DEF Follow!StreamFails
  <2>1. Follow!TypeOK'
    BY DEF Follow!TypeOK
  <2>2. Follow!ChargeInv'
    BY DEF Follow!ChargeInv, Follow!TypeOK, Follow!Failures
  <2>3. Follow!StreamInv'
    BY DEF Follow!StreamInv, Follow!TypeOK, Follow!AllEnded
  <2>4. Follow!SubmitInv'
    BY DEF Follow!SubmitInv
  <2>5. Follow!SubmitSeesFailure'
    BY DEF Follow!SubmitSeesFailure, Follow!TypeOK, Follow!StreamInv, Follow!AllEnded,
           Follow!ChargeInv
  <2> QED
    BY <2>1, <2>2, <2>3, <2>4, <2>5
<1>3. CASE Follow!Finishes(i)
  <2> USE <1>3 DEF Follow!Finishes
  <2>1. Follow!TypeOK'
    BY DEF Follow!TypeOK
  <2>2. Follow!ChargeInv'
    BY DEF Follow!ChargeInv, Follow!TypeOK, Follow!Failures
  <2>3. Follow!StreamInv'
    BY DEF Follow!StreamInv, Follow!TypeOK, Follow!AllEnded
  <2>4. Follow!SubmitInv'
    BY DEF Follow!SubmitInv
  <2>5. Follow!SubmitSeesFailure'
    BY DEF Follow!SubmitSeesFailure, Follow!TypeOK
  <2> QED
    BY <2>1, <2>2, <2>3, <2>4, <2>5
<1> QED
  BY <1>1, <1>2, <1>3 DEF Follow!Stream

LEMMA FollowEndsStep ==
  ASSUME Follow!Parameters, Follow!IInv, Follow!Concluded \/ Follow!Deadline
  PROVE  Follow!IInv'
<1> USE DEF Follow!SUCCESS, Follow!FAILURE, Follow!Unread, Follow!ExitCodes, Follow!asked,
        Follow!streams, Follow!IInv, Follow!Concluded, Follow!Deadline
<1>1. Follow!TypeOK'
  BY DEF Follow!TypeOK
<1>2. Follow!ChargeInv'
  BY DEF Follow!ChargeInv, Follow!Failures
<1>3. Follow!StreamInv'
  BY DEF Follow!StreamInv, Follow!AllEnded
<1>4. Follow!SubmitInv' /\ Follow!SubmitSeesFailure'
  BY DEF Follow!SubmitInv, Follow!SubmitSeesFailure, Follow!ChargeInv
<1> QED
  BY <1>1, <1>2, <1>3, <1>4

LEMMA FollowFetchStep ==
  ASSUME Follow!Parameters, Follow!IInv, NEW i \in Id, Follow!Fetch(i)
  PROVE  Follow!IInv'
<1> USE DEF Follow!SUCCESS, Follow!FAILURE, Follow!Unread, Follow!ExitCodes, Follow!asked,
        Follow!streams, Follow!IInv
<1>1. /\ r1 = "wait" /\ r4 = "status" /\ i \in r2 /\ r8 \in [Id -> {0, 1, -1} \cup Codes]
      /\ UNCHANGED <<r1, r2, r3, r4, r5, r6, r7, r10, r11>>
  BY DEF Follow!Fetch, Follow!TypeOK
<1>2. PICK code : /\ r8' = [r8 EXCEPT ![i] = code]
                  /\ \/ code = 0 /\ r11[i] = "good" /\ r9' = r9
                     \/ code \in r6[i] \cup {1} /\ r9' = r9
                     \/ code \in Codes /\ r9' = r9 \cup {i}
  <2>1. Follow!FollowExitCodeOf(i) \in r6[i] \cup {0, 1}
    BY FollowExitCodeIs DEF Follow!FollowExitCodeOf
  <2>2. Follow!StillLive(i) \in r6[i] \cup {1}
    BY <2>1 DEF Follow!StillLive
  <2>3. r11[i] \in {"live", "good", "bad"}
    BY DEF Follow!TypeOK
  <2> QED
    BY <2>2, <2>3 DEF Follow!Fetch, Follow!Charges
<1>3. 0 \notin Codes /\ r6[i] \subseteq Codes \cup {1} /\ r9 \subseteq r2
  BY DEF Follow!Parameters, Follow!TypeOK
<1>4. Follow!TypeOK'
  BY <1>1, <1>2, <1>3 DEF Follow!TypeOK
<1>5. Follow!ChargeInv'
  BY <1>1, <1>2, <1>3 DEF Follow!ChargeInv, Follow!TypeOK
<1>6. Follow!StreamInv' /\ Follow!SubmitInv' /\ Follow!SubmitSeesFailure'
  BY <1>1 DEF Follow!StreamInv, Follow!SubmitInv, Follow!SubmitSeesFailure, Follow!AllEnded
<1> QED
  BY <1>4, <1>5, <1>6

LEMMA FollowExitsStep ==
  ASSUME Follow!Parameters, Follow!IInv, Follow!WaitExits \/ Follow!FollowExits
  PROVE  Follow!IInv'
<1> USE DEF Follow!SUCCESS, Follow!FAILURE, Follow!Unread, Follow!ExitCodes, Follow!asked,
        Follow!streams, Follow!IInv
<1>1. /\ r4 = "status" /\ r4' = "exit" /\ r1 \in {"wait", "follow"}
      /\ UNCHANGED <<r1, r2, r3, r5, r6, r7, r8, r9, r11>>
      /\ r1 = "wait" => r10' = Follow!ExitCodeOf(Follow!Failures) /\ \A i \in r2 : r8[i] # -1
      /\ r1 = "follow" => r10' = Follow!FollowExitCode
  BY DEF Follow!WaitExits, Follow!FollowExits
<1>2. r10' \in Codes \cup {0, 1}
  <2>1. CASE r1 = "wait"
    <3>1. Follow!Failures \subseteq Codes \cup {0, 1}
      BY <1>1, <2>1 DEF Follow!Failures, Follow!TypeOK
    <3> QED
      BY <1>1, <2>1, <3>1, FollowExitCodeIs
  <2>2. CASE r1 = "follow"
    <3> DEFINE all_ == UNION {r6[i] : i \in r2}
    <3>1. all_ \subseteq Codes \cup {1}
      BY DEF Follow!TypeOK
    <3> HIDE DEF all_
    <3>2. r10' = Follow!ExitCodeOf(all_)
      BY <1>1, <2>2 DEF Follow!FollowExitCode, all_
    <3> QED
      BY <3>1, <3>2, FollowExitCodeIs
  <2> QED
    BY <1>1, <2>1, <2>2
<1>3. Follow!TypeOK'
  BY <1>1, <1>2 DEF Follow!TypeOK
<1>4. Follow!ChargeInv'
  BY <1>1 DEF Follow!ChargeInv, Follow!Failures
<1>5. Follow!StreamInv' /\ Follow!SubmitInv' /\ Follow!SubmitSeesFailure'
  BY <1>1 DEF Follow!StreamInv, Follow!SubmitInv, Follow!SubmitSeesFailure, Follow!AllEnded
<1> QED
  BY <1>3, <1>4, <1>5

LEMMA FollowSubmitStep ==
  ASSUME Follow!Parameters, Follow!IInv, NEW i \in Id, Follow!SubmitExits(i)
  PROVE  Follow!IInv'
<1> USE DEF Follow!SUCCESS, Follow!FAILURE, Follow!Unread, Follow!ExitCodes, Follow!asked,
        Follow!streams, Follow!IInv
<1>1. /\ r1 = "submit" /\ r4 = "status" /\ r4' = "exit" /\ r2 = {i}
      /\ UNCHANGED <<r1, r2, r3, r5, r6, r7, r8, r11>>
  BY DEF Follow!SubmitExits, Follow!SubmitInv
<1>2. \/ r9' = {} /\ r11[i] = "live" /\ r10' = Follow!FollowExitCodeOf(i)
      \/ r9' = {} /\ r11[i] = "bad" /\ r10' = 1
      \/ r9' = {} /\ r11[i] = "good" /\ r10' = 0
      \/ r9' = {i} /\ r10' \in Codes \cup {1}
  <2>1. r11[i] \in {"live", "good", "bad"} /\ r9 = {}
    BY <1>1 DEF Follow!TypeOK, Follow!SubmitInv
  <2> QED
    BY <2>1 DEF Follow!SubmitExits
<1>3. /\ Follow!FollowExitCodeOf(i) \in Codes \cup {0, 1}
      /\ Follow!FollowExitCodeOf(i) = 0 => r6[i] = {}
  <2>1. r6[i] \subseteq Codes \cup {1} /\ 0 \notin Codes
    BY DEF Follow!TypeOK, Follow!Parameters
  <2> QED
    BY <2>1, FollowExitCodeIs DEF Follow!FollowExitCodeOf
<1>4. Follow!TypeOK'
  BY <1>1, <1>2, <1>3 DEF Follow!TypeOK
<1>5. Follow!ChargeInv'
  <2>1. r9 = {}
    BY <1>1 DEF Follow!SubmitInv
  <2> QED
    BY <1>1, <2>1 DEF Follow!ChargeInv
<1>6. Follow!StreamInv' /\ Follow!SubmitInv'
  BY <1>1 DEF Follow!StreamInv, Follow!SubmitInv, Follow!AllEnded
<1>7. Follow!SubmitSeesFailure'
  <2>1. r5[i] \in {"concluded", "assumed", "failed"} /\ (r5[i] = "failed" => r6[i] # {})
    BY <1>1 DEF Follow!StreamInv, Follow!AllEnded, Follow!TypeOK
  <2>2. r5[i] = "concluded" => r11[i] # "live"
    BY DEF Follow!StreamInv
  <2>3. 0 \notin Codes
    BY DEF Follow!Parameters
  <2> QED
    BY <1>1, <1>2, <1>3, <2>1, <2>2, <2>3 DEF Follow!SubmitSeesFailure
<1> QED
  BY <1>4, <1>5, <1>6, <1>7

LEMMA FollowStep ==
  ASSUME Follow!Parameters
  PROVE  Follow!IInv /\ [Follow!Next]_(Follow!vars) => Follow!IInv'
<1> SUFFICES ASSUME Follow!IInv, [Follow!Next]_(Follow!vars) PROVE Follow!IInv'
  OBVIOUS
<1>1. CASE UNCHANGED Follow!vars
  BY <1>1 DEF Follow!vars, Follow!asked, Follow!streams, Follow!IInv, Follow!TypeOK,
       Follow!ChargeInv, Follow!StreamInv, Follow!SubmitInv, Follow!SubmitSeesFailure,
       Follow!AllEnded, Follow!Failures
<1> QED
  BY <1>1, FollowStreamStep, FollowEndsStep, FollowFetchStep, FollowExitsStep, FollowSubmitStep
  DEF Follow!Next, Follow!Main

LEMMA FollowInit ==
  ASSUME Follow!Parameters
  PROVE  Follow!Init => Follow!IInv
<1> SUFFICES ASSUME Follow!Init PROVE Follow!IInv
  OBVIOUS
<1>1. r1 = "submit" => \E i \in Id : r2 = {i}
  <2>1. IsFiniteSet(Id) /\ r2 \subseteq Id
    BY FollowFinite DEF Follow!Init, Follow!Parameters
  <2>2. IsFiniteSet(r2)
    BY <2>1, FS_Subset
  <2>3. r1 = "submit" => Cardinality(r2) = 1
    BY FollowFinite DEF Follow!Init
  <2> QED
    BY <2>1, <2>2, <2>3, FS_Singleton
<1> USE DEF Follow!SUCCESS, Follow!FAILURE, Follow!Unread, Follow!ExitCodes
<1>2. Follow!TypeOK
  BY DEF Follow!Init, Follow!TypeOK
<1>3. Follow!ChargeInv
  BY DEF Follow!Init, Follow!ChargeInv
<1>4. Follow!StreamInv /\ Follow!SubmitInv /\ Follow!SubmitSeesFailure
  <2>1. /\ r3 => r1 = "wait"
        /\ r4 = "follow" /\ ~r7 /\ r9 = {} /\ r10 = -1 /\ \A i \in Id : r5[i] = "running"
    BY DEF Follow!Init
  <2>2. Follow!StreamInv
    BY <2>1 DEF Follow!StreamInv
  <2>3. Follow!SubmitInv /\ Follow!SubmitSeesFailure
    BY <1>1, <2>1 DEF Follow!SubmitInv, Follow!SubmitSeesFailure
  <2> QED
    BY <2>2, <2>3
<1> QED
  BY <1>2, <1>3, <1>4 DEF Follow!IInv

LEMMA FollowImplies ==
  ASSUME Follow!Parameters
  PROVE  Follow!IInv => Follow!WaitZeroMeansDone /\ Follow!ExitTellsCause
<1> USE DEF Follow!SUCCESS, Follow!FAILURE, Follow!Unread
<1> SUFFICES ASSUME Follow!IInv PROVE Follow!WaitZeroMeansDone /\ Follow!OwnCause
  BY DEF Follow!ExitTellsCause, Follow!IInv
<1>1. CASE r1 = "wait" /\ r4 = "exit"
  <2>1. r10 = Follow!ExitCodeOf(Follow!Failures) /\ 0 \notin Follow!Failures
    BY <1>1 DEF Follow!IInv, Follow!ChargeInv, Follow!Failures
  <2>2. IsFiniteSet(Follow!Failures)
    <3>1. \A i \in r2 : r8[i] \in {0, 1} \cup Codes
      BY <1>1 DEF Follow!IInv, Follow!TypeOK, Follow!ExitCodes, Follow!ChargeInv
    <3>2. Follow!Failures \subseteq {1, 4, 5, 6, 7, 8}
      BY <3>1 DEF Follow!Failures, Follow!Parameters
    <3> QED
      BY <3>2, ExitCodesFinite
  <2>3. \A i \in r2 : r8[i] # 0 => r8[i] \in Follow!Failures
    BY DEF Follow!Failures
  <2>4. Follow!WaitZeroMeansDone
    BY <2>1, <2>3, FollowExitCodeIs DEF Follow!WaitZeroMeansDone, Follow!IInv, Follow!ChargeInv
  <2>5. r10 \notin {0, 1} => Follow!Failures = {r10}
    BY <2>1, <2>2, FollowExitCodeIs
  <2>6. Follow!OwnCause
    BY <2>3, <2>5 DEF Follow!OwnCause, Follow!IInv, Follow!ChargeInv
  <2> QED
    BY <2>4, <2>6
<1>2. CASE ~(r1 = "wait" /\ r4 = "exit")
  BY <1>2 DEF Follow!IInv, Follow!ChargeInv, Follow!WaitZeroMeansDone, Follow!OwnCause
<1> QED
  BY <1>1, <1>2

LEMMA FollowBegins ==
  ASSUME Follow!Parameters
  PROVE  Init => (chosen = "follow" => Follow!IInv)
BY FollowInit DEF Init

LEMMA FollowGoesOn ==
  ASSUME Follow!Parameters
  PROVE  (chosen = "follow" => Follow!IInv) /\ [Next]_all => (chosen = "follow" => Follow!IInv)'
<1> SUFFICES ASSUME chosen = "follow" => Follow!IInv, [Next]_all, chosen' = "follow"
             PROVE  Follow!IInv'
  OBVIOUS
<1>1. chosen = "follow" /\ [Follow!Next]_(Follow!vars)
  BY DEF Next, OfLaz, OfMcp, OfWait, OfAdd, OfFollow, OfStream, OfWindow, OfAction, OfAbort, OfInputs,
     OfNode, OfProv,
     all, Follow!vars, Follow!asked, Follow!streams
<1> QED
  BY <1>1, FollowStep
-----------------------------------------------------------------------------
(* The runner of the action commands, the aborting of Tasks, input files. *)

LEMMA ActionBegins ==
  ASSUME Action!Parameters
  PROVE  Init => (chosen = "action" => Action!ExitInv)
BY Action!ExitBegins DEF Init

LEMMA ActionGoesOn ==
  ASSUME Action!Parameters
  PROVE  (chosen = "action" => Action!ExitInv) /\ [Next]_all
           => (chosen = "action" => Action!ExitInv)'
<1> SUFFICES ASSUME chosen = "action" => Action!ExitInv, [Next]_all, chosen' = "action"
             PROVE  Action!ExitInv'
  OBVIOUS
<1>1. chosen = "action" /\ [Action!Next]_(Action!vars)
  BY DEF Next, OfLaz, OfMcp, OfWait, OfAdd, OfFollow, OfStream, OfWindow, OfAction, OfAbort, OfInputs,
     OfNode, OfProv,
     all, Action!vars, Action!records
<1> QED
  BY <1>1, Action!ExitHolds

LEMMA AbortBegins ==
  ASSUME Abort!Parameters
  PROVE  Init => (chosen = "abort" => Abort!IInv)
BY Abort!InitHolds DEF Init

LEMMA AbortGoesOn ==
  ASSUME Abort!Parameters
  PROVE  (chosen = "abort" => Abort!IInv) /\ [Next]_all => (chosen = "abort" => Abort!IInv)'
<1> SUFFICES ASSUME chosen = "abort" => Abort!IInv, [Next]_all, chosen' = "abort"
             PROVE  Abort!IInv'
  OBVIOUS
<1>1. chosen = "abort" /\ [Abort!Next]_(Abort!vars)
  BY DEF Next, OfLaz, OfMcp, OfWait, OfAdd, OfFollow, OfStream, OfWindow, OfAction, OfAbort, OfInputs,
     OfNode, OfProv,
     all, Abort!vars, Abort!state
<1> QED
  BY <1>1, Abort!StepHolds

-----------------------------------------------------------------------------
(* Nodes given actions.  r1 is kind, r2 follows, r4 given, r5 status, r6 stage, r7 targets,
   r8 turn, r9 sent, r10 queue, r11 rows, r12 causes, r13 pending, r14 finished, r15
   unfetched, r16 late, and r17 code. *)

LEMMA NodeCardinality == \A S : Node!Cardinality(S) = Cardinality(S)
BY DEF Node!Cardinality, Cardinality

LEMMA NodeFinite ==
  ASSUME Node!Parameters, NEW ns, ns \subseteq Nodes
  PROVE  IsFiniteSet(ns) /\ Node!Cardinality(ns) = Cardinality(ns) /\ Cardinality(ns) \in Nat
<1>1. IsFiniteSet(Nodes)
  BY DEF Node!Parameters, Node!IsFiniteSet, IsFiniteSet
<1>2. IsFiniteSet(ns)
  BY <1>1, FS_Subset
<1> QED
  BY <1>2, NodeCardinality, FS_CardinalityType

\* Some Nodes as a sequence: of each of them once.
LEMMA NodeSetToSeq ==
  ASSUME Node!Parameters, NEW ns, ns \subseteq Nodes
  PROVE  /\ Node!SetToSeq(ns) \in Seq(ns)
         /\ \A j, k \in DOMAIN Node!SetToSeq(ns) :
              Node!SetToSeq(ns)[j] = Node!SetToSeq(ns)[k] => j = k
<1> DEFINE n == Cardinality(ns)
<1>1. n \in Nat /\ ExistsBijection(1 .. n, ns)
  BY NodeFinite, FS_CardinalityType
<1>2. PICK f \in [1 .. n -> ns] : Node!IsInjective(f)
  BY <1>1 DEF ExistsBijection, Bijection, Injection, IsInjective, Node!IsInjective
<1>3. Node!SetToSeq(ns) = CHOOSE g \in [1 .. n -> ns] : Node!IsInjective(g)
  BY NodeFinite DEF Node!SetToSeq
<1>4. Node!SetToSeq(ns) \in [1 .. n -> ns] /\ Node!IsInjective(Node!SetToSeq(ns))
  BY <1>2, <1>3
<1> QED
  BY <1>1, <1>4 DEF Node!IsInjective

\* The Nodes given that are among some of them, in their order: each of them once.
LEMMA NodeOnce ==
  ASSUME Node!Parameters, Node!TypeOK, NEW ns, ns \subseteq Nodes, NEW s, s \in Node!Once(ns)
  PROVE  /\ s \in Seq(Nodes) /\ Node!ToSet(s) = ns
         /\ \A j, k \in DOMAIN s : s[j] = s[k] => j = k
<1> DEFINE n == Cardinality(ns)
<1>1. n \in Nat /\ s \in [1 .. n -> ns]
  BY NodeFinite DEF Node!Once
<1>2. r4 \in Seq(Nodes)
  BY DEF Node!TypeOK, Node!Parameters
<1>3. \A m \in Nodes : ~Node!Earlier(m, m)
  BY <1>2 DEF Node!Earlier
<1>4. \A j, k \in 1 .. n : j < k => s[j] # s[k]
  BY <1>1, <1>3 DEF Node!Once
<1>5. \A j, k \in 1 .. n : s[j] = s[k] => j = k
  BY <1>1, <1>4
<1>6. Node!ToSet(s) = ns
  BY DEF Node!Once
<1> QED
  BY <1>1, <1>5, <1>6

\* The exit code of failures is 0 only if there are none.
LEMMA NodeShared ==
  ASSUME Node!Parameters, NEW codes, codes \in Seq(NodeCodes)
  PROVE  /\ Node!Shared(codes) \in NodeCodes \cup {0, 1}
         /\ Node!Shared(codes) = 0 <=> codes = <<>>
         /\ Node!Shared(codes) # -1
BY DEF Node!Parameters, Node!Shared, Node!OK, Node!FAILED

LEMMA NodeOutcome ==
  ASSUME Node!Parameters, Node!TypeOK
  PROVE  /\ Node!Outcome \in NodeCodes \cup {0, 1} /\ Node!Outcome # -1
         /\ Node!NotFetched \in NodeCodes \cup {0, 1} /\ Node!NotFetched # -1
         /\ Node!Outcome = 0 => r15 = <<>> /\ r12 = <<>>
<1>1. r15 \in Seq(NodeCodes \X Nodes) /\ r12 \in Seq(NodeCodes)
  BY DEF Node!TypeOK
<1>2. \A k \in DOMAIN r15 : r15[k][1] \in NodeCodes
  BY <1>1
<1> DEFINE codes == [k \in DOMAIN r15 |-> r15[k][1]]
<1>3. codes \in Seq(NodeCodes) /\ (codes = <<>> <=> r15 = <<>>)
  BY <1>1, <1>2
<1>4. /\ Node!NotFetched \in NodeCodes \cup {0, 1} /\ Node!NotFetched # -1
      /\ Node!NotFetched = 0 <=> r15 = <<>>
  BY <1>3, NodeShared DEF Node!NotFetched
<1> QED
  BY <1>1, <1>4, NodeShared DEF Node!Outcome, Node!FAILED, Node!OK

LEMMA NodeTargets ==
  ASSUME Node!TypeOK
  PROVE  /\ Node!TargetSet = {r7[k] : k \in 1 .. Len(r7)} /\ Node!TargetSet \subseteq Nodes
         /\ DOMAIN r7 = 1 .. Len(r7) /\ Len(r7) \in Nat
BY DEF Node!TypeOK, Node!TargetSet, Node!ToSet

\* What is recorded of each, and what was sent to it, are as the invariant has them.
LEMMA NodeTold ==
  ASSUME Node!IInv
  PROVE  Node!SubmittedOnceAndTold
<1>1. \A n \in Nodes :
        r11[n] \in {{"submitted"}, {"failed"}, {"skipped"}} => Node!Cardinality(r11[n]) = 1
  BY FS_Singleton, NodeCardinality
<1>2. Node!TargetSet \subseteq Nodes
  BY NodeTargets DEF Node!IInv
<1> QED
  BY <1>1, <1>2 DEF Node!IInv, Node!SubmittedOnceAndTold, Node!RowsInv, Node!SentInv, Node!OK,
     Node!Running

LEMMA NodeResolves ==
  ASSUME Node!Parameters, Node!IInv, Node!Resolve
  PROVE  Node!IInv'
<1> DEFINE ns == {n \in Node!ToSet(r4) : r5[n] = "RUNNING"}
           skipped == {n \in Node!ToSet(r4) : r5[n] = "TERMINATED"}
<1> USE DEF Node!OK, Node!FAILED, Node!MISSING, Node!Running, Node!input, Node!following
<1>1. r4 \in Seq(Nodes) /\ Node!ToSet(r4) \subseteq Nodes
  BY DEF Node!IInv, Node!TypeOK, Node!Parameters, Node!ToSet
<1>2. /\ r6 = "resolve" /\ r1 \in {"each", "grouped"}
      /\ r7' \in Node!Once(ns)
      /\ r11' = [n \in Nodes |-> IF n \in skipped THEN r11[n] \cup {"skipped"} ELSE r11[n]]
      /\ IF r7' = <<>> THEN r6' = "end" /\ r17' = 0 ELSE r6' = "confirm" /\ r17' = r17
      /\ UNCHANGED <<r1, r2, r3, r4, r5, r8, r9, r10, r12, r13, r14, r15, r16>>
  BY DEF Node!Resolve, Node!Ends, Node!Goes, Node!Tells
<1>3. /\ r7' \in Seq(Nodes) /\ Node!ToSet(r7') = ns
      /\ \A j, k \in DOMAIN r7' : r7'[j] = r7'[k] => j = k
  BY <1>1, <1>2, NodeOnce DEF Node!IInv
<1>4. Node!TargetSet' = ns /\ ns = {r7'[k] : k \in DOMAIN r7'}
  BY <1>3 DEF Node!TargetSet, Node!ToSet
<1>5. Node!TypeOK'
  BY <1>2, <1>3 DEF Node!IInv, Node!TypeOK
<1>6. \A n \in Nodes : r11[n] = {} /\ r9[n] = 0 /\ r10[n] = "EMPTY"
  BY <1>2 DEF Node!IInv, Node!RowsInv, Node!SentInv
<1>7. Node!RowsInv'
  BY <1>1, <1>2, <1>3, <1>4, <1>6 DEF Node!IInv, Node!RowsInv, Node!TypeOK
<1>8. Node!SentInv'
  BY <1>1, <1>2, <1>4, <1>6 DEF Node!IInv, Node!SentInv, Node!Live, Node!TypeOK
<1>9. Node!FollowInv' /\ Node!FollowedIsFinished'
  BY <1>2, <1>6 DEF Node!IInv, Node!FollowInv, Node!FollowedIsFinished
<1> QED
  BY <1>5, <1>7, <1>8, <1>9 DEF Node!IInv

LEMMA NodeResolvesOthers ==
  ASSUME Node!Parameters, Node!IInv,
         \/ Node!ResolveFindsNone \/ Node!ResolveAll
         \/ \E c \in NodeCodes : Node!ResolveFails(c)
  PROVE  Node!IInv'
<1> USE DEF Node!OK, Node!FAILED, Node!MISSING, Node!Running, Node!input, Node!following
<1>1. /\ r6 = "resolve"
      /\ \/ r6' = "end" /\ r17' \in NodeCodes \cup {6} /\ r17' \notin {0, -1}
         \/ r6' = "confirm" /\ r17' = r17 /\ r1 = "all"
      /\ UNCHANGED <<r1, r2, r3, r4, r5, r7, r8, r9, r10, r11, r12, r13, r14, r15, r16>>
  BY DEF Node!ResolveFindsNone, Node!ResolveAll, Node!ResolveFails, Node!Ends, Node!Goes,
         Node!Parameters
<1>2. r7 = <<>> /\ Node!TargetSet = {}
  BY <1>1, NodeTargets DEF Node!IInv, Node!RowsInv
<1>3. Node!TypeOK'
  BY <1>1 DEF Node!IInv, Node!TypeOK
<1>4. Node!RowsInv'
  BY <1>1, <1>2 DEF Node!IInv, Node!RowsInv, Node!TargetSet
<1>5. Node!SentInv'
  BY <1>1, <1>2 DEF Node!IInv, Node!SentInv, Node!Live, Node!TargetSet
<1>6. Node!FollowInv' /\ Node!FollowedIsFinished'
  BY <1>1 DEF Node!IInv, Node!FollowInv, Node!FollowedIsFinished
<1> QED
  BY <1>3, <1>4, <1>5, <1>6 DEF Node!IInv

LEMMA NodeResolvesStatus ==
  ASSUME Node!Parameters, Node!IInv, Node!ResolveStatus
  PROVE  Node!IInv'
<1> USE DEF Node!OK, Node!FAILED, Node!MISSING, Node!Running, Node!input, Node!following
<1>1. r4 \in Seq(Nodes) /\ Node!ToSet(r4) \subseteq Nodes /\ Node!Live \subseteq Nodes
  BY DEF Node!IInv, Node!TypeOK, Node!Parameters, Node!ToSet, Node!Live
<1>2. /\ r6 = "resolve" /\ r1 = "status"
      /\ r7' = Node!SetToSeq(Node!Live) \/ r7' \in Node!Once(Node!ToSet(r4))
      /\ r13' = Node!ToSet(r7')
      /\ IF r7' = <<>> THEN r6' = "end" /\ r17' = 0
         ELSE r6' = (IF r2 THEN "poll" ELSE "show") /\ r17' = r17
      /\ UNCHANGED <<r1, r2, r3, r4, r5, r8, r9, r10, r11, r12, r14, r15, r16>>
  BY DEF Node!ResolveStatus, Node!Ends, Node!Goes
<1>3. r7' \in Seq(Nodes) /\ \A j, k \in DOMAIN r7' : r7'[j] = r7'[k] => j = k
  <2>1. CASE r7' = Node!SetToSeq(Node!Live)
    <3>1. Node!SetToSeq(Node!Live) \in Seq(Nodes)
      BY <1>1, NodeSetToSeq
    <3> QED
      BY <1>1, <2>1, <3>1, NodeSetToSeq
  <2>2. CASE r7' \in Node!Once(Node!ToSet(r4))
    BY <1>1, <2>2, NodeOnce DEF Node!IInv
  <2> QED
    BY <1>2, <2>1, <2>2
<1>4. Node!TargetSet' = r13' /\ r13' = {r7'[k] : k \in DOMAIN r7'} /\ r13' \subseteq Nodes
  BY <1>2, <1>3 DEF Node!TargetSet, Node!ToSet
<1>5. Node!TypeOK'
  BY <1>2, <1>3, <1>4 DEF Node!IInv, Node!TypeOK
<1>6. Node!RowsInv'
  BY <1>2, <1>3 DEF Node!IInv, Node!RowsInv
<1>7. Node!SentInv'
  BY <1>2 DEF Node!IInv, Node!SentInv, Node!RowsInv
<1>8. Node!FollowInv' /\ Node!FollowedIsFinished'
  BY <1>2, <1>4 DEF Node!IInv, Node!FollowInv, Node!FollowedIsFinished, Node!TypeOK,
     Node!SentInv
<1> QED
  BY <1>5, <1>6, <1>7, <1>8 DEF Node!IInv

LEMMA NodeConfirms ==
  ASSUME Node!Parameters, Node!IInv, Node!Confirm
  PROVE  Node!IInv'
<1> USE DEF Node!OK, Node!FAILED, Node!MISSING, Node!Running, Node!input, Node!following
<1>1. /\ r6 = "confirm"
      /\ \/ r6' = "submit" /\ r17' = r17 /\ r11' = r11
         \/ /\ r6' = "end" /\ r17' = 0
            /\ r11' = [n \in Nodes |-> IF n \in Node!Whole THEN r11[n] \cup {"skipped"} ELSE r11[n]]
      /\ UNCHANGED <<r1, r2, r3, r4, r5, r7, r8, r9, r10, r12, r13, r14, r15, r16>>
  BY DEF Node!Confirm, Node!Ends, Node!Goes, Node!Tells
<1>2. /\ Node!TargetSet = {r7[k] : k \in DOMAIN r7} /\ Node!TargetSet \subseteq Nodes
      /\ Node!TargetSet' = Node!TargetSet
  BY <1>1, NodeTargets DEF Node!IInv, Node!TargetSet
<1>3. /\ r8 = 0 /\ r12 = <<>> /\ r1 # "status"
      /\ \A n \in Nodes : r9[n] = 0 /\ r10[n] = "EMPTY"
  BY <1>1 DEF Node!IInv, Node!RowsInv, Node!SentInv
<1>4. \A n \in Node!TargetSet : r11[n] = {}
  BY <1>1, <1>2, <1>3, NodeTargets DEF Node!IInv, Node!RowsInv
<1>5. \A n \in Nodes \ Node!TargetSet : r11[n] \subseteq IF r1 = "all" THEN {} ELSE {"skipped"}
  BY <1>1 DEF Node!IInv, Node!RowsInv
<1>6. Node!TypeOK'
  BY <1>1 DEF Node!IInv, Node!TypeOK
<1>7. Node!RowsInv'
  <2>1. CASE r6' = "submit"
    BY <1>1, <1>2, <2>1 DEF Node!IInv, Node!RowsInv
  <2>2. CASE r6' = "end"
    <3>1. \A n \in Node!TargetSet : n \in Node!Whole
      BY <1>2 DEF Node!Whole
    <3>2. /\ \A n \in Node!TargetSet : r11'[n] = {"skipped"}
          /\ \A n \in Nodes : "failed" \notin r11'[n]
      BY <1>1, <1>2, <1>4, <1>5, <2>2, <3>1
    <3> QED
      BY <1>1, <1>2, <1>3, <2>2, <3>2 DEF Node!IInv, Node!RowsInv
  <2> QED
    BY <1>1, <2>1, <2>2
<1>8. Node!SentInv'
  <2>1. \A n \in Nodes : r11[n] \subseteq {"skipped"}
    BY <1>4, <1>5
  <2>2. \A n \in Nodes : "submitted" \notin r11'[n]
    BY <1>1, <2>1
  <2> QED
    BY <1>1, <1>2, <1>3, <2>2 DEF Node!IInv, Node!SentInv, Node!Live
<1>9. Node!FollowInv' /\ Node!FollowedIsFinished'
  BY <1>1, <1>3 DEF Node!IInv, Node!FollowInv, Node!FollowedIsFinished
<1> QED
  BY <1>6, <1>7, <1>8, <1>9 DEF Node!IInv

LEMMA NodeSubmits ==
  ASSUME Node!Parameters, Node!IInv, Node!Submit
  PROVE  Node!IInv'
<1> USE DEF Node!OK, Node!FAILED, Node!MISSING, Node!Running, Node!input, Node!following
<1> DEFINE put == Node!Whole \cap Node!Live
<1>1. /\ r6 = "submit" /\ r1 \in {"grouped", "all"}
      /\ r9' = [n \in Nodes |-> r9[n] + (IF n \in put THEN 1 ELSE 0)]
      /\ r10' = [n \in Nodes |-> IF n \in put THEN "EXECUTING" ELSE r10[n]]
      /\ r11' = [n \in Nodes |-> IF n \in Node!Whole THEN r11[n] \cup {"submitted"} ELSE r11[n]]
      /\ IF r2 THEN r6' = "settle" /\ r17' = r17 ELSE r6' = "end" /\ r17' = 0
      /\ UNCHANGED <<r1, r2, r3, r4, r5, r7, r8, r12, r13, r14, r15, r16>>
  BY DEF Node!Submit, Node!Puts, Node!Ends, Node!Goes, Node!Tells
<1>2. /\ Node!TargetSet = {r7[k] : k \in DOMAIN r7} /\ Node!TargetSet \subseteq Nodes
      /\ Node!TargetSet' = Node!TargetSet /\ Node!TargetSet \subseteq Node!Whole
      /\ Node!Whole \subseteq Nodes
  BY <1>1, NodeTargets DEF Node!IInv, Node!TargetSet, Node!Whole
<1>3. /\ r8 = 0 /\ r12 = <<>> /\ \A n \in Nodes : r9[n] = 0
      /\ r14 = {} /\ r15 = <<>> /\ r17 = -1
  BY <1>1 DEF Node!IInv, Node!RowsInv, Node!SentInv, Node!FollowInv
<1>4. \A n \in Node!TargetSet : r11[n] = {}
  BY <1>1, <1>2, <1>3, NodeTargets DEF Node!IInv, Node!RowsInv
<1>5. \A n \in Nodes \ Node!TargetSet : r11[n] \subseteq IF r1 = "all" THEN {} ELSE {"skipped"}
  BY <1>1 DEF Node!IInv, Node!RowsInv
<1>6. /\ \A n \in Node!Whole : r11'[n] = {"submitted"}
      /\ \A n \in Nodes \ Node!Whole : r11'[n] \subseteq {"skipped"}
  BY <1>1, <1>2, <1>4, <1>5 DEF Node!Whole
<1>7. Node!TypeOK'
  BY <1>1 DEF Node!IInv, Node!TypeOK
<1>8. Node!RowsInv'
  BY <1>1, <1>2, <1>3, <1>6 DEF Node!IInv, Node!RowsInv
<1>9. Node!SentInv'
  <2>1. Node!Live' = Node!Live /\ (r1 = "grouped" => Node!Whole = Node!TargetSet)
    BY <1>1 DEF Node!Live, Node!Whole
  <2>2. r1 = "grouped" => Node!TargetSet \subseteq Node!Live
    BY <1>1 DEF Node!IInv, Node!SentInv
  <2>3. \A n \in Nodes : r9'[n] = IF n \in put THEN 1 ELSE 0
    BY <1>1, <1>3
  <2> HIDE DEF put
  <2>4. \A n \in Nodes : /\ r9'[n] <= 1
                         /\ r9'[n] = 1 <=> n \in put
    BY <2>3
  <2>5. \A n \in Nodes : r1 = "grouped" /\ r11'[n] = {"submitted"} => r9'[n] = 1
    BY <1>6, <2>1, <2>2, <2>4 DEF put
  <2> QED
    BY <1>1, <1>6, <2>1, <2>4, <2>5 DEF Node!SentInv, put
<1>10. Node!FollowInv' /\ Node!FollowedIsFinished'
  BY <1>1, <1>3 DEF Node!IInv, Node!FollowInv, Node!FollowedIsFinished
<1> QED
  BY <1>7, <1>8, <1>9, <1>10 DEF Node!IInv

LEMMA NodeSubmitFails ==
  ASSUME Node!Parameters, Node!IInv, NEW c \in NodeCodes, Node!SubmitFails(c)
  PROVE  Node!IInv'
<1> USE DEF Node!OK, Node!FAILED, Node!MISSING, Node!Running, Node!input, Node!following
<1>1. /\ r6 = "submit" /\ r1 \in {"grouped", "all"}
      /\ r11' = [n \in Nodes |-> IF n \in Node!Whole THEN r11[n] \cup {"failed"} ELSE r11[n]]
      /\ r12' = Append(r12, c) /\ r6' = "end" /\ r17' = c /\ c \notin {0, -1}
      /\ UNCHANGED <<r1, r2, r3, r4, r5, r7, r8, r9, r10, r13, r14, r15, r16>>
  BY DEF Node!SubmitFails, Node!Ends, Node!Tells, Node!Parameters
<1>2. /\ Node!TargetSet = {r7[k] : k \in DOMAIN r7} /\ Node!TargetSet \subseteq Nodes
      /\ Node!TargetSet' = Node!TargetSet /\ Node!TargetSet \subseteq Node!Whole
  BY <1>1, NodeTargets DEF Node!IInv, Node!TargetSet, Node!Whole
<1>3. r8 = 0 /\ \A n \in Nodes : r9[n] = 0
  BY <1>1 DEF Node!IInv, Node!RowsInv, Node!SentInv
<1>4. \A n \in Node!TargetSet : r11[n] = {}
  BY <1>1, <1>2, <1>3, NodeTargets DEF Node!IInv, Node!RowsInv
<1>5. \A n \in Nodes \ Node!TargetSet : r11[n] \subseteq IF r1 = "all" THEN {} ELSE {"skipped"}
  BY <1>1 DEF Node!IInv, Node!RowsInv
<1>6. /\ \A n \in Node!TargetSet : r11'[n] = {"failed"}
      /\ \A n \in Nodes : "submitted" \notin r11'[n]
  BY <1>1, <1>2, <1>4, <1>5
<1>7. Node!TypeOK'
  BY <1>1 DEF Node!IInv, Node!TypeOK
<1>8. Node!RowsInv'
  BY <1>1, <1>2, <1>6 DEF Node!IInv, Node!RowsInv
<1>9. Node!SentInv'
  BY <1>1, <1>3, <1>6 DEF Node!IInv, Node!SentInv
<1>10. Node!FollowInv' /\ Node!FollowedIsFinished'
  BY <1>1 DEF Node!IInv, Node!FollowInv, Node!FollowedIsFinished
<1> QED
  BY <1>7, <1>8, <1>9, <1>10 DEF Node!IInv

\* The Node whose turn it is has no record yet, and it is none of the others.
LEMMA NodeTurn ==
  ASSUME Node!IInv, Node!Each
  PROVE  /\ r6 = "submit" /\ r1 = "each" /\ r8 \in Nat /\ r8 + 1 \in DOMAIN r7
         /\ Node!Node \in Nodes /\ Node!Node = r7[r8 + 1] /\ Node!Node \in Node!TargetSet
         /\ \A k \in DOMAIN r7 : k # r8 + 1 => r7[k] # Node!Node /\ r7[k] \in Nodes
         /\ r11[Node!Node] = {} /\ r9[Node!Node] = 0 /\ r17 = -1
<1> USE DEF Node!IInv
<1>1. r6 = "submit" /\ r1 = "each" /\ r8 < Len(r7) /\ r8 \in Nat /\ r7 \in Seq(Nodes)
  BY DEF Node!Each, Node!TypeOK
<1>2. r8 + 1 \in DOMAIN r7 /\ Node!Node = r7[r8 + 1] /\ Node!Node \in Nodes
  BY <1>1 DEF Node!Node
<1>3. r11[Node!Node] = {} /\ \A k \in DOMAIN r7 : k # r8 + 1 => r7[k] # Node!Node /\ r7[k] \in Nodes
  BY <1>1, <1>2 DEF Node!RowsInv
<1>4. r9[Node!Node] = 0
  <2>1. r9[Node!Node] \in Nat
    BY <1>2 DEF Node!TypeOK
  <2>2. r9[Node!Node] <= 1 /\ (r9[Node!Node] = 1 => r11[Node!Node] = {"submitted"})
    BY <1>2 DEF Node!SentInv
  <2>3. r11[Node!Node] # {"submitted"}
    BY <1>3
  <2> QED
    BY <2>1, <2>2, <2>3
<1> QED
  BY <1>1, <1>2, <1>3, <1>4 DEF Node!FollowInv, Node!TargetSet, Node!ToSet, Node!Running

LEMMA NodeSubmitsToNode ==
  ASSUME Node!Parameters, Node!IInv, Node!SubmitToNode
  PROVE  Node!IInv'
<1> USE DEF Node!OK, Node!FAILED, Node!MISSING, Node!Running, Node!input, Node!following
<1>1. /\ Node!Each
      /\ r9' = [n \in Nodes |-> r9[n] + (IF n \in {Node!Node} THEN 1 ELSE 0)]
      /\ r10' = [n \in Nodes |-> IF n \in {Node!Node} THEN "EXECUTING" ELSE r10[n]]
      /\ r11' = [n \in Nodes |-> IF n \in {Node!Node} THEN r11[n] \cup {"submitted"} ELSE r11[n]]
      /\ r8' = r8 + 1
      /\ UNCHANGED <<r1, r2, r3, r4, r5, r6, r7, r12, r13, r14, r15, r16, r17>>
  BY DEF Node!SubmitToNode, Node!Puts, Node!Tells
<1>2. /\ Node!TargetSet = {r7[k] : k \in DOMAIN r7} /\ Node!TargetSet \subseteq Nodes
      /\ Node!TargetSet' = Node!TargetSet /\ DOMAIN r7 = 1 .. Len(r7) /\ Len(r7) \in Nat
  BY <1>1, NodeTargets DEF Node!IInv, Node!TargetSet
<1>3. /\ r11'[Node!Node] = {"submitted"} /\ r9'[Node!Node] = 1
      /\ \A n \in Nodes : n # Node!Node => r11'[n] = r11[n] /\ r9'[n] = r9[n]
  BY <1>1, NodeTurn DEF Node!IInv, Node!TypeOK
<1>4. Node!TypeOK'
  BY <1>1 DEF Node!IInv, Node!TypeOK
<1>5. Node!RowsInv'
  BY <1>1, <1>2, <1>3, NodeTurn DEF Node!IInv, Node!RowsInv
<1>6. Node!SentInv'
  BY <1>1, <1>3, NodeTurn DEF Node!IInv, Node!SentInv
<1>7. Node!FollowInv' /\ Node!FollowedIsFinished'
  BY <1>1, NodeTurn DEF Node!IInv, Node!FollowInv, Node!FollowedIsFinished
<1> QED
  BY <1>4, <1>5, <1>6, <1>7 DEF Node!IInv

LEMMA NodeSubmitToNodeFails ==
  ASSUME Node!Parameters, Node!IInv, NEW c \in NodeCodes, Node!SubmitToNodeFails(c)
  PROVE  Node!IInv'
<1> USE DEF Node!OK, Node!FAILED, Node!MISSING, Node!Running, Node!input, Node!following
<1>1. /\ Node!Each /\ r8' = r8 + 1 /\ r12' = Append(r12, c) /\ c \notin {0, -1}
      /\ UNCHANGED <<r1, r2, r3, r4, r5, r7, r9, r10, r13, r14, r15, r16>>
  BY DEF Node!SubmitToNodeFails, Node!Parameters
<1>2. /\ Node!TargetSet = {r7[k] : k \in DOMAIN r7} /\ Node!TargetSet \subseteq Nodes
      /\ Node!TargetSet' = Node!TargetSet /\ DOMAIN r7 = 1 .. Len(r7) /\ Len(r7) \in Nat
  BY <1>1, NodeTargets DEF Node!IInv, Node!TargetSet
<1>3. r12' \in Seq(NodeCodes) /\ r12' # <<>>
  <2>1. r12 \in Seq(NodeCodes)
    BY DEF Node!IInv, Node!TypeOK
  <2> QED
    BY <1>1, <2>1
<1>4. CASE c \in Node!SESSION
  <2>1. /\ r6' = "end" /\ r17' = c
        /\ r11' = [n \in Nodes |-> IF n = Node!Node THEN r11[n] \cup {"failed"}
                     ELSE IF \E k \in r8 + 2 .. Len(r7) : r7[k] = n
                     THEN r11[n] \cup {"skipped"} ELSE r11[n]]
    BY <1>4 DEF Node!SubmitToNodeFails, Node!Ends
  <2>2. r11'[Node!Node] = {"failed"}
    BY <2>1, NodeTurn, <1>1
  <2>3. \A k \in DOMAIN r7 :
          /\ k < r8 + 1 => /\ r11'[r7[k]] = r11[r7[k]]
                           /\ r11[r7[k]] \in {{"submitted"}, {"failed"}}
          /\ k > r8 + 1 => r11'[r7[k]] = {"skipped"}
    <3> SUFFICES ASSUME NEW k \in DOMAIN r7
                 PROVE  /\ k < r8 + 1 => /\ r11'[r7[k]] = r11[r7[k]]
                                         /\ r11[r7[k]] \in {{"submitted"}, {"failed"}}
                        /\ k > r8 + 1 => r11'[r7[k]] = {"skipped"}
      OBVIOUS
    <3>1. /\ k > r8 => r11[r7[k]] = {}
          /\ ~(k > r8) => r11[r7[k]] \in {{"submitted"}, {"failed"}}
      BY <1>1, NodeTurn DEF Node!IInv, Node!RowsInv
    <3>2. \A j \in DOMAIN r7 : r7[j] = r7[k] => j = k
      BY DEF Node!IInv, Node!RowsInv
    <3>3. k # r8 + 1 => r7[k] # Node!Node /\ r7[k] \in Nodes
      BY <1>1, NodeTurn
    <3>4. CASE k < r8 + 1
      <4>1. ~ \E j \in r8 + 2 .. Len(r7) : r7[j] = r7[k]
        BY <1>1, <1>2, <3>2, <3>4, NodeTurn
      <4> QED
        BY <1>1, <1>2, <2>1, <3>1, <3>3, <3>4, <4>1, NodeTurn
    <3>5. CASE k > r8 + 1
      <4>1. k \in r8 + 2 .. Len(r7)
        BY <1>1, <1>2, <3>5, NodeTurn
      <4> QED
        BY <1>1, <1>2, <2>1, <3>1, <3>3, <3>5, <4>1, NodeTurn
    <3> QED
      BY <3>4, <3>5, <1>1, <1>2, NodeTurn
  <2>4. \A n \in Node!TargetSet : r11'[n] \in {{"submitted"}, {"failed"}, {"skipped"}}
    BY <1>1, <1>2, <2>2, <2>3, NodeTurn
  <2>5. \A n \in Nodes : r11'[n] = {"submitted"} <=> r11[n] = {"submitted"}
    <3> SUFFICES ASSUME NEW n \in Nodes PROVE r11'[n] = {"submitted"} <=> r11[n] = {"submitted"}
      OBVIOUS
    <3>1. CASE n \in Node!TargetSet
      <4>1. PICK k \in DOMAIN r7 : n = r7[k]
        BY <1>2, <3>1
      <4>2. k > r8 => r11[n] = {}
        BY <1>1, <4>1, NodeTurn DEF Node!IInv, Node!RowsInv
      <4>3. CASE k < r8 + 1
        BY <2>3, <4>1, <4>3
      <4>4. CASE k = r8 + 1
        <5>1. n = Node!Node
          BY <1>1, <4>1, <4>4, NodeTurn
        <5> QED
          BY <1>1, <2>2, <5>1, NodeTurn
      <4>5. CASE k > r8 + 1
        <5>1. r11'[n] = {"skipped"} /\ r11[n] = {}
          BY <1>1, <1>2, <2>3, <4>1, <4>2, <4>5, NodeTurn
        <5> QED
          BY <5>1
      <4> QED
        BY <1>1, <1>2, <4>3, <4>4, <4>5, NodeTurn
    <3>2. CASE n \notin Node!TargetSet
      <4>1. \A k \in DOMAIN r7 : r7[k] # n
        BY <1>2, <3>2
      <4>2. n # Node!Node /\ ~ \E k \in r8 + 2 .. Len(r7) : r7[k] = n
        BY <1>1, <1>2, <4>1, NodeTurn
      <4> QED
        BY <2>1, <4>2
    <3> QED
      BY <3>1, <3>2
  <2>6. Node!TypeOK'
    BY <1>1, <1>3, <2>1, NodeTurn DEF Node!IInv, Node!TypeOK
  <2>7. Node!RowsInv'
    BY <1>1, <1>2, <2>1, <2>4, NodeTurn DEF Node!IInv, Node!RowsInv
  <2>8. Node!SentInv'
    BY <1>1, <2>1, <2>5, NodeTurn DEF Node!IInv, Node!SentInv
  <2>9. Node!FollowInv' /\ Node!FollowedIsFinished'
    BY <1>1, <2>1 DEF Node!IInv, Node!FollowInv, Node!FollowedIsFinished
  <2> QED
    BY <2>6, <2>7, <2>8, <2>9 DEF Node!IInv
<1>5. CASE c \notin Node!SESSION
  <2>1. /\ UNCHANGED <<r6, r17>>
        /\ r11' = [n \in Nodes |-> IF n \in {Node!Node} THEN r11[n] \cup {"failed"} ELSE r11[n]]
    BY <1>5 DEF Node!SubmitToNodeFails, Node!Tells
  <2>2. /\ r11'[Node!Node] = {"failed"}
        /\ \A n \in Nodes : n # Node!Node => r11'[n] = r11[n]
    BY <1>1, <2>1, NodeTurn
  <2>3. Node!TypeOK'
    BY <1>1, <1>3, <2>1, NodeTurn DEF Node!IInv, Node!TypeOK
  <2>4. Node!RowsInv'
    <3>1. /\ r6 = "submit" /\ r6' = "submit" /\ r1 = "each" /\ r1' = "each"
          /\ r17' = -1 /\ r7' = r7 /\ r12' # <<>>
      BY <1>1, <1>3, <2>1, NodeTurn
    <3>2. r8' \in Nat /\ r8' <= Len(r7)
      BY <1>1, <1>2, NodeTurn
    <3>3. \A k \in DOMAIN r7 : IF k > r8' THEN r11'[r7[k]] = {}
                               ELSE r11'[r7[k]] \in {{"submitted"}, {"failed"}}
      BY <1>1, <1>2, <2>2, NodeTurn DEF Node!IInv, Node!RowsInv
    <3>4. \A n \in Nodes \ Node!TargetSet : r11'[n] \subseteq {"skipped"}
      BY <1>1, <1>2, <2>2, NodeTurn DEF Node!IInv, Node!RowsInv
    <3>5. \A j, k \in DOMAIN r7 : r7[j] = r7[k] => j = k
      BY DEF Node!IInv, Node!RowsInv
    <3> QED
      BY <1>2, <3>1, <3>2, <3>3, <3>4, <3>5 DEF Node!RowsInv
  <2>5. Node!SentInv'
    BY <1>1, <2>1, <2>2, NodeTurn DEF Node!IInv, Node!SentInv
  <2>6. Node!FollowInv' /\ Node!FollowedIsFinished'
    BY <1>1, <2>1, NodeTurn DEF Node!IInv, Node!FollowInv, Node!FollowedIsFinished
  <2> QED
    BY <2>3, <2>4, <2>5, <2>6 DEF Node!IInv
<1> QED
  BY <1>4, <1>5

LEMMA NodeSubmittedToEach ==
  ASSUME Node!Parameters, Node!IInv, Node!SubmittedToEach
  PROVE  Node!IInv'
<1> USE DEF Node!OK, Node!FAILED, Node!MISSING, Node!Running, Node!input, Node!following
<1>1. /\ r6 = "submit" /\ r1 = "each" /\ r8 = Len(r7)
      /\ IF r2 /\ (\E n \in Nodes : "submitted" \in r11[n])
         THEN r6' = "settle" /\ r17' = r17 ELSE r6' = "end" /\ r17' = Node!Shared(r12)
      /\ UNCHANGED <<r1, r2, r3, r4, r5, r7, r8, r9, r10, r11, r12, r13, r14, r15, r16>>
  BY DEF Node!SubmittedToEach, Node!Ends, Node!Goes
<1>2. /\ Node!TargetSet = {r7[k] : k \in DOMAIN r7} /\ Node!TargetSet \subseteq Nodes
      /\ Node!TargetSet' = Node!TargetSet /\ DOMAIN r7 = 1 .. Len(r7) /\ Len(r7) \in Nat
  BY <1>1, NodeTargets DEF Node!IInv, Node!TargetSet
<1>3. /\ Node!Shared(r12) \in NodeCodes \cup {0, 1} /\ Node!Shared(r12) # -1
      /\ Node!Shared(r12) = 0 => r12 = <<>>
  BY NodeShared DEF Node!IInv, Node!TypeOK
<1>4. \A n \in Node!TargetSet : r11[n] \in {{"submitted"}, {"failed"}}
  <2>1. \A k \in DOMAIN r7 : ~(k > r8)
    BY <1>1, <1>2
  <2> QED
    BY <1>1, <1>2, <2>1 DEF Node!IInv, Node!RowsInv
<1>5. Node!TypeOK'
  BY <1>1, <1>3 DEF Node!IInv, Node!TypeOK
<1>6. Node!RowsInv'
  <2>1. r12 # <<>> \/ \A n \in Nodes : "failed" \notin r11[n]
    BY <1>1 DEF Node!IInv, Node!RowsInv
  <2>2. \A j, k \in DOMAIN r7 : r7[j] = r7[k] => j = k
    BY DEF Node!IInv, Node!RowsInv
  <2>3. r6' \in {"settle", "end"} /\ (r6' = "end" => r17' = Node!Shared(r12))
    BY <1>1
  <2> QED
    BY <1>1, <1>2, <1>3, <1>4, <2>1, <2>2, <2>3 DEF Node!RowsInv
<1>7. Node!SentInv'
  BY <1>1 DEF Node!IInv, Node!SentInv
<1>8. Node!FollowInv'
  BY <1>1, <1>3 DEF Node!IInv, Node!FollowInv
<1>9. Node!FollowedIsFinished'
  BY <1>1 DEF Node!IInv, Node!FollowedIsFinished, Node!SentInv, Node!FollowInv
<1> QED
  BY <1>5, <1>6, <1>7, <1>8, <1>9 DEF Node!IInv

LEMMA NodeSettles ==
  ASSUME Node!Parameters, Node!IInv, Node!Settle
  PROVE  Node!IInv'
<1> USE DEF Node!OK, Node!FAILED, Node!MISSING, Node!Running, Node!input, Node!following
<1>1. /\ r6 = "settle" /\ r8' = 0
      /\ r13' = IF r1 = "all" THEN Node!Live ELSE {n \in Nodes : "submitted" \in r11[n]}
      /\ IF r13' = {} THEN r6' = "end" /\ r17' = 0 ELSE r6' = "poll" /\ r17' = r17
      /\ UNCHANGED <<r1, r2, r3, r4, r5, r7, r9, r10, r11, r12, r14, r15, r16>>
  BY DEF Node!Settle, Node!Ends, Node!Goes
<1>2. Node!TargetSet' = Node!TargetSet /\ Node!GivenUp' = Node!GivenUp /\ Node!Live' = Node!Live
  BY <1>1 DEF Node!TargetSet, Node!GivenUp, Node!Live
<1>3. /\ r1 # "status" /\ (r1 # "each" => r12 = <<>>)
      /\ r1 = "each" => r13' # {}
  BY <1>1 DEF Node!IInv, Node!RowsInv, Node!SentInv, Node!FollowInv
<1>4. \A n \in Nodes : r9[n] = 1 => n \in r13'
  BY <1>1 DEF Node!IInv, Node!SentInv
<1>5. Node!TypeOK'
  BY <1>1 DEF Node!IInv, Node!TypeOK, Node!Live
<1>6. Node!RowsInv'
  BY <1>1, <1>2, <1>3 DEF Node!IInv, Node!RowsInv
<1>7. Node!SentInv'
  BY <1>1, <1>2 DEF Node!IInv, Node!SentInv
<1>8. Node!FollowInv'
  BY <1>1, <1>2, <1>3, <1>4 DEF Node!IInv, Node!FollowInv
<1>9. Node!FollowedIsFinished'
  BY <1>1, <1>3, <1>4 DEF Node!IInv, Node!FollowedIsFinished, Node!FollowInv
<1> QED
  BY <1>5, <1>6, <1>7, <1>8, <1>9 DEF Node!IInv

\* One of a round is one of those that are still polled.
LEMMA NodeSorted ==
  ASSUME Node!Parameters, Node!TypeOK, NEW n, r8 < Len(Node!Sorted), n = Node!Sorted[r8 + 1]
  PROVE  n \in r13
<1>1. Node!Sorted \in Seq(r13)
  BY NodeSetToSeq DEF Node!TypeOK, Node!Sorted
<1>2. r8 \in Nat
  BY DEF Node!TypeOK
<1> QED
  BY <1>1, <1>2

LEMMA NodePolls ==
  ASSUME Node!Parameters, Node!IInv, NEW n \in Nodes, Node!Poll(n)
  PROVE  Node!IInv'
<1> USE DEF Node!OK, Node!FAILED, Node!MISSING, Node!Running, Node!input, Node!following
<1>1. /\ r6 = "poll" /\ r8' = r8 + 1 /\ n \in r13
      /\ r14' = IF r10[n] \in {"EMPTY", "FAILED"} THEN r14 \cup {n} ELSE r14
      /\ UNCHANGED <<r1, r2, r3, r4, r5, r6, r7, r9, r10, r11, r12, r13, r15, r16, r17>>
  BY NodeSorted DEF Node!Poll, Node!IInv
<1>2. Node!TargetSet' = Node!TargetSet /\ Node!GivenUp' = Node!GivenUp /\ Node!Live' = Node!Live
  BY <1>1 DEF Node!TargetSet, Node!GivenUp, Node!Live
<1>3. Node!TypeOK'
  BY <1>1 DEF Node!IInv, Node!TypeOK
<1>4. Node!RowsInv' /\ Node!SentInv'
  BY <1>1, <1>2 DEF Node!IInv, Node!RowsInv, Node!SentInv
<1>5. Node!FollowInv' /\ Node!FollowedIsFinished'
  BY <1>1, <1>2 DEF Node!IInv, Node!FollowInv, Node!FollowedIsFinished
<1> QED
  BY <1>3, <1>4, <1>5 DEF Node!IInv

LEMMA NodePollFails ==
  ASSUME Node!Parameters, Node!IInv, NEW c \in NodeCodes, NEW n \in Nodes, Node!PollFails(n, c)
  PROVE  Node!IInv'
<1> USE DEF Node!OK, Node!FAILED, Node!MISSING, Node!Running, Node!input, Node!following
<1>1. /\ r6 = "poll" /\ n \in r13 /\ c \notin {0, -1}
      /\ \/ r6' = "end" /\ r17' = c /\ UNCHANGED <<r8, r15>>
         \/ r8' = r8 + 1 /\ r15' = Append(r15, <<c, n>>) /\ UNCHANGED <<r6, r17>>
      /\ UNCHANGED <<r1, r2, r3, r4, r5, r7, r9, r10, r11, r12, r13, r14, r16>>
  BY NodeSorted DEF Node!PollFails, Node!Ends, Node!IInv, Node!Parameters
<1>2. Node!TargetSet' = Node!TargetSet /\ Node!Live' = Node!Live
  BY <1>1 DEF Node!TargetSet, Node!Live
<1>3. Node!GivenUp \subseteq Node!GivenUp'
  <2>1. r15 \in Seq(NodeCodes \X Nodes)
    BY DEF Node!IInv, Node!TypeOK
  <2>2. /\ Append(r15, <<c, n>>) \in Seq(NodeCodes \X Nodes)
        /\ \A k \in DOMAIN r15 : /\ k \in DOMAIN Append(r15, <<c, n>>)
                               /\ Append(r15, <<c, n>>)[k] = r15[k]
    BY <2>1, <<c, n>> \in NodeCodes \X Nodes
  <2> QED
    BY <1>1, <2>2 DEF Node!GivenUp
<1>4. Node!TypeOK'
  <2>1. r15 \in Seq(NodeCodes \X Nodes) /\ <<c, n>> \in NodeCodes \X Nodes
    BY DEF Node!IInv, Node!TypeOK
  <2>2. r15' \in Seq(NodeCodes \X Nodes)
    BY <1>1, <2>1
  <2>3. r17' \in {-1, 0, 1, 6} \cup NodeCodes /\ r8' \in Nat
    BY <1>1 DEF Node!IInv, Node!TypeOK
  <2> QED
    BY <1>1, <2>2, <2>3 DEF Node!IInv, Node!TypeOK
<1>5. Node!RowsInv' /\ Node!SentInv'
  BY <1>1, <1>2 DEF Node!IInv, Node!RowsInv, Node!SentInv
<1>6. Node!FollowInv' /\ Node!FollowedIsFinished'
  BY <1>1, <1>2, <1>3 DEF Node!IInv, Node!FollowInv, Node!FollowedIsFinished
<1> QED
  BY <1>4, <1>5, <1>6 DEF Node!IInv

LEMMA NodeRoundEnds ==
  ASSUME Node!Parameters, Node!IInv, Node!RoundEnds
  PROVE  Node!IInv'
<1> USE DEF Node!OK, Node!FAILED, Node!MISSING, Node!Running, Node!input, Node!following
<1>1. /\ r6 = "poll" /\ r8' = 0 /\ r13' = r13 \ (r14 \cup Node!GivenUp)
      /\ \/ r6' = "end" /\ r13' = {} /\ r17' = Node!Outcome
         \/ r6' = "end" /\ r17' = 1
         \/ r6' = "sleep" /\ r17' = r17
      /\ UNCHANGED <<r1, r2, r3, r4, r5, r7, r9, r10, r11, r12, r14, r15, r16>>
  BY DEF Node!RoundEnds, Node!Ends, Node!Goes
<1>2. Node!TargetSet' = Node!TargetSet /\ Node!GivenUp' = Node!GivenUp /\ Node!Live' = Node!Live
  BY <1>1 DEF Node!TargetSet, Node!GivenUp, Node!Live
<1>3. r17' # -1 \/ r6' = "sleep"
  BY <1>1, NodeOutcome DEF Node!IInv
<1>4. r6' = "end" /\ r17' = 0 => /\ r12 = <<>> /\ Node!GivenUp = {} /\ r13 \subseteq r14
  BY <1>1, NodeOutcome DEF Node!IInv, Node!GivenUp
<1>5. Node!TypeOK'
  BY <1>1, NodeOutcome DEF Node!IInv, Node!TypeOK
<1>6. Node!RowsInv'
  BY <1>1, <1>2, <1>4 DEF Node!IInv, Node!RowsInv
<1>7. Node!SentInv'
  BY <1>1, <1>2 DEF Node!IInv, Node!SentInv
<1>8. Node!FollowInv'
  BY <1>1, <1>2, <1>3 DEF Node!IInv, Node!FollowInv
<1>9. Node!FollowedIsFinished'
  BY <1>1, <1>2, <1>4 DEF Node!IInv, Node!FollowInv, Node!FollowedIsFinished
<1> QED
  BY <1>5, <1>6, <1>7, <1>8, <1>9 DEF Node!IInv

LEMMA NodeShows ==
  ASSUME Node!Parameters, Node!IInv, Node!Show \/ Node!Shown
  PROVE  Node!IInv'
<1> USE DEF Node!OK, Node!FAILED, Node!MISSING, Node!Running, Node!input, Node!following
<1>1. /\ r6 = "show" /\ r8' \in {r8, r8 + 1}
      /\ \/ UNCHANGED <<r6, r15, r17>>
         \/ r6' = "end" /\ r17' \in NodeCodes \cup {Node!NotFetched} /\ r15' = r15
         \/ /\ r8 < Len(r7) /\ UNCHANGED <<r6, r17>>
            /\ \E c \in NodeCodes : r15' = Append(r15, <<c, r7[r8 + 1]>>)
      /\ UNCHANGED <<r1, r2, r3, r4, r5, r7, r9, r10, r11, r12, r13, r14, r16>>
  BY DEF Node!Show, Node!Shown, Node!Ends
<1>2. Node!TargetSet' = Node!TargetSet /\ Node!Live' = Node!Live
  BY <1>1 DEF Node!TargetSet, Node!Live
<1>3. r1 = "status" /\ ~r2 /\ r12 = <<>> /\ r17 = -1 /\ \A n \in Nodes : "failed" \notin r11[n]
  BY <1>1 DEF Node!IInv, Node!RowsInv, Node!SentInv, Node!FollowInv
<1>4. r6' = "end" => r17' \in NodeCodes \cup {0, 1} /\ r17' # -1
  BY <1>1, NodeOutcome DEF Node!IInv, Node!Parameters
<1>5. Node!TypeOK'
  <2>1. r15 \in Seq(NodeCodes \X Nodes) /\ (r8 < Len(r7) => r7[r8 + 1] \in Nodes)
    BY DEF Node!IInv, Node!TypeOK
  <2>2. \A c \in NodeCodes : r8 < Len(r7) => <<c, r7[r8 + 1]>> \in NodeCodes \X Nodes
    BY <2>1
  <2>3. r15' \in Seq(NodeCodes \X Nodes)
    <3>1. CASE r15' = r15
      BY <2>1, <3>1
    <3>2. CASE r8 < Len(r7) /\ \E c \in NodeCodes : r15' = Append(r15, <<c, r7[r8 + 1]>>)
      <4>1. PICK c \in NodeCodes : r15' = Append(r15, <<c, r7[r8 + 1]>>)
        BY <3>2
      <4> QED
        BY <2>1, <2>2, <3>2, <4>1
    <3> QED
      BY <1>1, <3>1, <3>2
  <2> QED
    BY <1>1, <1>4, <2>3 DEF Node!IInv, Node!TypeOK
<1>6. Node!RowsInv' /\ Node!SentInv'
  BY <1>1, <1>2, <1>3 DEF Node!IInv, Node!RowsInv, Node!SentInv
<1>7. Node!FollowInv' /\ Node!FollowedIsFinished'
  BY <1>1, <1>3, <1>4 DEF Node!IInv, Node!FollowInv, Node!FollowedIsFinished
<1> QED
  BY <1>5, <1>6, <1>7 DEF Node!IInv

LEMMA NodeElsewhere ==
  ASSUME Node!Parameters, Node!IInv,
         \/ Node!Sleep \/ Node!DeadlinePasses \/ UNCHANGED Node!vars
         \/ \E n \in Nodes : Node!Execute(n)
  PROVE  Node!IInv'
<1> USE DEF Node!input, Node!following
<1>1. /\ \/ r10' = r10
         \/ \E n \in Nodes, q \in {"EMPTY", "FAILED"} :
              r10[n] = "EXECUTING" /\ r10' = [r10 EXCEPT ![n] = q]
      /\ r6' = r6 \/ (r6 = "sleep" /\ r6' = "poll")
      /\ r16' \in BOOLEAN
      /\ UNCHANGED <<r1, r2, r3, r4, r5, r7, r8, r9, r11, r12, r13, r14, r15, r17>>
  <2> r16 \in BOOLEAN
    BY DEF Node!IInv, Node!TypeOK
  <2>1. CASE Node!Sleep
    BY <2>1 DEF Node!Sleep, Node!Goes
  <2>3. CASE Node!DeadlinePasses
    BY <2>3 DEF Node!DeadlinePasses
  <2>4. CASE UNCHANGED Node!vars
    BY <2>4 DEF Node!vars
  <2>2. CASE \E n \in Nodes : Node!Execute(n)
    <3>1. PICK n \in Nodes : Node!Execute(n)
      BY <2>2
    <3>2. r10[n] = "EXECUTING" /\ \E q \in {"EMPTY", "FAILED"} : r10' = [r10 EXCEPT ![n] = q]
      BY <3>1 DEF Node!Execute
    <3>3. UNCHANGED <<r1, r2, r3, r4, r5, r6, r7, r8, r9, r11, r12, r13, r14, r15, r16, r17>>
      BY <3>1 DEF Node!Execute
    <3> QED
      BY <3>2, <3>3
  <2> QED
    BY <2>1, <2>2, <2>3, <2>4
<1>2. Node!TargetSet' = Node!TargetSet /\ Node!GivenUp' = Node!GivenUp /\ Node!Live' = Node!Live
  BY <1>1 DEF Node!TargetSet, Node!GivenUp, Node!Live
<1>3. Node!TypeOK'
  BY <1>1 DEF Node!IInv, Node!TypeOK
<1>4. \A n \in Nodes : r10'[n] = r10[n] \/ (r10'[n] # "EXECUTING" /\ r10[n] = "EXECUTING")
  <2>1. r10 \in [Nodes -> {"EMPTY", "EXECUTING", "FAILED"}]
    BY DEF Node!IInv, Node!TypeOK
  <2> QED
    BY <1>1, <2>1
<1>5. Node!RowsInv'
  BY <1>1, <1>2 DEF Node!IInv, Node!RowsInv
<1>6. Node!SentInv'
  BY <1>1, <1>2, <1>4 DEF Node!IInv, Node!SentInv
<1>7. Node!FollowInv' /\ Node!FollowedIsFinished'
  BY <1>1, <1>2, <1>4 DEF Node!IInv, Node!FollowInv, Node!FollowedIsFinished, Node!TypeOK
<1> QED
  BY <1>3, <1>5, <1>6, <1>7 DEF Node!IInv

LEMMA NodeStep ==
  ASSUME Node!Parameters, Node!IInv, [Node!Next]_(Node!vars)
  PROVE  Node!IInv'
BY NodeResolves, NodeResolvesOthers, NodeResolvesStatus, NodeConfirms, NodeSubmits,
   NodeSubmitFails, NodeSubmitsToNode, NodeSubmitToNodeFails, NodeSubmittedToEach, NodeSettles,
   NodePolls, NodePollFails, NodeRoundEnds, NodeShows, NodeElsewhere
   DEF Node!Next, Node!Run

LEMMA NodeBegins ==
  ASSUME Node!Parameters
  PROVE  Init => (chosen = "nodeaction" => Node!IInv)
<1> SUFFICES ASSUME Node!Init PROVE Node!IInv
  BY DEF Init
<1> USE DEF Node!Init, Node!OK, Node!FAILED, Node!MISSING, Node!Running
<1>1. Node!TypeOK
  <2>1. <<>> \in Seq(Nodes) /\ <<>> \in Seq(NodeCodes) /\ <<>> \in Seq(NodeCodes \X Nodes)
    OBVIOUS
  <2>2. /\ r9 \in [Nodes -> Nat] /\ r10 \in [Nodes -> {"EMPTY", "EXECUTING", "FAILED"}]
        /\ r11 \in [Nodes -> SUBSET {"submitted", "skipped", "failed"}]
    OBVIOUS
  <2> QED
    BY <2>1, <2>2 DEF Node!TypeOK
<1>2. Node!RowsInv /\ Node!SentInv
  BY DEF Node!RowsInv, Node!SentInv, Node!TargetSet, Node!ToSet
<1>3. Node!FollowInv /\ Node!FollowedIsFinished
  BY DEF Node!FollowInv, Node!FollowedIsFinished
<1> QED
  BY <1>1, <1>2, <1>3 DEF Node!IInv

LEMMA NodeGoesOn ==
  ASSUME Node!Parameters
  PROVE  (chosen = "nodeaction" => Node!IInv) /\ [Next]_all => (chosen = "nodeaction" => Node!IInv)'
<1> SUFFICES ASSUME chosen = "nodeaction" => Node!IInv, [Next]_all, chosen' = "nodeaction"
             PROVE  Node!IInv'
  OBVIOUS
<1>1. chosen = "nodeaction" /\ [Node!Next]_(Node!vars)
  BY DEF Next, OfLaz, OfMcp, OfWait, OfAdd, OfFollow, OfStream, OfWindow, OfAction, OfAbort, OfInputs,
     OfNode, OfProv, all, Node!vars, Node!input, Node!following
<1> QED
  BY <1>1, NodeStep
-----------------------------------------------------------------------------
(* Induction, over sets: the library's theorems are about operators. *)

\* A set of natural numbers has a least one, since of the intervals up to them one is
\* within all of the others.
LEMMA Least ==
  ASSUME NEW T \in SUBSET Nat, T # {}
  PROVE  \E m \in T : \A k \in T : m <= k
<1> DEFINE F == {0 .. n : n \in T}
<1>1. F \subseteq FiniteSubsetsOf(Nat) /\ F # {}
  <2>1. \A n \in Nat : 0 .. n \in FiniteSubsetsOf(Nat)
    BY FS_Interval DEF FiniteSubsetsOf
  <2> QED
    BY <2>1
<1>2. IsWellFoundedOn(StrictSubsetOrdering(Nat), FiniteSubsetsOf(Nat))
  BY FS_StrictSubsetOrderingWellFounded
<1> HIDE DEF F
<1>3. PICK X \in F : \A Y \in F : <<Y, X>> \notin StrictSubsetOrdering(Nat)
  BY <1>1, <1>2, WFMin
<1>4. PICK m \in T : X = 0 .. m
  BY DEF F
<1>5. ASSUME NEW k \in T, k < m PROVE FALSE
  <2>1. 0 .. k \in F /\ 0 .. k \subseteq 0 .. m /\ m \notin 0 .. k /\ m \in 0 .. m
    BY <1>5 DEF F
  <2>2. 0 .. k # 0 .. m
    BY <2>1
  <2>3. <<0 .. k, 0 .. m>> \in (SUBSET Nat) \X (SUBSET Nat)
    OBVIOUS
  <2> QED
    BY <2>1, <2>2, <2>3, <1>3, <1>4 DEF StrictSubsetOrdering
<1> QED
  BY <1>5

\* What holds of 0, and of n + 1 if it does of n, holds of all.
LEMMA EveryNatural ==
  ASSUME NEW S, 0 \in S, \A n \in Nat : n \in S => n + 1 \in S
  PROVE  Nat \subseteq S
<1> DEFINE T == Nat \ S
<1>1. SUFFICES ASSUME T # {} PROVE FALSE
  OBVIOUS
<1>2. PICK m \in T : \A k \in T : m <= k
  BY <1>1, Least
<1>3. m - 1 \in Nat /\ m - 1 \notin T
  BY <1>2
<1> QED
  BY <1>2, <1>3
-----------------------------------------------------------------------------
(* What is provisioned.  r3 is mode, r4 follow, r10 pc, r13 made, r14 told, r15 followed,
   and r16 exit. *)

LEMMA ProvFinite == \A S : Prov!Cardinality(S) = Cardinality(S)
BY DEF Prov!Cardinality, Cardinality

\* One more of the batches exists, and they are still the first of them.
LEMMA ProvMore ==
  ASSUME Prov!MadeInv
  PROVE  /\ r13 \cup {Prov!Next1} = 1 .. Prov!Next1 /\ Prov!Next1 \in Nat
         /\ Prov!Cardinality(r13 \cup {Prov!Next1}) = Prov!Next1
<1>1. PICK n \in Nat : n = Prov!Cardinality(r13)
  BY DEF Prov!MadeInv
<1>2. r13 = 1 .. n /\ Prov!Next1 = n + 1
  BY <1>1 DEF Prov!MadeInv, Prov!Next1
<1>3. r13 \cup {n + 1} = 1 .. n + 1
  BY <1>2
<1>4. Prov!Cardinality(1 .. n + 1) = n + 1
  BY FS_Interval, ProvFinite
<1>5. n + 1 \in Nat
  OBVIOUS
<1> QED
  BY <1>2, <1>3, <1>4, <1>5, Zenon

LEMMA ProvStep ==
  ASSUME Prov!Parameters, Prov!IInv, [Prov!Next]_(Prov!vars)
  PROVE  Prov!IInv'
<1> USE DEF Prov!IInv, Prov!MadeInv, Prov!MadeIsTold, Prov!input, Prov!results, Prov!Unset,
        Prov!SUCCESS
<1>1. CASE Prov!Start \/ Prov!Rationalise \/ Prov!Name \/ Prov!Divide \/ Prov!Model
  BY <1>1 DEF Prov!Start, Prov!Rationalise, Prov!Name, Prov!Divide, Prov!Model
<1>2. CASE Prov!Provisioned
  BY <1>2, ProvMore DEF Prov!Provisioned, Prov!Sending
<1>3. CASE Prov!Sent \/ Prov!ModelFails
  BY <1>3 DEF Prov!Sent, Prov!Sending, Prov!ModelFails, Prov!Stops, Prov!FAILURE
<1>4. ASSUME NEW c \in ProvisionCodes, Prov!NameFails(c) \/ Prov!ProvisionFails(c)
      PROVE  Prov!IInv'
  BY <1>4 DEF Prov!NameFails, Prov!ProvisionFails, Prov!Stops, Prov!Sending, Prov!Parameters
<1>5. ASSUME NEW c \in ProvisionCodes, Prov!AnswerLost(c) PROVE Prov!IInv'
  <2>1. /\ r13' = r14 \cup {Prov!Next1} /\ r16' = c /\ c \notin {0, -1}
        /\ r10' = "done" /\ r3 = "run" /\ UNCHANGED <<r3, r14>>
    BY <1>5 DEF Prov!AnswerLost, Prov!Stops, Prov!Sending, Prov!Parameters
  <2>2. r13' = r13 \cup {Prov!Next1}
    BY <1>5 DEF Prov!AnswerLost
  <2>3. Prov!Cardinality(r13)' = Prov!Next1
    BY <2>2, ProvMore, Zenon
  <2> QED
    BY <2>1, <2>2, <2>3, ProvMore
<1>6. ASSUME NEW c \in ProvisionCodes \cup {0}, Prov!Follow(c) PROVE Prov!IInv'
  BY <1>6 DEF Prov!Follow, Prov!Parameters
<1>7. CASE UNCHANGED Prov!vars
  BY <1>7 DEF Prov!vars
<1> QED
  BY <1>1, <1>2, <1>3, <1>4, <1>5, <1>6, <1>7 DEF Prov!Next

LEMMA ProvBegins == Init => (chosen = "provision" => Prov!IInv)
<1>1. Prov!Cardinality({}) = 0 /\ {} = 1 .. 0
  BY FS_EmptySet, ProvFinite
<1>2. r13 = {} => Prov!Cardinality(r13) = 0 /\ r13 = 1 .. Prov!Cardinality(r13)
  BY <1>1, Zenon
<1>3. ASSUME Prov!Init PROVE Prov!IInv
  <2>1. r13 = {} /\ r14 = {} /\ r16 = -1 /\ r10 = "merge"
    BY <1>3 DEF Prov!Init, Prov!Unset
  <2>2. Prov!Cardinality(r13) = 0 /\ r13 = 1 .. Prov!Cardinality(r13)
    BY <1>2, <2>1, Zenon
  <2> QED
    BY <2>1, <2>2 DEF Prov!IInv, Prov!MadeInv, Prov!MadeIsTold, Prov!Unset, Prov!SUCCESS
<1> QED
  BY <1>3 DEF Init

LEMMA ProvGoesOn ==
  ASSUME Prov!Parameters
  PROVE  (chosen = "provision" => Prov!IInv) /\ [Next]_all => (chosen = "provision" => Prov!IInv)'
<1> SUFFICES ASSUME chosen = "provision" => Prov!IInv, [Next]_all, chosen' = "provision"
             PROVE  Prov!IInv'
  OBVIOUS
<1>1. chosen = "provision" /\ [Prov!Next]_(Prov!vars)
  BY DEF Next, OfLaz, OfMcp, OfWait, OfAdd, OfFollow, OfStream, OfWindow, OfAction, OfAbort, OfInputs,
     OfNode, OfProv, all, Prov!vars, Prov!input, Prov!results
<1> QED
  BY <1>1, ProvStep
-----------------------------------------------------------------------------
(* What is asked for and what is sent: r1 is command, r2 source, r5 config, r6 overridden,
   r7 spec, r8 option, r9 size, r11 asked and r12 batches. *)

\* A total is what adding one batch at a time comes to.
LEMMA TotalOf ==
  ASSUME NEW key, NEW n \in Nat, Len(r12) = n,
         NEW f \in [0 .. n -> Int], f[0] = 0,
         \A i \in 1 .. n : f[i] = f[i - 1] + r12[i][key]
  PROVE  Prov!Total(key) = f[n]
<1> DEFINE Adds(g) == g = [i \in 0 .. n |-> IF i = 0 THEN 0 ELSE g[i - 1] + r12[i][key]]
<1>1. Adds(f)
  <2>1. \A i \in 0 .. n : f[i] = IF i = 0 THEN 0 ELSE f[i - 1] + r12[i][key]
    OBVIOUS
  <2> QED
    BY <2>1
<1>2. ASSUME NEW g, Adds(g) PROVE g[n] = f[n]
  <2> DEFINE S == {i \in Nat : i <= n => g[i] = f[i]}
  <2>1. 0 \in S
    BY <1>2
  <2>2. \A i \in Nat : i \in S => i + 1 \in S
    <3> SUFFICES ASSUME NEW i \in Nat, i \in S, i + 1 <= n
                 PROVE  g[i + 1] = f[i + 1]
      OBVIOUS
    <3>1. i + 1 \in 1 .. n /\ (i + 1) - 1 = i /\ i <= n
      OBVIOUS
    <3>2. g[i + 1] = g[i] + r12[i + 1][key]
      BY <1>2, <3>1
    <3>3. f[i + 1] = f[i] + r12[i + 1][key]
      BY <3>1
    <3> QED
      BY <3>1, <3>2, <3>3
  <2>3. n \in S
    BY <2>1, <2>2, EveryNatural
  <2> QED
    BY <2>3
<1>3. Adds(CHOOSE g : Adds(g))
  BY <1>1
<1>4. Prov!Total(key) = (CHOOSE g : Adds(g))[n]
  BY DEF Prov!Total
<1> QED
  BY <1>2, <1>3, <1>4

\* The quotient and the remainder of a division.
LEMMA Divides ==
  ASSUME NEW x \in Int, NEW n \in Nat \ {0}
  PROVE  /\ x \div n \in Int /\ (x % n) \in 0 .. n - 1
         /\ x = (n * (x \div n)) + (x % n)
  BY Z3

\* The shares of x add up to x.
LEMMA SharesAddUp ==
  ASSUME NEW x \in Int, NEW n \in Nat \ {0}, NEW key, Len(r12) = n,
         \A k \in 1 .. n : r12[k][key] = Prov!Share(x, n, k)
  PROVE  Prov!Total(key) = x
<1> DEFINE q == x \div n
           r == x % n
           f == [m \in 0 .. n |-> (m * q) + (IF m <= r THEN m ELSE r)]
<1>1. q \in Int /\ r \in 0 .. n - 1 /\ x = (n * q) + r
  BY Divides
<1>2. \A k \in 1 .. n : r12[k][key] = q + (IF k <= r THEN 1 ELSE 0)
  BY DEF Prov!Share
<1> HIDE DEF q, r
<1>3. \A m \in Nat : m * q \in Int
  BY <1>1
<1>4. f \in [0 .. n -> Int] /\ f[0] = 0
  BY <1>1, <1>3
<1>5. ASSUME NEW i \in 1 .. n PROVE f[i] = f[i - 1] + r12[i][key]
  <2> DEFINE p == (i - 1) * q
             d == IF i - 1 <= r THEN i - 1 ELSE r
             e == IF i <= r THEN 1 ELSE 0
  <2>1. i * q = p + q /\ p \in Int
    BY <1>1
  <2>2. f[i - 1] = p + d
    OBVIOUS
  <2>3. f[i] = (i * q) + (d + e)
    <3>1. f[i] = (i * q) + (IF i <= r THEN i ELSE r)
      OBVIOUS
    <3>2. (IF i <= r THEN i ELSE r) = d + e
      BY <1>1
    <3> QED
      BY <3>1, <3>2
  <2>4. r12[i][key] = q + e
    BY <1>2
  <2>5. d \in Int /\ e \in Int
    BY <1>1
  <2> HIDE DEF p, d, e, f
  <2> QED
    BY <1>1, <2>1, <2>2, <2>3, <2>4, <2>5
<1>6. f[n] = x
  BY <1>1
<1> HIDE DEF f
<1>7. Prov!Total(key) = f[n]
  BY <1>4, <1>5, TotalOf
<1> QED
  BY <1>6, <1>7

\* The value that a count is merged to is that of the first place that gives one.
LEMMA MergedIsWanted ==
  ASSUME Prov!Parameters, Prov!InputInv, NEW key \in Prov!Keys
  PROVE  Prov!Merged(key) = Prov!Wanted(key)
<1> DEFINE given == IF key = "target" THEN r8 ELSE None
           set == IF key \in r6 THEN r5[key] ELSE None
           ranked == <<given, set, r7[key], r5[key]>>
           places == {i \in 1 .. 4 : ranked[i] # None}
           first == CHOOSE i \in places : \A j \in places : i <= j
<1>1. Prov!Wanted(key) = IF places = {} THEN None ELSE ranked[first]
  BY DEF Prov!Wanted
<1>2. key \in r6 => r5[key] # None
  BY DEF Prov!InputInv
<1>3. /\ Prov!Merged(key) = IF given # None THEN given
                             ELSE IF r5[key] # None /\ (r7[key] = None \/ key \in r6)
                             THEN r5[key] ELSE r7[key]
  BY DEF Prov!Merged
<1>4. /\ ranked[1] = given /\ ranked[2] = set /\ ranked[3] = r7[key] /\ ranked[4] = r5[key]
      /\ \A i \in 1 .. 4 : i \in places <=> ranked[i] # None
      /\ places \subseteq 1 .. 4
  OBVIOUS
<1> HIDE DEF given, ranked, places, first
<1>5. ASSUME NEW i \in places, \A j \in places : i <= j PROVE first = i
  <2>1. first \in places /\ \A j \in places : first <= j
    BY <1>5 DEF first
  <2> QED
    BY <1>4, <1>5, <2>1
<1>6. CASE given # None
  <2>1. 1 \in places /\ first = 1
    BY <1>4, <1>5, <1>6
  <2> QED
    BY <1>1, <1>3, <1>4, <1>6, <2>1
<1>7. CASE given = None /\ set # None
  <2>1. 2 \in places /\ 1 \notin places
    BY <1>4, <1>7
  <2>2. \A j \in 1 .. 4 : j # 1 => 2 <= j
    OBVIOUS
  <2>3. \A j \in places : 2 <= j
    BY <1>4, <2>1, <2>2
  <2>4. first = 2
    BY <1>5, <2>1, <2>3
  <2> QED
    BY <1>1, <1>2, <1>3, <1>4, <1>7, <2>1, <2>4
<1>8. CASE given = None /\ set = None /\ r7[key] # None
  <2>1. 3 \in places /\ 1 \notin places /\ 2 \notin places
    BY <1>4, <1>8
  <2>2. \A j \in 1 .. 4 : j # 1 /\ j # 2 => 3 <= j
    OBVIOUS
  <2>3. \A j \in places : 3 <= j
    BY <1>4, <2>1, <2>2
  <2>4. first = 3
    BY <1>5, <2>1, <2>3
  <2> QED
    BY <1>1, <1>2, <1>3, <1>4, <1>8, <2>1, <2>4
<1>9. CASE given = None /\ set = None /\ r7[key] = None /\ r5[key] # None
  <2>1. 4 \in places /\ 1 \notin places /\ 2 \notin places /\ 3 \notin places
    BY <1>4, <1>9
  <2>2. \A j \in 1 .. 4 : j # 1 /\ j # 2 /\ j # 3 => 4 <= j
    OBVIOUS
  <2>3. \A j \in places : 4 <= j
    BY <1>4, <2>1, <2>2
  <2>4. first = 4
    BY <1>5, <2>1, <2>3
  <2> QED
    BY <1>1, <1>3, <1>4, <1>9, <2>1, <2>4
<1>10. CASE given = None /\ set = None /\ r7[key] = None /\ r5[key] = None
  <2>1. places = {}
    BY <1>4, <1>10
  <2> QED
    BY <1>1, <1>3, <1>10, <2>1
<1> QED
  BY <1>6, <1>7, <1>8, <1>9, <1>10

\* The counts asked for are numbers or None, and numbers where a configuration alone
\* gives them.
LEMMA AskedCounts ==
  ASSUME Prov!Parameters, Prov!InputInv
  PROVE  /\ Prov!Asked \in Prov!Counts
         /\ r2 = "configuration" => \A k \in Prov!Keys : Prov!Asked[k] \in Int
<1> USE DEF Prov!Keys, Prov!Counts, Prov!Count
<1>1. r5 \in Prov!Counts /\ r8 \in Nat \cup {None} /\ r7 \in Prov!Counts /\ None \notin Int
  <2>1. [k \in Prov!Keys |-> None] \in Prov!Counts
    OBVIOUS
  <2> QED
    BY <2>1 DEF Prov!Parameters, Prov!InputInv
<1>2. CASE r2 = "configuration"
  <2>1. Prov!Asked = Prov!Loaded
    BY <1>2 DEF Prov!Asked
  <2>2. /\ Prov!Loaded \in Prov!Counts
        /\ \A k \in Prov!Keys : Prov!Loaded[k] \in Int
    BY <1>1 DEF Prov!Loaded
  <2> QED
    BY <2>1, <2>2
<1>3. CASE r2 # "configuration"
  <2>1. \A k \in Prov!Keys : Prov!Merged(k) \in Int \cup {None}
    BY <1>1 DEF Prov!Merged
  <2>2. Prov!Asked = [k \in Prov!Keys |-> Prov!Wanted(k)]
    BY <1>3 DEF Prov!Asked
  <2>3. \A k \in Prov!Keys : Prov!Wanted(k) \in Int \cup {None}
    BY <2>1, MergedIsWanted
  <2> QED
    BY <1>3, <2>2, <2>3
<1> QED
  BY <1>2, <1>3

\* Counts are made consistent by raising them, and those that are consistent are left.
LEMMA RationalisedCounts ==
  ASSUME None \notin Int, NEW c \in Prov!Counts
  PROVE  LET d == Prov!Rationalised(c) IN
         /\ d \in Prov!Counts /\ Prov!Consistent(d)
         /\ \A k \in Prov!Keys : c[k] \in Int => d[k] \in Int /\ d[k] >= c[k]
         /\ c.max \in Int /\ c.target \in Int => d.max >= 1
         /\ Prov!Consistent(c) /\ Prov!AtMost(1, c.max) => \A k \in Prov!Keys : d[k] = c[k]
<1> DEFINE min == IF c.min # None /\ c.min < 0 THEN 0 ELSE c.min
           target == IF c.target # None /\ min # None /\ c.target < min THEN min ELSE c.target
           most == IF c.max # None /\ c.max < 1 /\ (target = None \/ target <= 1) THEN 1 ELSE c.max
           max == IF target # None /\ most # None /\ target > most THEN target ELSE most
           d == Prov!Rationalised(c)
<1>1. d = [target |-> target, min |-> min, max |-> max]
  BY DEF Prov!Rationalised, Prov!Known
<1>2. /\ c.min \in Int \cup {None} /\ c.target \in Int \cup {None} /\ c.max \in Int \cup {None}
  BY DEF Prov!Counts, Prov!Count
<1>3. min \in Int \cup {None} /\ (min \in Int => min >= 0) /\ (c.min \in Int => min \in Int /\ min >= c.min)
  BY <1>2
<1>4. /\ target \in Int \cup {None}
      /\ c.target \in Int => target \in Int /\ target >= c.target
      /\ min \in Int /\ target \in Int => min <= target
  BY <1>2, <1>3
<1>5. /\ max \in Int \cup {None}
      /\ c.max \in Int => max \in Int /\ max >= c.max
      /\ target \in Int /\ max \in Int => target <= max /\ max >= 1
  BY <1>2, <1>4
<1>6. /\ d.min = min /\ d.target = target /\ d.max = max
      /\ d["min"] = min /\ d["target"] = target /\ d["max"] = max
  BY <1>1
<1>7. d \in Prov!Counts
  BY <1>1, <1>3, <1>4, <1>5 DEF Prov!Counts, Prov!Count
<1>8. Prov!Consistent(d)
  BY <1>3, <1>4, <1>5, <1>6 DEF Prov!Consistent, Prov!AtMost, Prov!Known
<1>9. Prov!Consistent(c) /\ Prov!AtMost(1, c.max) => min = c.min /\ target = c.target /\ max = c.max
  BY <1>2 DEF Prov!Consistent, Prov!AtMost, Prov!Known
<1> HIDE DEF d, min, target, max
<1>10. \A k \in Prov!Keys : c[k] \in Int => d[k] \in Int /\ d[k] >= c[k]
  BY <1>3, <1>4, <1>5, <1>6 DEF Prov!Keys
<1>11. c.max \in Int /\ c.target \in Int => d.max >= 1
  BY <1>4, <1>5, <1>6
<1>12. Prov!Consistent(c) /\ Prov!AtMost(1, c.max) => \A k \in Prov!Keys : d[k] = c[k]
  BY <1>6, <1>9 DEF Prov!Keys
<1> QED
  BY <1>7, <1>8, <1>10, <1>11, <1>12 DEF d

\* A product grows with its factors.
LEMMA Grows ==
  ASSUME NEW a \in Int, NEW b \in Int, NEW n \in Nat, a <= b
  PROVE  n * a <= n * b
  BY Z3

\* The share of more is no less.
LEMMA ShareGrows ==
  ASSUME NEW x \in Nat, NEW y \in Nat, x <= y, NEW n \in Nat \ {0}, NEW k \in 1 .. n
  PROVE  Prov!Share(x, n, k) \in Nat /\ Prov!Share(x, n, k) <= Prov!Share(y, n, k)
<1> DEFINE p == x \div n
           q == y \div n
           r == x % n
           s == y % n
<1>1. /\ p \in Int /\ r \in 0 .. n - 1 /\ x = (n * p) + r
      /\ q \in Int /\ s \in 0 .. n - 1 /\ y = (n * q) + s
  BY Divides
<1>2. /\ Prov!Share(x, n, k) = p + (IF k <= r THEN 1 ELSE 0)
      /\ Prov!Share(y, n, k) = q + (IF k <= s THEN 1 ELSE 0)
  BY DEF Prov!Share
<1> HIDE DEF p, q, r, s
<1>3. p >= 0
  <2>1. SUFFICES ASSUME p <= -1 PROVE FALSE
    BY <1>1
  <2>2. n * p <= n * (-1)
    BY <1>1, <2>1, Grows
  <2> QED
    BY <1>1, <2>2
<1>4. p <= q
  <2>1. SUFFICES ASSUME q + 1 <= p PROVE FALSE
    BY <1>1
  <2>2. n * (q + 1) <= n * p
    BY <1>1, <2>1, Grows
  <2>3. n * (q + 1) = (n * q) + n
    BY <1>1
  <2>4. n * q \in Int /\ n * p \in Int
    BY <1>1
  <2> QED
    BY <1>1, <2>2, <2>3, <2>4
<1>5. p = q => r <= s
  BY <1>1
<1> QED
  BY <1>1, <1>2, <1>3, <1>4, <1>5

\* As many batches as it takes: none is larger than the size.
LEMMA ShareWithin ==
  ASSUME NEW m \in Nat, NEW most \in Nat \ {0}, NEW n \in Nat \ {0}, n = Prov!CeilDiv(m, most),
         NEW k \in 1 .. n
  PROVE  Prov!Share(m, n, k) <= most
<1> DEFINE q == m \div n
           r == m % n
           d == (-m) \div most
           e == (-m) % most
<1>0. q \in Int /\ r \in 0 .. n - 1 /\ m = (n * q) + r
  <2>1. m \in Int
    OBVIOUS
  <2> QED
    BY <2>1, Divides
<1>00. d \in Int /\ e \in 0 .. most - 1 /\ -m = (most * d) + e
  <2>1. -m \in Int
    OBVIOUS
  <2> QED
    BY <2>1, Divides
<1>1. /\ q \in Int /\ r \in 0 .. n - 1 /\ m = (n * q) + r
      /\ d \in Int /\ e \in 0 .. most - 1 /\ -m = (most * d) + e
  BY <1>0, <1>00
<1>2. n = -d
  BY DEF Prov!CeilDiv
<1>3. Prov!Share(m, n, k) = q + (IF k <= r THEN 1 ELSE 0)
  BY DEF Prov!Share
<1> HIDE DEF q, r, d, e
<1>4. most * d = -(n * most)
  BY <1>1, <1>2
<1>5. n * most \in Int /\ n * q \in Int
  BY <1>1
<1>6. m <= n * most
  BY <1>1, <1>4, <1>5
<1>7. SUFFICES ASSUME Prov!Share(m, n, k) >= most + 1 PROVE FALSE
  BY <1>1, <1>3
<1>8. CASE q >= most + 1
  <2>1. n * (most + 1) <= n * q
    BY <1>1, <1>8, Grows
  <2>2. n * (most + 1) = (n * most) + n
    OBVIOUS
  <2> QED
    BY <1>1, <1>5, <1>6, <2>1, <2>2
<1>9. CASE q = most /\ k <= r
  BY <1>1, <1>5, <1>6, <1>9
<1> QED
  BY <1>1, <1>3, <1>7, <1>8, <1>9

\* As many batches as it takes, of a size: one at least of a number that is positive.
LEMMA CeilDivides ==
  ASSUME NEW m \in Int, NEW most \in Nat \ {0}
  PROVE  /\ Prov!CeilDiv(m, most) \in Int
         /\ Prov!CeilDiv(m, most) >= 1 <=> m >= 1
         /\ m = 0 => Prov!CeilDiv(m, most) = 0
<1> DEFINE d == (-m) \div most
           e == (-m) % most
<1>1. d \in Int /\ e \in 0 .. most - 1 /\ -m = (most * d) + e
  <2>1. -m \in Int
    OBVIOUS
  <2> QED
    BY <2>1, Divides
<1>2. Prov!CeilDiv(m, most) = -d
  BY DEF Prov!CeilDiv
<1> HIDE DEF d, e
<1>3. ASSUME d >= 0 PROVE m < 1
  <2>1. most * 0 <= most * d
    BY <1>1, <1>3, Grows
  <2>2. most * d \in Int
    BY <1>1
  <2> QED
    BY <1>1, <2>1, <2>2
<1>4. ASSUME d >= 1 PROVE m < 0
  <2>1. most * 1 <= most * d
    BY <1>1, <1>4, Grows
  <2>2. most * d \in Int /\ most * 1 = most
    BY <1>1
  <2> QED
    BY <1>1, <2>1, <2>2
<1>5. ASSUME d <= -1 PROVE m >= 1
  <2>1. most * d <= most * (-1)
    BY <1>1, <1>5, Grows
  <2>2. most * d \in Int
    BY <1>1
  <2> QED
    BY <1>1, <2>1, <2>2
<1> QED
  BY <1>1, <1>2, <1>3, <1>4, <1>5

\* The counts that are divided: consistent, and numbers where a configuration gives them,
\* of which a Worker Pool's largest is positive.
LEMMA CountedCounts ==
  ASSUME Prov!Parameters, Prov!InputInv
  PROVE  /\ Prov!Counted \in Prov!Counts
         /\ r1 = "provision" => Prov!Consistent(Prov!Counted)
         /\ r2 = "configuration" =>
              /\ \A k \in Prov!Keys : Prov!Counted[k] \in Int
              /\ r1 = "provision" => Prov!Counted.max >= 1
<1>1. None \notin Int
  BY DEF Prov!Parameters
<1>2. /\ Prov!Asked \in Prov!Counts
      /\ r2 = "configuration" => \A k \in Prov!Keys : Prov!Asked[k] \in Int
  BY AskedCounts
<1>3. CASE r1 = "provision"
  <2>1. Prov!Counted = Prov!Rationalised(Prov!Asked)
    BY <1>3 DEF Prov!Counted
  <2>2. /\ Prov!Counted \in Prov!Counts /\ Prov!Consistent(Prov!Counted)
        /\ \A k \in Prov!Keys : Prov!Asked[k] \in Int => Prov!Counted[k] \in Int
        /\ Prov!Asked.max \in Int /\ Prov!Asked.target \in Int => Prov!Counted.max >= 1
    BY <1>1, <1>2, <2>1, RationalisedCounts
  <2>3. r2 = "configuration" => Prov!Asked["max"] \in Int /\ Prov!Asked["target"] \in Int
    BY <1>2 DEF Prov!Keys
  <2> QED
    BY <1>2, <2>2, <2>3
<1>4. CASE r1 # "provision"
  <2>1. Prov!Counted = Prov!Asked
    BY <1>4 DEF Prov!Counted
  <2> QED
    BY <1>2, <1>4, <2>1
<1> QED
  BY <1>3, <1>4

\* How what a configuration asks for is divided: it is shared out, by a number of batches
\* that leaves none larger than the size.
LEMMA Divisions ==
  ASSUME Prov!Parameters, Prov!InputInv, r2 = "configuration", NEW n,
         n = Prov!CeilDiv(IF r1 = "provision" THEN Prov!Counted.max ELSE Prov!Counted.target, r9)
  PROVE  /\ n \in Int
         /\ r1 = "provision" =>
              /\ n >= 1
              /\ Prov!Divided = [k \in 1 .. n |->
                                   [key \in Prov!Keys |-> Prov!Share(Prov!Counted[key], n, k)]]
         /\ r1 = "instantiate" =>
              /\ n >= 1 <=> Prov!Counted.target >= 1
              /\ n = 0 => Prov!Divided = <<Prov!Instances(0)>>
              /\ n # 0 => Prov!Divided = [k \in 1 .. n |->
                                   Prov!Instances(Prov!Share(Prov!Counted.target, n, k))]
<1>1. r9 \in Nat \ {0}
  BY DEF Prov!Parameters, Prov!InputInv
<1>2. /\ Prov!Counted["max"] \in Int /\ Prov!Counted["target"] \in Int
      /\ r1 = "provision" => Prov!Counted.max >= 1
  BY CountedCounts DEF Prov!Keys
<1>3. /\ Prov!CeilDiv(Prov!Counted.max, r9) \in Int
      /\ Prov!CeilDiv(Prov!Counted.max, r9) >= 1 <=> Prov!Counted.max >= 1
  BY <1>1, <1>2, CeilDivides
<1>4. /\ Prov!CeilDiv(Prov!Counted.target, r9) \in Int
      /\ Prov!CeilDiv(Prov!Counted.target, r9) >= 1 <=> Prov!Counted.target >= 1
  BY <1>1, <1>2, CeilDivides
<1>5. r1 = "provision" => Prov!Divided = Prov!NodeBatches(Prov!Counted)
  BY DEF Prov!Divided
<1>6. r1 = "instantiate" => Prov!Divided = Prov!InstanceBatches(Prov!Counted)
  BY DEF Prov!Divided
<1>7. CASE r1 = "provision"
  <2>1. n = Prov!CeilDiv(Prov!Counted.max, r9)
    BY <1>7
  <2>2. Prov!NodeBatches(Prov!Counted)
          = [k \in 1 .. n |-> [key \in Prov!Keys |-> Prov!Share(Prov!Counted[key], n, k)]]
    BY <2>1 DEF Prov!NodeBatches
  <2> QED
    BY <1>2, <1>3, <1>5, <1>7, <2>1, <2>2
<1>8. CASE r1 = "instantiate"
  <2>1. n = Prov!CeilDiv(Prov!Counted.target, r9)
    BY <1>8
  <2>2. Prov!InstanceBatches(Prov!Counted)
          = IF n = 0 THEN <<Prov!Instances(0)>>
            ELSE [k \in 1 .. n |-> Prov!Instances(Prov!Share(Prov!Counted.target, n, k))]
    BY <2>1 DEF Prov!InstanceBatches
  <2> QED
    BY <1>4, <1>6, <1>8, <2>1, <2>2
<1>9. r1 \in {"provision", "instantiate"}
  BY DEF Prov!InputInv
<1> QED
  BY <1>7, <1>8, <1>9

\* Each batch is consistent in itself and, of a configuration, no larger than the size.
LEMMA EachBatchWithin ==
  ASSUME Prov!Parameters, Prov!InputInv, NEW k \in DOMAIN Prov!Divided
  PROVE  /\ Prov!Consistent(Prov!Divided[k])
         /\ r2 = "configuration" =>
              /\ Prov!AtMost(Prov!Divided[k].target, r9)
              /\ Prov!AtMost(Prov!Divided[k].max, r9)
<1> DEFINE c == Prov!Counted
           b == Prov!Divided[k]
           n == Prov!CeilDiv(IF r1 = "provision" THEN c.max ELSE c.target, r9)
<1>1. r9 \in Nat \ {0} /\ None \notin Int
  BY DEF Prov!Parameters, Prov!InputInv
<1>2. /\ c \in Prov!Counts
      /\ r1 = "provision" => Prov!Consistent(c)
      /\ r2 = "configuration" =>
           /\ \A key \in Prov!Keys : c[key] \in Int
           /\ r1 = "provision" => c.max >= 1
  BY CountedCounts
<1>3. /\ r1 \in {"provision", "instantiate"}
      /\ r2 \in {"configuration", "specification"}
  BY DEF Prov!InputInv
<1> HIDE DEF c
<1>4. CASE r2 = "specification"
  <2>1. Prov!Divided = <<IF r1 = "provision" THEN c ELSE [c EXCEPT !.min = None, !.max = None]>>
    BY <1>4 DEF Prov!Divided, c
  <2>2. b = IF r1 = "provision" THEN c ELSE [c EXCEPT !.min = None, !.max = None]
    BY <2>1
  <2>3. r1 # "provision" => b.min = None /\ b.max = None
    BY <1>2, <2>2 DEF Prov!Counts
  <2>4. r1 # "provision" => Prov!Consistent(b)
    BY <2>3 DEF Prov!Consistent, Prov!AtMost, Prov!Known
  <2> QED
    BY <1>2, <1>4, <2>2, <2>4
<1>5. CASE r2 = "configuration" /\ r1 = "provision"
  <2>1. /\ n \in Nat \ {0}
        /\ Prov!Divided = [i \in 1 .. n |-> [key \in Prov!Keys |-> Prov!Share(c[key], n, i)]]
    BY <1>5, Divisions DEF c
  <2> DEFINE s(x) == Prov!Share(x, n, k)
  <2>2. k \in 1 .. n /\ b = [key \in Prov!Keys |-> s(c[key])]
    BY <2>1
  <2>3. b.min = s(c.min) /\ b.target = s(c.target) /\ b.max = s(c.max)
    BY <2>2 DEF Prov!Keys
  <2>4. c["min"] \in Int /\ c["target"] \in Int /\ c["max"] \in Int
    BY <1>2, <1>5 DEF Prov!Keys
  <2>5. c.min \in Nat /\ c.target \in Nat /\ c.max \in Nat /\ c.min <= c.target /\ c.target <= c.max
    BY <1>1, <1>2, <1>5, <2>4 DEF Prov!Consistent, Prov!AtMost, Prov!Known
  <2>6. n = Prov!CeilDiv(c.max, r9)
    BY <1>5
  <2> HIDE DEF n
  <2>7. s(c.min) \in Nat /\ s(c.min) <= s(c.target)
    BY <2>1, <2>2, <2>5, ShareGrows
  <2>8. s(c.target) \in Nat /\ s(c.target) <= s(c.max)
    BY <2>1, <2>2, <2>5, ShareGrows
  <2>9. s(c.max) \in Nat
    <3>1. c.max <= c.max
      BY <2>5
    <3> QED
      BY <2>1, <2>2, <2>5, <3>1, ShareGrows
  <2>10. s(c.max) <= r9
    BY <1>1, <2>1, <2>2, <2>5, <2>6, ShareWithin
  <2> HIDE DEF s, b
  <2>11. Prov!Consistent(b)
    BY <2>3, <2>7, <2>8, <2>9 DEF Prov!Consistent, Prov!AtMost, Prov!Known
  <2>12. Prov!AtMost(b.target, r9) /\ Prov!AtMost(b.max, r9)
    BY <1>1, <2>3, <2>8, <2>9, <2>10 DEF Prov!AtMost, Prov!Known
  <2> QED
    BY <2>11, <2>12 DEF b
<1>6. CASE r2 = "configuration" /\ r1 = "instantiate"
  <2>1. /\ n \in Int /\ (n >= 1 <=> c.target >= 1)
        /\ n = 0 => Prov!Divided = <<Prov!Instances(0)>>
        /\ n # 0 => Prov!Divided = [i \in 1 .. n |-> Prov!Instances(Prov!Share(c.target, n, i))]
    BY <1>6, Divisions DEF c
  <2>2. n = Prov!CeilDiv(c.target, r9)
    BY <1>6
  <2>3. c["target"] \in Int
    BY <1>2, <1>6 DEF Prov!Keys
  <2> HIDE DEF n
  <2>4. PICK x \in Int : b = Prov!Instances(x) /\ x <= r9
    <3>1. CASE n = 0
      BY <1>1, <2>1, <3>1
    <3>2. CASE n # 0
      <4>1. k \in 1 .. n /\ b = Prov!Instances(Prov!Share(c.target, n, k))
        BY <2>1, <3>2
      <4>2. n \in Nat \ {0} /\ c.target \in Nat
        BY <2>1, <2>3, <4>1
      <4>3. Prov!Share(c.target, n, k) \in Nat
        BY <4>1, <4>2, ShareGrows
      <4>4. Prov!Share(c.target, n, k) <= r9
        BY <1>1, <2>2, <4>1, <4>2, ShareWithin
      <4> QED
        BY <4>1, <4>3, <4>4
    <3> QED
      BY <3>1, <3>2
  <2>5. b.target = x /\ b.min = None /\ b.max = None
    BY <2>4 DEF Prov!Instances
  <2> QED
    BY <2>4, <2>5 DEF Prov!Consistent, Prov!AtMost, Prov!Known
<1> QED
  BY <1>3, <1>4, <1>5, <1>6

\* Of one batch, the total is its own count.
LEMMA TotalOfOne ==
  ASSUME NEW b, r12 = <<b>>, NEW key, b[key] \in Int
  PROVE  Prov!Total(key) = b[key]
<1> DEFINE f == [i \in 0 .. 1 |-> IF i = 0 THEN 0 ELSE b[key]]
<1>1. f \in [0 .. 1 -> Int] /\ f[0] = 0 /\ f[1] = b[key]
  OBVIOUS
<1>2. \A i \in 1 .. 1 : f[i] = f[i - 1] + r12[i][key]
  OBVIOUS
<1>3. Len(r12) = 1
  OBVIOUS
<1> HIDE DEF f
<1>4. Prov!Total(key) = f[1]
  BY <1>1, <1>2, <1>3, TotalOf
<1> QED
  BY <1>1, <1>4

\* What the batches come to is what was counted.
LEMMA BatchesAddUp ==
  ASSUME Prov!Parameters, Prov!InputInv, r12 = Prov!Divided,
         NEW key \in IF r1 = "provision" THEN Prov!Keys ELSE {"target"},
         Prov!Counted[key] \in Nat
  PROVE  Prov!Total(key) = Prov!Counted[key]
<1> DEFINE c == Prov!Counted
           n == Prov!CeilDiv(IF r1 = "provision" THEN c.max ELSE c.target, r9)
<1>1. /\ r1 \in {"provision", "instantiate"}
      /\ r2 \in {"configuration", "specification"}
      /\ c \in Prov!Counts
  BY CountedCounts DEF Prov!InputInv
<1> HIDE DEF c
<1>2. CASE r2 = "specification"
  <2> DEFINE b == IF r1 = "provision" THEN c ELSE [c EXCEPT !.min = None, !.max = None]
  <2>1. r12 = <<b>>
    BY <1>2 DEF Prov!Divided, c
  <2>2. b[key] = c[key]
    BY <1>1 DEF Prov!Counts
  <2> HIDE DEF b
  <2> QED
    BY <2>1, <2>2, TotalOfOne DEF c
<1>3. CASE r2 = "configuration" /\ r1 = "provision"
  <2>1. /\ n \in Nat \ {0}
        /\ r12 = [i \in 1 .. n |-> [k \in Prov!Keys |-> Prov!Share(c[k], n, i)]]
    BY <1>3, Divisions DEF c
  <2>2. key \in Prov!Keys
    BY <1>3
  <2> HIDE DEF n
  <2>3. Len(r12) = n /\ \A i \in 1 .. n : r12[i][key] = Prov!Share(c[key], n, i)
    BY <2>1, <2>2
  <2>4. c[key] \in Int
    BY DEF c
  <2> QED
    BY <2>1, <2>3, <2>4, SharesAddUp DEF c
<1>4. CASE r2 = "configuration" /\ r1 = "instantiate"
  <2>1. /\ n \in Int /\ (n >= 1 <=> c.target >= 1)
        /\ n = 0 => r12 = <<Prov!Instances(0)>>
        /\ n # 0 => r12 = [i \in 1 .. n |-> Prov!Instances(Prov!Share(c.target, n, i))]
    BY <1>4, Divisions DEF c
  <2>2. key = "target" /\ c[key] = c.target /\ c.target \in Nat
    BY <1>4 DEF c
  <2>0. c.target = 0 => n = 0
    <3>1. n = Prov!CeilDiv(c.target, r9)
      BY <1>4
    <3>2. r9 \in Nat \ {0}
      BY DEF Prov!Parameters, Prov!InputInv
    <3> QED
      BY <3>1, <3>2, CeilDivides
  <2> HIDE DEF n
  <2>3. CASE n = 0
    <3>1. Prov!Instances(0)[key] = 0
      BY <2>2 DEF Prov!Instances
    <3>2. c.target = 0
      BY <2>1, <2>2, <2>3
    <3> QED
      BY <2>1, <2>2, <2>3, <3>1, <3>2, TotalOfOne DEF c
  <2>4. CASE n # 0
    <3>1. n \in Nat \ {0}
      BY <2>0, <2>1, <2>2, <2>4
    <3>2. \A x : Prov!Instances(x)[key] = x
      BY <2>2 DEF Prov!Instances
    <3>3. Len(r12) = n /\ \A i \in 1 .. n : r12[i][key] = Prov!Share(c[key], n, i)
      BY <2>1, <2>2, <2>4, <3>1, <3>2
    <3>4. c[key] \in Int
      BY <2>2
    <3> QED
      BY <3>1, <3>3, <3>4, SharesAddUp DEF c
  <2> QED
    BY <2>3, <2>4
<1> QED
  BY <1>1, <1>2, <1>3, <1>4

\* The batches are numbered from 1.
LEMMA DividedNumbered ==
  ASSUME Prov!Parameters, Prov!InputInv
  PROVE  \E m \in Nat : DOMAIN Prov!Divided = 1 .. m
<1>1. /\ r1 \in {"provision", "instantiate"}
      /\ r2 \in {"configuration", "specification"}
  BY DEF Prov!InputInv
<1>2. CASE r2 = "specification"
  <2>1. DOMAIN Prov!Divided = 1 .. 1
    BY <1>2 DEF Prov!Divided
  <2> QED
    BY <2>1
<1>3. CASE r2 = "configuration"
  <2>1. PICK n \in Int : DOMAIN Prov!Divided = 1 .. n \/ DOMAIN Prov!Divided = 1 .. 1
    <3> DEFINE n == Prov!CeilDiv(IF r1 = "provision" THEN Prov!Counted.max
                                 ELSE Prov!Counted.target, r9)
    <3>1. /\ n \in Int
          /\ r1 = "provision" => DOMAIN Prov!Divided = 1 .. n
          /\ r1 = "instantiate" => DOMAIN Prov!Divided = 1 .. n \/ DOMAIN Prov!Divided = 1 .. 1
      BY <1>3, Divisions
    <3> HIDE DEF n
    <3> QED
      BY <1>1, <3>1
  <2>2. n < 0 => 1 .. n = 1 .. 0
    OBVIOUS
  <2>3. CASE n < 0
    <3>1. DOMAIN Prov!Divided = 1 .. 0 \/ DOMAIN Prov!Divided = 1 .. 1
      BY <2>1, <2>2, <2>3, Zenon
    <3> QED
      BY <3>1
  <2>4. CASE n >= 0
    <3>1. n \in Nat
      BY <2>4
    <3> QED
      BY <2>1, <3>1
  <2> QED
    BY <2>3, <2>4
<1> QED
  BY <1>1, <1>2, <1>3

\* While the command line, the configuration and the specification stay, so does what is
\* asked for and what it is divided into.
LEMMA DividedStays ==
  ASSUME UNCHANGED Prov!input
  PROVE  /\ Prov!Asked' = Prov!Asked /\ Prov!Counted' = Prov!Counted
         /\ Prov!Divided' = Prov!Divided /\ (Prov!InputInv => Prov!InputInv')
<1> USE DEF Prov!input
<1>1. Prov!Loaded' = Prov!Loaded
  BY DEF Prov!Loaded
<1>2. \A key : Prov!Wanted(key)' = Prov!Wanted(key)
  BY DEF Prov!Wanted
<1>3. Prov!Asked' = Prov!Asked
  BY <1>1, <1>2 DEF Prov!Asked
<1>4. Prov!Counted' = Prov!Counted
  BY <1>3 DEF Prov!Counted
<1>5. Prov!NodeBatches(Prov!Counted)' = Prov!NodeBatches(Prov!Counted)
  BY <1>4 DEF Prov!NodeBatches
<1>6. Prov!InstanceBatches(Prov!Counted)' = Prov!InstanceBatches(Prov!Counted)
  BY <1>4 DEF Prov!InstanceBatches
<1>7. Prov!Divided' = Prov!Divided
  BY <1>4, <1>5, <1>6 DEF Prov!Divided
<1> QED
  BY <1>3, <1>4, <1>7 DEF Prov!InputInv

\* Each step takes the counts as far as it should, and sends what they are divided into.
LEMMA SentStep ==
  ASSUME Prov!Parameters, Prov!IInv, Prov!SentInv, [Prov!Next]_(Prov!vars)
  PROVE  Prov!SentInv'
<1>1. UNCHANGED Prov!input
  BY DEF Prov!vars, Prov!Next, Prov!Start, Prov!Rationalise, Prov!Name, Prov!Divide, Prov!Model,
     Prov!Provisioned, Prov!Sent, Prov!ModelFails, Prov!NameFails, Prov!ProvisionFails,
     Prov!AnswerLost, Prov!Follow
<1>2. /\ Prov!Asked' = Prov!Asked /\ Prov!Counted' = Prov!Counted
      /\ Prov!Divided' = Prov!Divided /\ Prov!InputInv'
      /\ r1' = r1 /\ r2' = r2 /\ r3' = r3
  BY <1>1, DividedStays DEF Prov!SentInv, Prov!input
<1>3. SUFFICES Prov!DividedInv'
  BY <1>2 DEF Prov!SentInv
<1>4. /\ r1 \in {"provision", "instantiate"}
      /\ r2 \in {"configuration", "specification"}
      /\ Prov!DividedInv /\ Prov!MadeInv /\ Prov!InputInv
  BY DEF Prov!SentInv, Prov!IInv, Prov!InputInv
<1>5. /\ r1 = "provision" => Prov!Counted = Prov!Rationalised(Prov!Asked)
      /\ r1 # "provision" => Prov!Counted = Prov!Asked
  BY DEF Prov!Counted
<1>6. CASE Prov!Start
  <2>1. r2 = "specification" => r11' = Prov!Asked
    <3>1. \A key \in Prov!Keys : Prov!Merged(key) = Prov!Wanted(key)
      BY <1>4, MergedIsWanted
    <3> QED
      BY <1>6, <3>1 DEF Prov!Start, Prov!Asked
  <2>2. r2 = "configuration" => r11' = Prov!Asked
    BY <1>6 DEF Prov!Start, Prov!Asked
  <2> QED
    BY <1>2, <1>4, <1>5, <1>6, <2>1, <2>2
    DEF Prov!Start, Prov!DividedInv, Prov!MadeInv, Prov!results, Prov!Unset, Prov!SUCCESS
<1>7. CASE Prov!Rationalise
  BY <1>2, <1>4, <1>5, <1>7
  DEF Prov!Rationalise, Prov!DividedInv, Prov!MadeInv, Prov!results, Prov!Unset, Prov!SUCCESS
<1>8. CASE Prov!Name
  BY <1>2, <1>4, <1>5, <1>8
  DEF Prov!Name, Prov!DividedInv, Prov!MadeInv, Prov!results, Prov!Unset, Prov!SUCCESS
<1>9. CASE Prov!Divide \/ Prov!Model
  <2>1. r12' = Prov!Divided /\ r13' = {} /\ r16' = -1 /\ r10' = IF r3 = "run" THEN "send" ELSE "follow"
    BY <1>4, <1>9 DEF Prov!Divide, Prov!Model, Prov!Divided, Prov!DividedInv, Prov!MadeInv,
       Prov!results, Prov!Unset
  <2> QED
    BY <1>2, <2>1 DEF Prov!DividedInv, Prov!SUCCESS
<1>10. CASE Prov!Provisioned \/ (\E code \in ProvisionCodes : Prov!AnswerLost(code))
  <2>1. /\ r10 = "send" /\ Prov!Next1 \in DOMAIN r12 /\ r13' = r13 \cup {Prov!Next1}
        /\ r12' = r12 /\ ((r10' = "send" /\ r16' = -1) \/ (r10' = "done" /\ r16' # 0))
    BY <1>10 DEF Prov!Provisioned, Prov!AnswerLost, Prov!Sending, Prov!Stops, Prov!Parameters,
       Prov!Unset
  <2> QED
    BY <1>2, <1>4, <2>1 DEF Prov!DividedInv, Prov!SUCCESS
<1>11. CASE Prov!Sent
  <2>1. /\ r10 = "send" /\ Prov!Next1 \notin DOMAIN r12 /\ r10' = "follow" /\ r16' = -1
        /\ UNCHANGED <<r11, r12, r13>>
    BY <1>11 DEF Prov!Sent, Prov!Sending, Prov!results, Prov!Unset
  <2>2. PICK m \in Nat : DOMAIN r12 = 1 .. m
    BY <1>4, <2>1, DividedNumbered DEF Prov!DividedInv
  <2>3. PICK n \in Nat : r13 = 1 .. n /\ Prov!Next1 = n + 1
    BY <1>4 DEF Prov!MadeInv, Prov!Next1
  <2>4. r13 \subseteq DOMAIN r12
    BY <1>4 DEF Prov!DividedInv
  <2>5. n <= m
    <3>1. n # 0 => n \in 1 .. m
      BY <2>2, <2>3, <2>4
    <3> QED
      BY <3>1
  <2>6. n = m
    BY <2>1, <2>2, <2>3, <2>5
  <2>7. r13 = DOMAIN r12
    BY <2>2, <2>3, <2>6
  <2> QED
    BY <1>2, <1>4, <2>1, <2>7 DEF Prov!DividedInv, Prov!SUCCESS
<1>12. CASE \/ Prov!ModelFails
            \/ \E code \in ProvisionCodes : Prov!NameFails(code) \/ Prov!ProvisionFails(code)
  <2>1. /\ UNCHANGED <<r12, r13>> /\ r10' = "done" /\ r16' # 0
    BY <1>12 DEF Prov!ModelFails, Prov!NameFails, Prov!ProvisionFails, Prov!Stops, Prov!FAILURE,
       Prov!Parameters
  <2>2. r13 # {} => r12 = Prov!Divided
    BY <1>4 DEF Prov!DividedInv
  <2> QED
    BY <1>2, <1>4, <2>1, <2>2 DEF Prov!DividedInv, Prov!SUCCESS
<1>13. CASE \E code \in ProvisionCodes \cup {0} : Prov!Follow(code)
  <2>1. UNCHANGED <<r12, r13>> /\ r10 = "follow" /\ r10' = "done"
    BY <1>13 DEF Prov!Follow
  <2> QED
    BY <1>2, <1>4, <2>1 DEF Prov!DividedInv
<1>14. CASE UNCHANGED Prov!vars
  BY <1>2, <1>4, <1>14 DEF Prov!vars, Prov!results, Prov!DividedInv
<1> QED
  BY <1>6, <1>7, <1>8, <1>9, <1>10, <1>11, <1>12, <1>13, <1>14 DEF Prov!Next, Prov!SUCCESS

\* A run begins with nothing asked for and nothing sent.
LEMMA SentBegins ==
  ASSUME Prov!Parameters
  PROVE  Init => (chosen = "provision" => Prov!SentInv)
<1>1. ASSUME Prov!Init PROVE Prov!InputInv
  BY <1>1 DEF Prov!Init, Prov!InputInv
<1>2. ASSUME Prov!Init PROVE Prov!DividedInv
  <2>1. r10 = "merge" /\ r13 = {} /\ r16 = -1
    BY <1>2 DEF Prov!Init, Prov!Unset
  <2> QED
    BY <2>1 DEF Prov!DividedInv, Prov!SUCCESS
<1> QED
  BY <1>1, <1>2 DEF Init, Prov!SentInv

\* A run that succeeds has sent what its counts are divided into, which comes to what was
\* asked for, or to more where that was not consistent.
LEMMA SentImplies ==
  ASSUME Prov!Parameters, Prov!IInv, Prov!SentInv
  PROVE  Prov!ProvisionedAsAsked
<1>1. Prov!InputInv /\ Prov!DividedInv /\ None \notin Int
  BY DEF Prov!SentInv, Prov!Parameters
<1>2. ASSUME r16 = 0, r3 = "run" PROVE r13 = DOMAIN r12 /\ r12 = Prov!Divided
  BY <1>1, <1>2 DEF Prov!DividedInv, Prov!SUCCESS
<1>3. ASSUME r16 = 0, r3 = "run",
             NEW k \in IF r1 = "provision" THEN Prov!Keys ELSE {"target"},
             Prov!Known(Prov!Asked[k]), Prov!Asked[k] >= 0
      PROVE  IF r1 = "instantiate" \/ (Prov!Consistent(Prov!Asked) /\ Prov!AtMost(1, Prov!Asked.max))
             THEN Prov!Total(k) = Prov!Asked[k] ELSE Prov!Total(k) >= Prov!Asked[k]
  <2>1. k \in Prov!Keys /\ Prov!Asked \in Prov!Counts
    BY <1>1, AskedCounts DEF Prov!Keys
  <2>2. Prov!Asked[k] \in Nat
    <3>1. Prov!Asked[k] \in Int \cup {None}
      BY <2>1 DEF Prov!Counts, Prov!Count, Prov!Keys
    <3> QED
      BY <1>3, <3>1 DEF Prov!Known
  <2>3. CASE r1 = "provision"
    <3>1. Prov!Counted = Prov!Rationalised(Prov!Asked)
      BY <2>3 DEF Prov!Counted
    <3>2. /\ Prov!Counted[k] \in Int /\ Prov!Counted[k] >= Prov!Asked[k]
          /\ Prov!Consistent(Prov!Asked) /\ Prov!AtMost(1, Prov!Asked.max)
               => Prov!Counted[k] = Prov!Asked[k]
      BY <1>1, <2>1, <2>2, <3>1, RationalisedCounts
    <3>3. Prov!Counted[k] \in Nat
      BY <2>2, <3>2
    <3>4. Prov!Total(k) = Prov!Counted[k]
      BY <1>1, <1>2, <1>3, <3>3, BatchesAddUp
    <3> QED
      BY <2>3, <3>2, <3>4
  <2>4. CASE r1 = "instantiate"
    <3>1. Prov!Counted = Prov!Asked
      BY <2>4 DEF Prov!Counted
    <3>2. Prov!Total(k) = Prov!Counted[k]
      BY <1>1, <1>2, <1>3, <2>2, <3>1, BatchesAddUp
    <3> QED
      BY <2>4, <3>1, <3>2
  <2> QED
    BY <1>1, <2>3, <2>4 DEF Prov!InputInv
<1>4. ASSUME NEW k \in r13
      PROVE  /\ Prov!Consistent(r12[k])
             /\ r2 = "configuration" =>
                  Prov!AtMost(r12[k].target, r9) /\ Prov!AtMost(r12[k].max, r9)
  <2>1. r12 = Prov!Divided /\ k \in DOMAIN Prov!Divided
    BY <1>1, <1>4 DEF Prov!DividedInv
  <2> QED
    BY <1>1, <2>1, EachBatchWithin
<1> QED
  BY <1>2, <1>3, <1>4 DEF Prov!ProvisionedAsAsked, Prov!SUCCESS

\* A run of 'yd provision' or 'yd instantiate' that succeeds has provisioned, whatever was
\* configured and however large the batches, the counts asked for, or no fewer if those were
\* not consistent; and each batch that exists is consistent and within the batch size.
THEOREM ProvisionedWhole ==
  ASSUME Prov!Parameters
  PROVE  Spec => []ProvisionedAsAsked
<1> DEFINE I == chosen = "provision" => Prov!IInv /\ Prov!SentInv
<1>1. Init => I
  BY ProvBegins, SentBegins
<1>2. I /\ [Next]_all => I'
  <2> SUFFICES ASSUME I, [Next]_all, chosen' = "provision" PROVE (Prov!IInv /\ Prov!SentInv)'
    OBVIOUS
  <2>1. chosen = "provision" /\ [Prov!Next]_(Prov!vars)
    BY DEF Next, OfLaz, OfMcp, OfWait, OfAdd, OfFollow, OfStream, OfWindow, OfAction, OfAbort, OfInputs,
       OfNode, OfProv, all, Prov!vars, Prov!input, Prov!results
  <2> QED
    BY <2>1, ProvStep, SentStep
<1>3. I => ProvisionedAsAsked
  BY SentImplies DEF ProvisionedAsAsked
<1> QED
  BY <1>1, <1>2, <1>3, PTL DEF Spec
-----------------------------------------------------------------------------
(* What is recorded, and what the exit code tells. *)

\* Each target of an action, each Task to abort, each Node to act on and each batch that
\* was provisioned has the one record that says what became of it.
THEOREM RecordedOnce ==
  ASSUME Action!Parameters, Abort!Parameters, Node!Parameters, Prov!Parameters
  PROVE  Spec => []EachRecordedOnce
<1> DEFINE I == /\ chosen = "action" => Action!ExitInv
                /\ chosen = "abort" => Abort!IInv
                /\ chosen = "nodeaction" => Node!IInv
                /\ chosen = "provision" => Prov!IInv
<1>1. Init => I
  BY ActionBegins, AbortBegins, NodeBegins, ProvBegins
<1>2. I /\ [Next]_all => I'
  BY ActionGoesOn, AbortGoesOn, NodeGoesOn, ProvGoesOn
<1>3. I => EachRecordedOnce
  BY Action!OnceImplies, Abort!ToldImplies, NodeTold DEF EachRecordedOnce, Action!ExitInv,
     Prov!IInv
<1> QED
  BY <1>1, <1>2, <1>3, PTL DEF Spec

\* A Task is aborted once at most, and one that is left out is not.
THEOREM AbortedOnce ==
  ASSUME Abort!Parameters
  PROVE  Spec => []AttemptedOnce
<1>1. (chosen = "abort" => Abort!IInv) => AttemptedOnce
  BY Abort!AttemptedImplies DEF AttemptedOnce
<1> QED
  BY <1>1, AbortBegins, AbortGoesOn, PTL DEF Spec

\* The exit code of a following, and that of an action, tells the cause of what failed.
THEOREM CauseTold ==
  ASSUME Follow!Parameters, Action!Parameters
  PROVE  Spec => []ExitTellsCause
<1> DEFINE I == (chosen = "follow" => Follow!IInv) /\ (chosen = "action" => Action!ExitInv)
<1>1. Init => I
  BY FollowBegins, ActionBegins
<1>2. I /\ [Next]_all => I'
  BY FollowGoesOn, ActionGoesOn
<1>3. I => ExitTellsCause
  BY FollowImplies, Action!ExitImplies DEF ExitTellsCause
<1> QED
  BY <1>1, <1>2, <1>3, PTL DEF Spec

-----------------------------------------------------------------------------
(* Input files.  r1 is overwrite, r2 pc, r3 handled, r4 alreadyThere, r5 seen, r6 created,
   r7 bucket and r8 origin. *)

\* What is yet to be uploaded.
LEMMA InputsUpload ==
  ASSUME Inputs!Parameters, Inputs!TypeOK, NEW r \in Runs, r3[r] < Len(Uploads[r])
  PROVE  /\ r3[r] + 1 \in 1 .. Len(Uploads[r])
         /\ r3[r] \in Nat
         /\ Inputs!Upload(r) \in [local : Local, path : Path]
         /\ Inputs!Sends(r, Inputs!Upload(r).path)
         /\ {Uploads[r][i] : i \in 1 .. r3[r] + 1} =
              {Uploads[r][i] : i \in 1 .. r3[r]} \cup {Inputs!Upload(r)}
<1>1. Uploads[r] \in Seq([local : Local, path : Path])
  BY DEF Inputs!Parameters
<1>2. Len(Uploads[r]) \in Nat /\ r3[r] \in 0 .. Len(Uploads[r])
  BY <1>1 DEF Inputs!TypeOK
<1>3. r3[r] + 1 \in 1 .. Len(Uploads[r])
  BY <1>2
<1>4. Inputs!Upload(r) \in [local : Local, path : Path]
  BY <1>1, <1>3, ElementOfSeq DEF Inputs!Upload
<1>5. Inputs!Sends(r, Inputs!Upload(r).path)
  BY <1>3 DEF Inputs!Upload, Inputs!Sends
<1>6. 1 .. r3[r] + 1 = (1 .. r3[r]) \cup {r3[r] + 1}
  BY <1>2
<1> QED
  BY <1>2, <1>3, <1>4, <1>5, <1>6 DEF Inputs!Upload

LEMMA InputsInit ==
  ASSUME Inputs!Parameters
  PROVE  Inputs!Init => Inputs!IInv
<1> SUFFICES ASSUME Inputs!Init PROVE Inputs!IInv
  OBVIOUS
<1>1. PICK l \in Local : l = CHOOSE x \in Local : TRUE
  BY DEF Inputs!Parameters
<1>2. \A r \in Runs : Len(Uploads[r]) \in Nat
  BY DEF Inputs!Parameters
<1>3. Inputs!TypeOK
  BY <1>1, <1>2 DEF Inputs!Init, Inputs!TypeOK, Inputs!Nobody
<1>4. Inputs!SeenInv
  BY <1>2 DEF Inputs!Init, Inputs!SeenInv, Inputs!Uploading
<1> QED
  BY <1>3, <1>4 DEF Inputs!Init, Inputs!IInv, Inputs!CreatedInv, Inputs!FoundInv, Inputs!OwnInv

\* It leaves the other runs as they are.
LEMMA InputsOthers ==
  ASSUME Inputs!TypeOK, NEW r \in Runs, Inputs!Step(r), NEW s \in Runs \ {r}
  PROVE  /\ r2'[s] = r2[s] /\ r3'[s] = r3[s] /\ r5'[s] = r5[s]
         /\ r6'[s] = r6[s] /\ r4'[s] = r4[s]
         /\ r1' = r1
         /\ Inputs!Upload(s)' = Inputs!Upload(s) /\ (Inputs!Clashes(s)' <=> Inputs!Clashes(s))
<1>1. /\ r2'[s] = r2[s] /\ r3'[s] = r3[s] /\ r5'[s] = r5[s]
      /\ r6'[s] = r6[s] /\ r4'[s] = r4[s]
      /\ r1' = r1
  BY DEF Inputs!Step, Inputs!TypeOK, Inputs!At, Inputs!Handled, Inputs!Duplicate, Inputs!Look,
     Inputs!Skip, Inputs!Copy, Inputs!Submitted, Inputs!Fails, Inputs!Delete
<1>2. Inputs!Upload(s)' = Inputs!Upload(s)
  BY <1>1 DEF Inputs!Upload
<1> QED
  BY <1>1, <1>2 DEF Inputs!Clashes

LEMMA InputsTypeStep ==
  ASSUME Inputs!Parameters
  PROVE  Inputs!TypeOK /\ Inputs!SeenInv /\ Inputs!Next => Inputs!TypeOK'
<1> SUFFICES ASSUME Inputs!TypeOK, Inputs!SeenInv, NEW r \in Runs, Inputs!Step(r)
     PROVE Inputs!TypeOK'
  BY DEF Inputs!Next, Inputs!Step
<1>1. \A s \in Runs : Len(Uploads[s]) \in Nat
  BY DEF Inputs!Parameters
<1>2. CASE Inputs!Duplicate(r)
  <2>1. r3[r] < Len(Uploads[r])
    BY <1>2 DEF Inputs!Duplicate
  <2> QED
    BY <1>1, <1>2, <2>1 DEF Inputs!Duplicate, Inputs!Handled, Inputs!TypeOK
<1>3. CASE Inputs!Look(r)
  BY <1>3 DEF Inputs!Look, Inputs!At, Inputs!TypeOK
<1>4. CASE Inputs!Skip(r)
  <2>1. r3[r] < Len(Uploads[r])
    BY <1>4 DEF Inputs!Skip, Inputs!SeenInv
  <2>2. Inputs!Upload(r) \in [local : Local, path : Path]
    BY <2>1, InputsUpload
  <2>3. r3' \in [Runs -> Nat] /\ \A s \in Runs : r3'[s] <= Len(Uploads[s])
    BY <1>1, <1>4, <2>1 DEF Inputs!Skip, Inputs!Handled, Inputs!TypeOK
  <2> QED
    BY <1>4, <2>2, <2>3 DEF Inputs!Skip, Inputs!At, Inputs!TypeOK
<1>5. CASE Inputs!Copy(r)
  <2>1. r3[r] < Len(Uploads[r])
    BY <1>5 DEF Inputs!Copy, Inputs!SeenInv
  <2>2. Inputs!Upload(r) \in [local : Local, path : Path]
    BY <2>1, InputsUpload
  <2> QED
    BY <1>1, <1>5, <2>1, <2>2 DEF Inputs!Copy, Inputs!Handled, Inputs!At, Inputs!TypeOK
<1>6. CASE Inputs!Submitted(r)
  BY <1>6 DEF Inputs!Submitted, Inputs!At, Inputs!TypeOK
<1>7. CASE Inputs!Fails(r)
  BY <1>7 DEF Inputs!Fails, Inputs!At, Inputs!TypeOK
<1>8. CASE Inputs!Delete(r)
  BY <1>8 DEF Inputs!Delete, Inputs!At, Inputs!TypeOK, Inputs!Nobody
<1> QED
  BY <1>2, <1>3, <1>4, <1>5, <1>6, <1>7, <1>8 DEF Inputs!Step

LEMMA InputsSeenStep ==
  ASSUME Inputs!Parameters, Inputs!TypeOK, Inputs!SeenInv, NEW r \in Runs, Inputs!Step(r)
  PROVE  Inputs!SeenInv'
<1> DEFINE P(s) ==
      /\ r2[s] \in Inputs!Uploading => r5[s] = {Uploads[s][i] : i \in 1 .. r3[s]}
      /\ r2[s] = "copy" => r3[s] < Len(Uploads[s]) /\ ~Inputs!Clashes(s)
      /\ r2[s] = "submitted" => r3[s] = Len(Uploads[s])
<1>1. ASSUME NEW s \in Runs \ {r} PROVE P(s)'
  <2>1. P(s)
    BY DEF Inputs!SeenInv
  <2> QED
    BY <2>1, InputsOthers
<1>2. P(r)'
  <2>1. CASE Inputs!Duplicate(r)
    <3>1. r3[r] < Len(Uploads[r])
      BY <2>1 DEF Inputs!Duplicate
    <3>2. /\ r3'[r] = r3[r] + 1 /\ r5' = r5 /\ r2' = r2 /\ r2[r] = "next"
          /\ Inputs!Upload(r) \in r5[r]
      BY <2>1 DEF Inputs!Duplicate, Inputs!Handled, Inputs!TypeOK
    <3>3. {Uploads[r][i] : i \in 1 .. r3[r] + 1} =
            {Uploads[r][i] : i \in 1 .. r3[r]} \cup {Inputs!Upload(r)}
      BY <3>1, InputsUpload
    <3>4. r5[r] = {Uploads[r][i] : i \in 1 .. r3[r]}
      BY <3>2 DEF Inputs!SeenInv, Inputs!Uploading
    <3> QED
      BY <3>2, <3>3, <3>4
  <2>2. CASE Inputs!Look(r)
    <3>1. r2'[r] = "copy" /\ r5' = r5 /\ r3' = r3 /\ r2[r] = "next"
      BY <2>2 DEF Inputs!Look, Inputs!At, Inputs!TypeOK
    <3>2. Inputs!Upload(r)' = Inputs!Upload(r)
      BY <3>1 DEF Inputs!Upload
    <3>3. r3[r] < Len(Uploads[r]) /\ ~Inputs!Clashes(r)
      BY <2>2 DEF Inputs!Look
    <3>4. ~Inputs!Clashes(r)'
      BY <3>1, <3>2, <3>3 DEF Inputs!Clashes
    <3> QED
      BY <3>1, <3>3, <3>4 DEF Inputs!SeenInv, Inputs!Uploading
  <2>3. CASE Inputs!Skip(r) \/ Inputs!Copy(r)
    <3>1. /\ r2'[r] = "next" /\ r5'[r] = r5[r] \cup {Inputs!Upload(r)}
          /\ r3'[r] = r3[r] + 1 /\ r2[r] = "copy"
      BY <2>3 DEF Inputs!Skip, Inputs!Copy, Inputs!At, Inputs!Handled, Inputs!TypeOK
    <3>2. /\ r3[r] < Len(Uploads[r])
          /\ r5[r] = {Uploads[r][i] : i \in 1 .. r3[r]}
      BY <3>1 DEF Inputs!SeenInv, Inputs!Uploading
    <3>3. {Uploads[r][i] : i \in 1 .. r3[r] + 1} =
            {Uploads[r][i] : i \in 1 .. r3[r]} \cup {Inputs!Upload(r)}
      BY <3>2, InputsUpload
    <3> QED
      BY <3>1, <3>2, <3>3
  <2>4. CASE Inputs!Submitted(r)
    BY <2>4 DEF Inputs!Submitted, Inputs!At, Inputs!TypeOK, Inputs!SeenInv, Inputs!Uploading
  <2>5. CASE Inputs!Fails(r) \/ Inputs!Delete(r)
    <3>1. r2'[r] \in {"delete", "failed"}
      BY <2>5 DEF Inputs!Fails, Inputs!Delete, Inputs!At, Inputs!TypeOK
    <3> QED
      BY <3>1 DEF Inputs!Uploading
  <2> QED
    BY <2>1, <2>2, <2>3, <2>4, <2>5 DEF Inputs!Step
<1> QED
  BY <1>1, <1>2 DEF Inputs!SeenInv

LEMMA InputsCreatedStep ==
  ASSUME Inputs!Parameters, Inputs!TypeOK, Inputs!SeenInv, Inputs!CreatedInv, NEW r \in Runs,
     Inputs!Step(r)
  PROVE  Inputs!CreatedInv'
<1>1. ASSUME NEW s \in Runs \ {r}, NEW p \in r6'[s] PROVE Inputs!Sends(s, p)
  BY InputsOthers DEF Inputs!CreatedInv
<1>2. ASSUME NEW p \in r6'[r] PROVE Inputs!Sends(r, p)
  <2>1. CASE Inputs!Copy(r)
    <3>1. r3[r] < Len(Uploads[r])
      BY <2>1 DEF Inputs!Copy, Inputs!SeenInv
    <3>2. Inputs!Sends(r, Inputs!Upload(r).path)
      BY <3>1, InputsUpload
    <3>3. p \in r6[r] \/ p = Inputs!Upload(r).path
      BY <1>2, <2>1 DEF Inputs!Copy, Inputs!TypeOK
    <3> QED
      BY <3>2, <3>3 DEF Inputs!CreatedInv
  <2>2. CASE ~Inputs!Copy(r)
    <3>1. r6'[r] \subseteq r6[r]
      BY <2>2 DEF Inputs!Step, Inputs!Duplicate, Inputs!Look, Inputs!Skip, Inputs!Submitted,
         Inputs!Fails, Inputs!Delete, Inputs!TypeOK
    <3> QED
      BY <1>2, <3>1 DEF Inputs!CreatedInv
  <2> QED
    BY <2>1, <2>2
<1> QED
  BY <1>1, <1>2 DEF Inputs!CreatedInv, Inputs!Sends

LEMMA InputsFoundStep ==
  ASSUME Inputs!Parameters, Inputs!TypeOK, Inputs!SeenInv, Inputs!FoundInv, NEW r \in Runs,
     Inputs!Step(r)
  PROVE  Inputs!FoundInv'
<1> SUFFICES ASSUME NEW p \in Path, r7'[p] # None, r8'[p] = Inputs!Nobody, NEW s \in Runs
             PROVE  /\ p \notin r6'[s]
                    /\ r2'[s] = "copy" /\ Inputs!Upload(s)'.path = p => r4'[s]
  BY DEF Inputs!FoundInv, Inputs!Nobody
<1>1. r7[p] # None /\ r8[p] = Inputs!Nobody
  <2>1. CASE Inputs!Copy(r)
    <3>1. r3[r] < Len(Uploads[r])
      BY <2>1 DEF Inputs!Copy, Inputs!SeenInv
    <3>2. Inputs!Upload(r) \in [local : Local, path : Path]
      BY <3>1, InputsUpload
    <3>3. CASE r7[Inputs!Upload(r).path] = None
      <4>1. r8' = [r8 EXCEPT ![Inputs!Upload(r).path] = r]
        BY <2>1, <3>3 DEF Inputs!Copy
      <4>2. p # Inputs!Upload(r).path
        BY <4>1 DEF Inputs!TypeOK, Inputs!Nobody, Inputs!Parameters
      <4> QED
        BY <2>1, <4>1, <4>2 DEF Inputs!Copy, Inputs!TypeOK
    <3>4. CASE r7[Inputs!Upload(r).path] # None
      <4>1. r8' = r8 /\ r7' = [r7 EXCEPT ![Inputs!Upload(r).path] = Inputs!Upload(r).local]
        BY <2>1, <3>4 DEF Inputs!Copy
      <4> QED
        BY <3>4, <4>1 DEF Inputs!TypeOK
    <3> QED
      BY <3>3, <3>4
  <2>2. CASE Inputs!Delete(r)
    BY <2>2 DEF Inputs!Delete, Inputs!TypeOK
  <2>3. CASE ~Inputs!Copy(r) /\ ~Inputs!Delete(r)
    BY <2>3 DEF Inputs!Step, Inputs!Duplicate, Inputs!Look, Inputs!Skip, Inputs!Submitted,
       Inputs!Fails
  <2> QED
    BY <2>1, <2>2, <2>3
<1>2. /\ p \notin r6[s]
      /\ r2[s] = "copy" /\ Inputs!Upload(s).path = p => r4[s]
  BY <1>1 DEF Inputs!FoundInv
<1>3. CASE s # r
  BY <1>2, <1>3, InputsOthers
<1>4. CASE s = r
  <2>1. CASE Inputs!Look(r)
    <3>1. r3' = r3 /\ r6' = r6
          /\ r4'[r] = (r7[Inputs!Upload(r).path] # None)
      BY <2>1 DEF Inputs!Look, Inputs!TypeOK
    <3>2. Inputs!Upload(r)' = Inputs!Upload(r)
      BY <3>1 DEF Inputs!Upload
    <3> QED
      BY <1>1, <1>2, <1>4, <3>1, <3>2
  <2>2. CASE Inputs!Copy(r)
    <3>1. r2'[r] = "next" /\ r2[r] = "copy"
      BY <2>2 DEF Inputs!Copy, Inputs!At, Inputs!TypeOK
    <3>2. r6'[r] = r6[r]
          \/ (~r4[r] /\ r6'[r] = r6[r] \cup {Inputs!Upload(r).path})
      BY <2>2 DEF Inputs!Copy, Inputs!TypeOK
    <3> QED
      BY <1>2, <1>4, <3>1, <3>2
  <2>3. CASE ~Inputs!Look(r) /\ ~Inputs!Copy(r)
    <3>1. r2'[r] # "copy" /\ r6'[r] \subseteq r6[r]
      BY <2>3 DEF Inputs!Step, Inputs!Duplicate, Inputs!Skip, Inputs!Submitted, Inputs!Fails,
         Inputs!Delete, Inputs!At, Inputs!TypeOK
    <3> QED
      BY <1>2, <1>4, <3>1
  <2> QED
    BY <2>1, <2>2, <2>3
<1> QED
  BY <1>3, <1>4

LEMMA InputsOwnStep ==
  ASSUME Inputs!Parameters, Inputs!TypeOK, Inputs!SeenInv, Inputs!CreatedInv, Inputs!OwnInv,
     NEW r \in Runs, Inputs!Step(r)
  PROVE  Inputs!OwnInv'
<1> SUFFICES ASSUME NEW s \in Runs, r2'[s] \in Inputs!Uploading, r1'[s], NEW u \in r5'[s]
             PROVE  r7'[u.path] = u.local \/ \E t \in Runs \ {s} : Inputs!Sends(t, u.path)
  BY DEF Inputs!OwnInv, Inputs!Sends
<1>1. CASE s # r
  <2>1. r2[s] \in Inputs!Uploading /\ r1[s] /\ u \in r5[s]
    BY <1>1, InputsOthers
  <2>2. r7[u.path] = u.local \/ \E t \in Runs \ {s} : Inputs!Sends(t, u.path)
    BY <2>1 DEF Inputs!OwnInv
  <2>3. CASE r7'[u.path] = r7[u.path]
    BY <2>2, <2>3
  <2>4. CASE r7'[u.path] # r7[u.path]
    <3>1. u.path \in Path
      BY <2>1 DEF Inputs!TypeOK
    <3>2. Inputs!Sends(r, u.path)
      <4>1. CASE Inputs!Copy(r)
        <5>1. r3[r] < Len(Uploads[r])
          BY <4>1 DEF Inputs!Copy, Inputs!SeenInv
        <5>2. Inputs!Sends(r, Inputs!Upload(r).path)
          BY <5>1, InputsUpload
        <5> QED
          BY <2>4, <3>1, <4>1, <5>2 DEF Inputs!Copy, Inputs!TypeOK
      <4>2. CASE Inputs!Delete(r)
        BY <2>4, <3>1, <4>2 DEF Inputs!Delete, Inputs!TypeOK, Inputs!CreatedInv
      <4>3. CASE ~Inputs!Copy(r) /\ ~Inputs!Delete(r)
        BY <2>4, <4>3 DEF Inputs!Step, Inputs!Duplicate, Inputs!Look, Inputs!Skip,
           Inputs!Submitted, Inputs!Fails
      <4> QED
        BY <4>1, <4>2, <4>3
    <3> QED
      BY <1>1, <3>2
  <2> QED
    BY <2>3, <2>4
<1>2. CASE s = r
  <2>1. CASE Inputs!Copy(r)
    <3>1. r3[r] < Len(Uploads[r]) /\ ~Inputs!Clashes(r)
      BY <2>1 DEF Inputs!Copy, Inputs!SeenInv
    <3>2. Inputs!Upload(r) \in [local : Local, path : Path]
      BY <3>1, InputsUpload
    <3>3. /\ r2[r] \in Inputs!Uploading /\ r1[r] /\ (u \in r5[r] \/ u = Inputs!Upload(r))
          /\ r7' = [r7 EXCEPT ![Inputs!Upload(r).path] = Inputs!Upload(r).local]
      BY <1>2, <2>1 DEF Inputs!Copy, Inputs!TypeOK, Inputs!Uploading
    <3>4. CASE u.path = Inputs!Upload(r).path
      <4>1. u.local = Inputs!Upload(r).local
        BY <3>1, <3>3, <3>4 DEF Inputs!Clashes
      <4> QED
        BY <3>2, <3>3, <3>4, <4>1 DEF Inputs!TypeOK
    <3>5. CASE u.path # Inputs!Upload(r).path
      <4>1. u \in r5[r] /\ u.path \in Path
        BY <3>3, <3>5 DEF Inputs!TypeOK
      <4>2. r7'[u.path] = r7[u.path]
        BY <3>3, <3>5, <4>1 DEF Inputs!TypeOK
      <4> QED
        BY <1>2, <3>3, <4>1, <4>2 DEF Inputs!OwnInv
    <3> QED
      BY <3>4, <3>5
  <2>2. CASE Inputs!Duplicate(r) \/ Inputs!Look(r) \/ Inputs!Submitted(r)
    <3>1. /\ r2[r] \in Inputs!Uploading /\ r1' = r1 /\ r5' = r5
          /\ r7' = r7
      BY <2>2 DEF Inputs!Duplicate, Inputs!Look, Inputs!Submitted, Inputs!Uploading
    <3> QED
      BY <1>2, <3>1 DEF Inputs!OwnInv
  <2>3. CASE Inputs!Skip(r)
    BY <1>2, <2>3 DEF Inputs!Skip
  <2>4. CASE Inputs!Fails(r) \/ Inputs!Delete(r)
    <3>1. r2'[r] \in {"delete", "failed"}
      BY <2>4 DEF Inputs!Fails, Inputs!Delete, Inputs!At, Inputs!TypeOK
    <3> QED
      BY <1>2, <3>1 DEF Inputs!Uploading
  <2> QED
    BY <2>1, <2>2, <2>3, <2>4 DEF Inputs!Step
<1> QED
  BY <1>1, <1>2

LEMMA InputsStep ==
  ASSUME Inputs!Parameters
  PROVE  Inputs!IInv /\ [Inputs!Next]_(Inputs!vars) => Inputs!IInv'
<1> SUFFICES ASSUME Inputs!IInv, [Inputs!Next]_(Inputs!vars) PROVE Inputs!IInv'
  OBVIOUS
<1>1. CASE UNCHANGED Inputs!vars
  <2>1. UNCHANGED <<r1, r2, r3, r4, r5, r6, r7, r8>>
    BY <1>1 DEF Inputs!vars
  <2>2. Inputs!TypeOK'
    BY <2>1 DEF Inputs!IInv, Inputs!TypeOK
  <2>3. Inputs!SeenInv'
    BY <2>1 DEF Inputs!IInv, Inputs!SeenInv, Inputs!Upload, Inputs!Clashes
  <2>4. Inputs!CreatedInv'
    BY <2>1 DEF Inputs!IInv, Inputs!CreatedInv
  <2>5. Inputs!FoundInv'
    BY <2>1 DEF Inputs!IInv, Inputs!FoundInv, Inputs!Upload
  <2>6. Inputs!OwnInv'
    BY <2>1 DEF Inputs!IInv, Inputs!OwnInv
  <2> QED
    BY <2>2, <2>3, <2>4, <2>5, <2>6 DEF Inputs!IInv
<1>2. ASSUME NEW r \in Runs, Inputs!Step(r) PROVE Inputs!IInv'
  BY <1>2, InputsTypeStep, InputsSeenStep, InputsCreatedStep, InputsFoundStep,
     InputsOwnStep DEF Inputs!IInv, Inputs!Next, Inputs!Step
<1> QED
  BY <1>1, <1>2 DEF Inputs!Next, Inputs!Step

LEMMA InputsLeftThere ==
  ASSUME Inputs!Parameters
  PROVE  Inputs!IInv /\ [Inputs!Next]_(Inputs!vars) => [Inputs!LeftThere]_(Inputs!vars)
<1> SUFFICES ASSUME Inputs!IInv, NEW r \in Runs, Inputs!Step(r), NEW p \in Path,
                    r7[p] # None, r8[p] = Inputs!Nobody
             PROVE  r7'[p] # None
  BY DEF Inputs!Next, Inputs!Step, Inputs!LeftThere
<1>1. CASE Inputs!Copy(r)
  <2>1. r3[r] < Len(Uploads[r])
    BY <1>1 DEF Inputs!Copy, Inputs!IInv, Inputs!SeenInv
  <2>2. Inputs!Upload(r).local # None
    BY <2>1, InputsUpload DEF Inputs!IInv, Inputs!Parameters
  <2> QED
    BY <1>1, <2>2 DEF Inputs!Copy, Inputs!IInv, Inputs!TypeOK
<1>2. CASE Inputs!Delete(r)
  <2>1. p \notin r6[r]
    BY DEF Inputs!IInv, Inputs!FoundInv
  <2> QED
    BY <1>2, <2>1 DEF Inputs!Delete, Inputs!IInv, Inputs!TypeOK
<1>3. CASE ~Inputs!Copy(r) /\ ~Inputs!Delete(r)
  BY <1>3 DEF Inputs!Step, Inputs!Duplicate, Inputs!Look, Inputs!Skip, Inputs!Submitted,
     Inputs!Fails
<1> QED
  BY <1>1, <1>2, <1>3

LEMMA InputsImply == Inputs!IInv => Inputs!OwnInputs
<1> SUFFICES ASSUME Inputs!IInv, NEW r \in Runs, r2[r] = "submitted", r1[r],
                    NEW i \in 1 .. Len(Uploads[r])
             PROVE  LET u == Uploads[r][i] IN
                    r7[u.path] = u.local \/ \E s \in Runs \ {r} : Inputs!Sends(s, u.path)
  BY DEF Inputs!OwnInputs
<1>1. Uploads[r][i] \in r5[r]
  BY DEF Inputs!IInv, Inputs!SeenInv, Inputs!Uploading
<1> QED
  BY <1>1 DEF Inputs!IInv, Inputs!OwnInv, Inputs!Uploading

LEMMA InputsBegin ==
  ASSUME Inputs!Parameters
  PROVE  Init => (chosen = "inputs" => Inputs!IInv)
BY InputsInit DEF Init

LEMMA InputsGoOn ==
  ASSUME Inputs!Parameters
  PROVE  (chosen = "inputs" => Inputs!IInv) /\ [Next]_all => (chosen = "inputs" => Inputs!IInv)'
<1> SUFFICES ASSUME chosen = "inputs" => Inputs!IInv, [Next]_all, chosen' = "inputs"
             PROVE  Inputs!IInv'
  OBVIOUS
<1>1. chosen = "inputs" /\ [Inputs!Next]_(Inputs!vars)
  BY DEF Next, OfLaz, OfMcp, OfWait, OfAdd, OfFollow, OfStream, OfWindow, OfAction, OfAbort, OfInputs,
     OfNode, OfProv,
     all, Inputs!vars
<1> QED
  BY <1>1, InputsStep

\* With '--overwrite', the Tasks of a run read the files that they name, where no other
\* run sends one to the same place.
THEOREM InputsOwn ==
  ASSUME Inputs!Parameters
  PROVE  Spec => []OwnInputs
<1>1. (chosen = "inputs" => Inputs!IInv) => OwnInputs
  BY InputsImply DEF OwnInputs
<1> QED
  BY <1>1, InputsBegin, InputsGoOn, PTL DEF Spec

\* With it or without, no run's clean-up deletes a file that was at its upload path before
\* them all.
THEOREM InputsKept ==
  ASSUME Inputs!Parameters
  PROVE  Spec => FoundKept
<1> DEFINE I == chosen = "inputs" => Inputs!IInv
<1>1. I /\ [Next]_all => [chosen = "inputs" => Inputs!LeftThere]_all
  <2> SUFFICES ASSUME I, Next, chosen = "inputs" PROVE Inputs!LeftThere
    OBVIOUS
  <2>1. Inputs!Next
    BY DEF Next, OfLaz, OfMcp, OfWait, OfAdd, OfFollow, OfStream, OfWindow, OfAction, OfAbort,
       OfInputs, OfNode, OfProv
  <2>2. [Inputs!LeftThere]_(Inputs!vars)
    BY <2>1, InputsLeftThere
  <2> QED
    BY <2>1, <2>2 DEF Inputs!LeftThere, Inputs!vars
<1> QED
  BY <1>1, InputsBegin, InputsGoOn, PTL DEF Spec, FoundKept
-----------------------------------------------------------------------------
(* When '--follow' and '--wait' return. *)

LEMMA WaitFinite ==
  /\ \A S : Wait!IsFiniteSet(S) <=> IsFiniteSet(S)
  /\ \A S : Wait!Cardinality(S) = Cardinality(S)
BY DEF Wait!IsFiniteSet, IsFiniteSet, Wait!Cardinality, Cardinality

LEMMA FewerIn ==
  ASSUME NEW T, IsFiniteSet(T), NEW S, S \subseteq T, NEW x, x \in T, x \notin S
  PROVE  Cardinality(S) # Cardinality(T)
BY FS_Subset

LEMMA WaitRules ==
  /\ \A kind \in {"start", "deprovision", "reprovision", "resize"} :
       Wait!done_when[kind] = "until_settled"
  /\ \A kind \in {"stop", "terminate", "restart", "pool"} :
       Wait!done_when[kind] # "until_settled"
BY DEF Wait!done_when

\* Of what was at its target: what an action is to make of its Instances changes how many
\* of them exist, where it is done once they are settled; and where it is not, they are
\* settled as it is asked.
LEMMA WaitTargets ==
  ASSUME Wait!Parameters,
         NEW kind \in Wait!Kinds, NEW whole \in BOOLEAN, NEW in \in StatesBefore[kind],
         NEW before \in Nat,
         kind # "reprovision" => before = Wait!Existing(in),
         kind # "start" => \A i \in Instance : in[i] # "stopped",
         NEW picked \in SUBSET {i \in Instance : in[i] \in Wait!Takes(kind)}, picked # {},
         NEW goal \in [picked -> {"off", "running", "stopped"}],
         \A i \in picked : goal[i] \in Wait!Makes(kind, in[i]),
         Wait!OneWay(kind, picked, in),
         NEW s, s = IF whole /\ kind = "start" THEN "stopped" ELSE "running",
         NEW t, t = IF kind = "pool" THEN before
                    ELSE Wait!TargetOf(kind, picked, in, goal, before)
  PROVE  Wait!Settled(s, t, in) <=> Wait!done_when[kind] # "until_settled"
<1> DEFINE R == {i \in Instance : in[i] = "running"}
           E == {i \in Instance : in[i] # "off"}
           after == [i \in Instance |-> IF i \in picked THEN goal[i] ELSE in[i]]
           A == {i \in Instance : after[i] # "off"}
           Kinds == {"stop", "terminate", "start", "deprovision", "reprovision", "resize",
                     "restart", "pool"}
<1>1. /\ IsFiniteSet(Instance) /\ in \in [Instance -> {"off", "running", "stopped"}]
      /\ kind # "start" => \A i \in Instance : in[i] \in {"running", "off"}
      /\ kind \in Kinds
  <2>1. Wait!InstanceStates \ {"changing"} = {"off", "running", "stopped"}
    BY DEF Wait!InstanceStates
  <2>2. DOMAIN Wait!done_when = Kinds
    BY DEF Wait!done_when
  <2>3. IsFiniteSet(Instance) /\ kind \in Kinds
    BY <2>2, WaitFinite DEF Wait!Parameters
  <2>4. StatesBefore[kind] \subseteq [Instance -> {"off", "running", "stopped"}]
    BY <2>1 DEF Wait!Parameters
  <2> QED
    BY <2>3, <2>4
<1>2. /\ Wait!Running(in) = Cardinality(R) /\ Wait!Existing(in) = Cardinality(E)
      /\ Wait!Existing(after) = Cardinality(A)
  BY WaitFinite DEF Wait!Running, Wait!Existing
<1>3. IsFiniteSet(R) /\ IsFiniteSet(E) /\ IsFiniteSet(A) /\ R \subseteq E
  BY <1>1, FS_Subset
<1>4. ASSUME Cardinality(R) # t, kind \in {"start", "deprovision", "reprovision", "resize"}
      PROVE  Wait!Settled(s, t, in) <=> Wait!done_when[kind] # "until_settled"
  <2>1. ~Wait!Settled(s, t, in)
    BY <1>2, <1>4 DEF Wait!Settled
  <2> QED
    BY <1>4, <2>1, WaitRules
<1>5. ~Wait!Changing(in)
  BY <1>1 DEF Wait!Changing
<1>6. /\ \A i \in picked : i \in Instance /\ in[i] \in Wait!Takes(kind) /\ after[i] = goal[i]
      /\ \A i \in Instance \ picked : after[i] = in[i]
  OBVIOUS
<1>7. PICK p \in picked : p \in Instance /\ in[p] \in Wait!Takes(kind)
  BY <1>6
<1>8. CASE kind = "deprovision"
  <2>1. t = Wait!Less(Cardinality(E), Cardinality(picked))
    BY <1>2, <1>8, WaitFinite DEF Wait!TargetOf
  <2>2. R = E /\ p \in R
    BY <1>1, <1>7, <1>8 DEF Wait!Takes
  <2>3. IsFiniteSet(picked) /\ picked # {}
    BY <1>1, FS_Subset
  <2>4. Cardinality(picked) \in Nat /\ Cardinality(picked) # 0
    BY <2>3, FS_EmptySet, FS_CardinalityType
  <2>5. Cardinality(R) \in Nat /\ Cardinality(R) # 0
    BY <1>3, <2>2, FS_EmptySet, FS_CardinalityType
  <2>6. Cardinality(R) # t
    BY <2>1, <2>2, <2>4, <2>5 DEF Wait!Less
  <2> QED
    BY <1>4, <1>8, <2>6
<1>9. CASE kind = "reprovision"
  <2>1. /\ \A i \in picked : in[i] = "off" /\ after[i] = "running"
        /\ t = Cardinality(A) /\ s = "running"
    BY <1>2, <1>6, <1>9 DEF Wait!TargetOf, Wait!Takes, Wait!Makes
  <2>2. R \subseteq A /\ p \in A /\ p \notin R
    BY <1>1, <1>6, <1>7, <1>9, <2>1
  <2>3. Cardinality(A) # Cardinality(R)
    BY <1>3, <2>2, FewerIn
  <2> QED
    BY <1>4, <1>9, <2>1, <2>3
<1>10. CASE kind = "resize"
  <2>1. /\ \A i \in picked : after[i] = IF in[i] = "off" THEN "running" ELSE "off"
        /\ \A i \in picked : in[i] = in[p]
        /\ t = Cardinality(A) /\ s = "running"
    BY <1>2, <1>6, <1>7, <1>10 DEF Wait!TargetOf, Wait!Makes, Wait!OneWay
  <2>2. CASE in[p] = "off"
    <3>1. R \subseteq A /\ p \in A /\ p \notin R
      BY <1>1, <1>6, <1>7, <1>10, <2>1, <2>2
    <3>2. Cardinality(A) # Cardinality(R)
      BY <1>3, <3>1, FewerIn
    <3> QED
      BY <1>4, <1>10, <2>1, <3>2
  <2>3. CASE in[p] # "off"
    <3>1. A \subseteq R /\ p \in R /\ p \notin A
      BY <1>1, <1>6, <1>7, <1>10, <2>1, <2>3
    <3>2. Cardinality(A) # Cardinality(R)
      BY <1>3, <3>1, FewerIn
    <3> QED
      BY <1>4, <1>10, <2>1, <3>2
  <2> QED
    BY <2>2, <2>3
<1>11. CASE kind = "start"
  <2>1. t = Cardinality(E)
    BY <1>2, <1>11 DEF Wait!TargetOf
  <2>2. in[p] = "stopped" /\ p \in E /\ p \notin R
    BY <1>7, <1>11 DEF Wait!Takes
  <2>3. Cardinality(R) # Cardinality(E)
    BY <1>3, <2>2, FewerIn
  <2> QED
    BY <1>4, <1>11, <2>1, <2>3
<1>12. CASE kind \in {"stop", "terminate", "restart", "pool"}
  <2>1. t = Cardinality(E) /\ s = "running"
    BY <1>2, <1>12 DEF Wait!TargetOf
  <2>2. R = E
    BY <1>1, <1>12
  <2>3. Wait!Settled(s, t, in)
    BY <1>2, <1>5, <2>1, <2>2 DEF Wait!Settled
  <2> QED
    BY <1>12, <2>3, WaitRules
<1> QED
  BY <1>1, <1>8, <1>9, <1>10, <1>11, <1>12

LEMMA WaitBegins ==
  ASSUME Wait!Parameters
  PROVE  Wait!Init => Wait!IInv
<1> SUFFICES ASSUME Wait!Init PROVE Wait!IInv
  OBVIOUS
<1>1. /\ r3 = "accepted" /\ r11 = "idle" /\ r13 = FALSE
      /\ r12 = [status |-> r5, target |-> r6]
  BY DEF Wait!Init
<1>2. ASSUME NEW kind \in Wait!Kinds, NEW whole \in BOOLEAN,
             NEW before \in 0 .. Wait!Cardinality(Instance), NEW in \in StatesBefore[kind],
             NEW picked \in SUBSET {i \in Instance : in[i] \in Wait!Takes(kind)},
             picked # {},
             NEW goal \in [picked -> {"off", "running", "stopped"}],
             \A i \in picked : goal[i] \in Wait!Makes(kind, in[i]),
             Wait!OneWay(kind, picked, in),
             r1 = [kind |-> kind, chosen |-> picked, goal |-> goal, whole |-> whole,
                   before |-> before,
                   target |-> Wait!TargetOf(kind, picked, in, goal, before)],
             r7 = in,
             r5 = IF whole /\ kind = "start" THEN "stopped" ELSE "running",
             r6 = IF kind = "pool" THEN before
                  ELSE Wait!TargetOf(kind, picked, in, goal, before)
      PROVE  Wait!AcceptedInv /\ Wait!BegunInv
  <2>1. before \in Nat
    BY WaitFinite, FS_CardinalityType DEF Wait!Parameters
  <2>2. Wait!AtTarget => (Wait!Settled(r5, r6, in) <=> Wait!done_when[kind] # "until_settled")
    BY <1>2, <2>1, WaitTargets DEF Wait!AtTarget
  <2>3. Wait!AcceptedInv
    BY <1>1, <1>2, <2>2 DEF Wait!AcceptedInv
  <2>4. in \in [Instance -> Wait!InstanceStates \ {"changing"}] /\ picked \subseteq Instance
    BY DEF Wait!Parameters
  <2>5. Wait!BegunInv
    BY <1>1, <1>2, <2>4 DEF Wait!BegunInv, Wait!InstanceStates
  <2> QED
    BY <2>3, <2>5
<1>3. PICK kind \in Wait!Kinds, whole \in BOOLEAN, before \in 0 .. Wait!Cardinality(Instance) :
        \E in \in StatesBefore[kind] :
          \E picked \in (SUBSET {i \in Instance : in[i] \in Wait!Takes(kind)}) \ {{}} :
            \E goal \in [picked -> {"off", "running", "stopped"}] :
              /\ \A i \in picked : goal[i] \in Wait!Makes(kind, in[i])
              /\ Wait!OneWay(kind, picked, in)
              /\ whole => Wait!Wholly(kind, picked, in)
              /\ ~whole => kind \notin {"reprovision", "resize", "pool"}
              /\ r1 = [kind |-> kind, chosen |-> picked, goal |-> goal, whole |-> whole,
                       before |-> before,
                       target |-> Wait!TargetOf(kind, picked, in, goal, before)]
              /\ r7 = in
              /\ r5 = IF whole /\ kind = "start" THEN "stopped" ELSE "running"
              /\ r6 = IF kind = "pool" THEN before
                      ELSE Wait!TargetOf(kind, picked, in, goal, before)
  BY Zenon DEF Wait!Init
<1>4. PICK in \in StatesBefore[kind] :
        \E picked \in (SUBSET {i \in Instance : in[i] \in Wait!Takes(kind)}) \ {{}} :
          \E goal \in [picked -> {"off", "running", "stopped"}] :
            /\ \A i \in picked : goal[i] \in Wait!Makes(kind, in[i])
            /\ Wait!OneWay(kind, picked, in)
            /\ r1 = [kind |-> kind, chosen |-> picked, goal |-> goal, whole |-> whole,
                     before |-> before,
                     target |-> Wait!TargetOf(kind, picked, in, goal, before)]
            /\ r7 = in
            /\ r5 = IF whole /\ kind = "start" THEN "stopped" ELSE "running"
            /\ r6 = IF kind = "pool" THEN before
                    ELSE Wait!TargetOf(kind, picked, in, goal, before)
  BY <1>3, Zenon
<1>5. PICK picked \in (SUBSET {i \in Instance : in[i] \in Wait!Takes(kind)}) \ {{}} :
        \E goal \in [picked -> {"off", "running", "stopped"}] :
          /\ \A i \in picked : goal[i] \in Wait!Makes(kind, in[i])
          /\ Wait!OneWay(kind, picked, in)
          /\ r1 = [kind |-> kind, chosen |-> picked, goal |-> goal, whole |-> whole,
                   before |-> before,
                   target |-> Wait!TargetOf(kind, picked, in, goal, before)]
          /\ r7 = in
          /\ r5 = IF whole /\ kind = "start" THEN "stopped" ELSE "running"
          /\ r6 = IF kind = "pool" THEN before
                  ELSE Wait!TargetOf(kind, picked, in, goal, before)
  BY <1>4, Zenon
<1>6. /\ picked \in SUBSET {i \in Instance : in[i] \in Wait!Takes(kind)}
      /\ picked # {}
  BY <1>5, Zenon
<1>7. Wait!AcceptedInv /\ Wait!BegunInv
  BY <1>2, <1>5, <1>6, Zenon
<1>8. Wait!PolledInv
  <2>1. r2 # "follow" => r1.kind \in {"resize", "reprovision"}
    BY DEF Wait!Init
  <2> QED
    BY <2>1, WaitRules DEF Wait!PolledInv
<1> QED
  BY <1>1, <1>7, <1>8 DEF Wait!IInv, Wait!ReturnsDone

\* What is tested is read before, and the Instances after: a test that finds none of them
\* changing, of an action that has begun, finds them as they were asked to be; and before
\* it has, one that finds its rule met is of what was not at its target.
LEMMA WaitTestStep ==
  ASSUME Wait!IInv, Wait!Test \/ Wait!Poll
  PROVE  Wait!IInv'
<1> USE DEF Wait!platform, Wait!follower, Wait!IInv
<1>1. /\ UNCHANGED <<r1, r2, r3, r4, r5, r6, r7, r8, r9, r10, r12, r14>>
      /\ r11 = "read" /\ r11' \in {"returned", "idle", "timed out"}
  BY DEF Wait!Test, Wait!Poll
<1>2. Wait!BegunInv' /\ Wait!PolledInv' /\ Wait!AtTarget' = Wait!AtTarget
  BY <1>1 DEF Wait!BegunInv, Wait!PolledInv, Wait!AtTarget, Wait!Existing
<1>3. CASE r3 = "accepted"
  <2>1. r12 = [status |-> r5, target |-> r6]
    BY <1>3 DEF Wait!AcceptedInv
  <2>2. Wait!Capacity.settled <=> Wait!Settled(r5, r6, r7)
    BY <2>1 DEF Wait!Capacity
  <2>3. ASSUME Wait!AtTarget
        PROVE  /\ r11' # "returned"
               /\ Wait!done_when[r1.kind] # "until_settled" => ~r13'
    <3>1. IF Wait!done_when[r1.kind] = "until_settled" THEN ~Wait!Settled(r5, r6, r7)
          ELSE Wait!Settled(r5, r6, r7) /\ ~r13
      BY <1>3, <2>3 DEF Wait!AcceptedInv
    <3>2. CASE Wait!Test
      <4>1. Wait!done_when[r1.kind] # "until_settled" => ~r13'
        BY <2>2, <3>1, <3>2 DEF Wait!Test, Wait!Seen
      <4>2. ~Wait!IsDone(Wait!Capacity, r13')
        BY <2>2, <3>1, <4>1 DEF Wait!IsDone
      <4> QED
        BY <3>2, <4>1, <4>2 DEF Wait!Test
    <3>3. CASE Wait!Poll
      BY <2>2, <3>1, <3>3 DEF Wait!Poll, Wait!PolledInv
    <3> QED
      BY <3>2, <3>3
  <2>4. Wait!AcceptedInv'
    <3>1. Wait!Settled(r5, r6, r7)' <=> Wait!Settled(r5, r6, r7)
      BY <1>1
    <3> QED
      BY <1>1, <1>2, <1>3, <2>1, <2>3, <3>1 DEF Wait!AcceptedInv
  <2> QED
    BY <1>1, <1>2, <1>3, <2>3, <2>4 DEF Wait!ReturnsDone
<1>4. CASE r3 # "accepted"
  <2>1. r11' = "returned" => ~Wait!Changing(r7)
    BY DEF Wait!Test, Wait!Poll, Wait!IsDone, Wait!Capacity, Wait!Settled, Wait!Quiet
  <2>2. ~Wait!Changing(r7) => Wait!AsAsked
    BY <1>4 DEF Wait!BegunInv, Wait!Changing, Wait!AsAsked
  <2> QED
    BY <1>1, <1>2, <1>4, <2>1, <2>2 DEF Wait!AcceptedInv, Wait!ReturnsDone, Wait!AsAsked
<1> QED
  BY <1>3, <1>4

LEMMA WaitStep ==
  Wait!IInv /\ [Wait!Next]_(Wait!vars) => Wait!IInv'
<1> SUFFICES ASSUME Wait!IInv, [Wait!Next]_(Wait!vars) PROVE Wait!IInv'
  OBVIOUS
<1> USE DEF Wait!platform, Wait!follower, Wait!IInv
<1>0. Wait!PolledInv'
  BY DEF Wait!Next, Wait!Platform, Wait!Begins, Wait!Changes, Wait!IsOver, Wait!Connect,
         Wait!Drop, Wait!Read, Wait!Test, Wait!Poll, Wait!Expires, Wait!vars, Wait!PolledInv
<1>1. CASE Wait!Begins
  <2>1. /\ r3 = "accepted" /\ r3' = "begun" /\ UNCHANGED <<r1, r11>>
        /\ r7' = [i \in Instance |-> IF i \in r1.chosen THEN "changing" ELSE r7[i]]
    BY <1>1 DEF Wait!Begins
  <2>2. Wait!BegunInv'
    BY <2>1 DEF Wait!BegunInv, Wait!InstanceStates
  <2>3. r11' # "returned"
    BY <1>1, <2>1 DEF Wait!Begins
  <2> QED
    BY <1>0, <2>1, <2>2, <2>3 DEF Wait!AcceptedInv, Wait!ReturnsDone
<1>2. ASSUME NEW i \in Instance, Wait!Changes(i) PROVE Wait!IInv'
  <2>1. /\ r3 = "begun" /\ r7[i] = "changing" /\ r7' = [r7 EXCEPT ![i] = r1.goal[i]]
        /\ UNCHANGED <<r1, r3, r11>>
    BY <1>2 DEF Wait!Changes
  <2>2. i \in r1.chosen /\ r1.goal[i] \in Wait!InstanceStates \ {"changing"}
    BY <2>1 DEF Wait!BegunInv
  <2>3. Wait!BegunInv'
    BY <2>1, <2>2 DEF Wait!BegunInv
  <2>4. r11 # "returned"
    BY <1>2 DEF Wait!Changes
  <2> QED
    BY <1>0, <2>1, <2>3, <2>4 DEF Wait!AcceptedInv, Wait!ReturnsDone
<1>3. CASE Wait!IsOver
  BY <1>0, <1>3 DEF Wait!IsOver, Wait!AcceptedInv, Wait!BegunInv, Wait!ReturnsDone, Wait!AsAsked
<1>4. CASE Wait!Connect \/ Wait!Drop \/ Wait!Expires
  <2>1. UNCHANGED <<r1, r3, r5, r6, r7, r11, r12, r13>>
    BY <1>4 DEF Wait!Connect, Wait!Drop, Wait!Expires
  <2>2. Wait!AcceptedInv' /\ Wait!BegunInv'
    BY <2>1 DEF Wait!AcceptedInv, Wait!BegunInv, Wait!Settled, Wait!Changing, Wait!AtTarget,
                Wait!Existing
  <2> QED
    BY <1>0, <2>1, <2>2 DEF Wait!ReturnsDone, Wait!AsAsked, Wait!AtTarget, Wait!Existing
<1>5. CASE Wait!Read
  <2>1. /\ UNCHANGED <<r1, r3, r5, r6, r7, r13>> /\ r12' = [status |-> r5, target |-> r6]
        /\ r11' = "read"
    BY <1>5 DEF Wait!Read
  <2>2. Wait!AcceptedInv' /\ Wait!BegunInv'
    BY <2>1 DEF Wait!AcceptedInv, Wait!BegunInv, Wait!Settled, Wait!Changing, Wait!AtTarget,
                Wait!Existing
  <2> QED
    BY <1>0, <2>1, <2>2 DEF Wait!ReturnsDone
<1>6. CASE UNCHANGED Wait!vars
  <2>1. UNCHANGED <<r1, r3, r5, r6, r7, r11, r12, r13>>
    BY <1>6 DEF Wait!vars
  <2>2. Wait!AcceptedInv' /\ Wait!BegunInv'
    BY <2>1 DEF Wait!AcceptedInv, Wait!BegunInv, Wait!Settled, Wait!Changing, Wait!AtTarget,
                Wait!Existing
  <2> QED
    BY <1>0, <2>1, <2>2 DEF Wait!ReturnsDone, Wait!AsAsked, Wait!AtTarget, Wait!Existing
<1> QED
  BY <1>1, <1>2, <1>3, <1>4, <1>5, <1>6, WaitTestStep DEF Wait!Next, Wait!Platform

\* '--follow' and '--wait', of a Compute Requirement in whatever state and with whatever
\* target, return no sooner than all is as it was asked, but that of one that was not at
\* its target they may return before the Platform has begun; of Nodes, only when the queue
\* of each that was submitted to is done; and 'yd wait' exits 0 only when all is done.
THEOREM ReturnedDone ==
  ASSUME Wait!Parameters, Follow!Parameters, Node!Parameters
  PROVE  Spec => []ReturnsDone
<1> DEFINE I == chosen = "wait" => Wait!IInv
<1>1. Init => I
  BY WaitBegins DEF Init
<1>2. I /\ [Next]_all => I'
  <2>1. SUFFICES ASSUME I, [Next]_all, chosen' = "wait" PROVE Wait!IInv'
    OBVIOUS
  <2>2. chosen = "wait" /\ [Wait!Next]_(Wait!vars)
    BY <2>1 DEF Next, OfLaz, OfMcp, OfWait, OfAdd, OfFollow, OfStream, OfWindow, OfAction, OfAbort,
         OfInputs, OfNode, OfProv, all, Wait!vars, Wait!platform, Wait!follower
  <2> QED
    BY <2>1, <2>2, WaitStep
<1>3. /\ I
      /\ chosen = "follow" => Follow!IInv
      /\ chosen = "nodeaction" => Node!IInv
      => ReturnsDone
  BY FollowImplies DEF ReturnsDone, Wait!IInv, Node!IInv
<1> QED
  BY <1>1, <1>2, <1>3, FollowBegins, FollowGoesOn, NodeBegins, NodeGoesOn, PTL DEF Spec
-----------------------------------------------------------------------------
(* The event stream of one entity. *)

\* What holds of a stream stands by itself, whichever component was chosen.
LEMMA StreamBegins ==
  ASSUME Stream!Parameters
  PROVE  Init => (chosen = "stream" => Stream!IInv)
BY Stream!InitHolds DEF Init

LEMMA StreamGoesOn ==
  ASSUME Stream!Parameters
  PROVE  (chosen = "stream" => Stream!IInv) /\ [Next]_all => (chosen = "stream" => Stream!IInv)'
<1> SUFFICES ASSUME chosen = "stream" => Stream!IInv, [Next]_all, chosen' = "stream"
             PROVE  Stream!IInv'
  OBVIOUS
<1>1. chosen = "stream" /\ [Stream!Next]_(Stream!vars)
  BY DEF Next, OfLaz, OfMcp, OfWait, OfAdd, OfFollow, OfStream, OfWindow, OfAction, OfAbort,
         OfInputs, OfNode, OfProv, all, Stream!vars, Stream!outage, Stream!clocks
<1> QED
  BY <1>1, Stream!StepHolds

\* A stream that stays down is given up on, whatever the delays and the limits.
THEOREM OutagesBounded ==
  ASSUME Stream!Parameters
  PROVE  Spec => []OutageBounded
<1>1. (chosen = "stream" => Stream!IInv) => OutageBounded
  BY Stream!Implies DEF OutageBounded
<1> QED
  BY <1>1, StreamBegins, StreamGoesOn, PTL DEF Spec

\* One is given up on only when it has delivered nothing for as long as an outage may last.
THEOREM GivenUpInTime ==
  ASSUME Stream!Parameters
  PROVE  Spec => []NotGivenUpEarly
<1>1. (chosen = "stream" => Stream!IInv) => NotGivenUpEarly
  BY Stream!Implies DEF NotGivenUpEarly
<1> QED
  BY <1>1, StreamBegins, StreamGoesOn, PTL DEF Spec

\* A stop is heeded, wherever it finds the thread: at most the event in hand is handled
\* after it, and at most the connection being made is made.
THEOREM StopIsHeeded ==
  ASSUME Stream!Parameters
  PROVE  Spec => []StopHeeded
<1>1. (chosen = "stream" => Stream!IInv) => StopHeeded
  BY Stream!Implies DEF StopHeeded
<1> QED
  BY <1>1, StreamBegins, StreamGoesOn, PTL DEF Spec
-----------------------------------------------------------------------------
(* What the window's commands act on, and what its discovery finds.  r1 is nested, r2
   inputs, r3 found, r4 invalid, r7 generation, r10 skip, r11 count, r12 last, r14
   shuttingDown, and r15 fields. *)

\* What becomes of the loops and dialogs: one is begun, the innermost returns, or some of
\* them are changed.
LEMMA WindowPushes ==
  ASSUME r1 \in Seq(Window!Frames), NEW f \in Window!Frames
  PROVE  /\ Append(r1, f) \in Seq(Window!Frames) /\ DOMAIN Append(r1, f) = 1 .. Len(r1) + 1
         /\ \A k \in DOMAIN r1 : Append(r1, f)[k] = r1[k]
         /\ Append(r1, f)[Len(r1) + 1] = f
OBVIOUS

LEMMA WindowPops ==
  ASSUME r1 \in Seq(Window!Frames), r1 # <<>>
  PROVE  /\ Window!Front(r1) \in Seq(Window!Frames)
         /\ DOMAIN Window!Front(r1) = 1 .. Len(r1) - 1
         /\ \A k \in DOMAIN Window!Front(r1) : k \in DOMAIN r1 /\ Window!Front(r1)[k] = r1[k]
         /\ Len(r1) \in DOMAIN r1 /\ Window!Top = r1[Len(r1)] /\ Window!Top \in Window!Frames
BY DEF Window!Front, Window!Top, Window!Last

LEMMA WindowChanges ==
  ASSUME r1 \in Seq(Window!Frames), NEW f, DOMAIN f = DOMAIN r1,
         f = [k \in DOMAIN f |-> f[k]],
         \A k \in DOMAIN r1 : f[k] \in Window!Frames
  PROVE  f \in Seq(Window!Frames)
<1>1. DOMAIN r1 = 1 .. Len(r1) /\ Len(r1) \in Nat
  OBVIOUS
<1>2. f \in [1 .. Len(r1) -> Window!Frames]
  BY <1>1
<1> QED
  BY <1>1, <1>2, SeqDef

\* Where the innermost returns, those that it was begun in stand as they were.
LEMMA WindowReturned ==
  ASSUME Window!IInv, r1 # <<>>, r1' = Window!Front(r1),
         UNCHANGED <<r2, r3, r4, r7, r14, r15>>, r10' \in BOOLEAN, r11' \in Nat,
         r10' = r10 \/ Len(r1) = 1
  PROVE  Window!IInv'
<1> USE DEF Window!IInv, Window!Types
<1>1. Window!Types'
  BY WindowPops
<1>2. Window!ActionInv'
  BY WindowPops DEF Window!ActionInv, Window!Suppressed
<1>3. Window!DiscoveryInv'
  BY WindowPops DEF Window!DiscoveryInv
<1> QED
  BY <1>1, <1>2, <1>3

\* Where one is begun that is neither an action's nor a discovery's.
LEMMA WindowBegun ==
  ASSUME Window!IInv, NEW f \in Window!Frames, f.kind \in {"show", "quit"},
         r1' = Append(r1, f), UNCHANGED <<r2, r3, r4, r7, r10, r11, r14, r15>>
  PROVE  Window!IInv'
<1> USE DEF Window!IInv, Window!Types
<1>1. Window!Types'
  BY WindowPushes
<1>2. Window!ActionInv'
  BY WindowPushes DEF Window!ActionInv, Window!Suppressed
<1>3. Window!DiscoveryInv'
  BY WindowPushes DEF Window!DiscoveryInv
<1> QED
  BY <1>1, <1>2, <1>3

\* Where a discovery is begun: it is of a later generation than any, with the last edit.
LEMMA WindowDiscovers ==
  ASSUME Window!IInv, Window!Discover, r2' \in Nat, r2' >= r2, r3' \in Nat \cup {Window!Nothing},
         r3' <= r3, r3' < r2', r4' \in BOOLEAN, UNCHANGED <<r10, r11, r14>>,
         r15' \in Nat, r15' = r15 \/ ~Window!Modal
  PROVE  Window!IInv'
<1> USE DEF Window!IInv, Window!Types, Window!Nothing
<1> DEFINE f == Window!Frame("discover", "none", r7', r2')
<1>1. /\ r7' = r7 + 1 /\ r7 \in Nat
      /\ r1' = r1 \/ r1' = Append(r1, f)
  BY DEF Window!Discover
<1>2. /\ f \in Window!Frames
      /\ f.kind = "discover" /\ f.of = r7' /\ f.from = r2' /\ f.act = "none"
  BY <1>1 DEF Window!Frame, Window!Frames, Window!Loops, Window!Results
<1> HIDE DEF f
<1>3. Window!Types'
  BY <1>1, <1>2, WindowPushes
<1>4. Window!ActionInv'
  <2>1. \A k \in DOMAIN r1 : r1[k].kind = "dialog" => r15' = r15
    BY DEF Window!Modal, Window!Loops
  <2> QED
    BY <1>1, <1>2, <2>1, WindowPushes DEF Window!ActionInv, Window!Suppressed
<1>5. \A k \in DOMAIN r1 : r1[k].of \in Nat /\ r1[k].from \in Nat
  <2>1. \A k \in DOMAIN r1 : r1[k] \in Window!Frames
    OBVIOUS
  <2> QED
    BY <2>1 DEF Window!Frames
<1>6. \A k \in DOMAIN r1 : r1[k].kind = "discover" =>
        /\ r1[k].of \in Nat /\ r1[k].from \in Nat
        /\ r1[k].of <= r7 /\ r1[k].from <= r2
  BY <1>5 DEF Window!DiscoveryInv
<1>7. CASE r1' = r1
  <2>1. Window!DiscoveryInv'
    BY <1>1, <1>7, <1>6 DEF Window!DiscoveryInv
  <2> QED
    BY <1>3, <1>4, <2>1
<1>8. CASE r1' = Append(r1, f)
  <2>1. \A k \in DOMAIN r1' :
          \/ r1'[k] = f /\ k = Len(r1) + 1
          \/ k \in DOMAIN r1 /\ r1'[k] = r1[k]
    BY <1>2, <1>8, WindowPushes
  <2>2. /\ r3' <= r2' /\ (r4' => r3' < r2')
        /\ r7' > r7 /\ r7' \in Nat /\ r3' < r2' /\ r2' >= r2 /\ r2 \in Nat
    BY <1>1 DEF Window!DiscoveryInv
  <2>3. \A k \in DOMAIN r1' : r1'[k].kind = "discover" =>
          /\ r1'[k].of <= r7' /\ r1'[k].from <= r2'
          /\ r1'[k].of = r7' => r3' < r1'[k].from
    <3> SUFFICES ASSUME NEW k \in DOMAIN r1', r1'[k].kind = "discover"
                 PROVE  /\ r1'[k].of <= r7' /\ r1'[k].from <= r2'
                        /\ r1'[k].of = r7' => r3' < r1'[k].from
      OBVIOUS
    <3>1. CASE r1'[k] = f
      BY <1>2, <2>2, <3>1
    <3>2. CASE k \in DOMAIN r1 /\ r1'[k] = r1[k]
      BY <1>6, <2>2, <3>2
    <3> QED
      BY <2>1, <3>1, <3>2
  <2>4. \A j, k \in DOMAIN r1' :
          /\ r1'[j].kind = "discover" /\ r1'[k].kind = "discover"
          /\ r1'[j].of = r1'[k].of
          => j = k
    <3> SUFFICES ASSUME NEW j \in DOMAIN r1', NEW k \in DOMAIN r1',
                        r1'[j].kind = "discover", r1'[k].kind = "discover",
                        r1'[j].of = r1'[k].of
                 PROVE  j = k
      OBVIOUS
    <3>1. \A i \in DOMAIN r1 : r1[i].kind = "discover" => r1[i].of # r7'
      BY <1>6, <2>2
    <3>2. CASE j \in DOMAIN r1 /\ r1'[j] = r1[j] /\ k \in DOMAIN r1 /\ r1'[k] = r1[k]
      BY <3>2 DEF Window!DiscoveryInv
    <3> QED
      BY <1>2, <2>1, <3>1, <3>2
  <2>5. Window!DiscoveryInv'
    BY <2>2, <2>3, <2>4 DEF Window!DiscoveryInv
  <2> QED
    BY <1>3, <1>4, <2>5
<1> QED
  BY <1>1, <1>7, <1>8

\* Where one of them is changed in what neither an action nor a discovery rests on.
LEMMA WindowEnds ==
  ASSUME Window!IInv, NEW k \in 1 .. MaxNested, Window!HelperEnds(k) \/ Window!TimesOut(k)
  PROVE  Window!IInv'
<1> USE DEF Window!IInv, Window!Types, Window!discovery
<1>1. PICK f \in Window!Frames :
        /\ k \in DOMAIN r1 /\ r1' = [r1 EXCEPT ![k] = f]
        /\ f.kind = r1[k].kind /\ f.kind \in Window!Loops
        /\ f.act = r1[k].act /\ f.of = r1[k].of /\ f.from = r1[k].from
        /\ f.kind = "list" => f.result # "running"
  <2>1. \A j \in DOMAIN r1 : r1[j] \in Window!Frames
    OBVIOUS
  <2>2. CASE Window!HelperEnds(k)
    <3>1. PICK r \in {"ok", "empty", "failed"} :
            /\ k \in DOMAIN r1 /\ r1[k].kind \in Window!Loops
            /\ r1' = [r1 EXCEPT ![k].result = r, ![k].quit = TRUE]
      BY <2>2 DEF Window!HelperEnds
    <3>2. r1' = [r1 EXCEPT ![k] = [r1[k] EXCEPT !.result = r, !.quit = TRUE]]
      BY <3>1
    <3>3. [r1[k] EXCEPT !.result = r, !.quit = TRUE] \in Window!Frames
      BY <2>1, <3>1 DEF Window!Frames, Window!Results
    <3> QED
      BY <2>1, <3>1, <3>2, <3>3 DEF Window!Frames
  <2>3. CASE Window!TimesOut(k)
    <3>1. /\ k \in DOMAIN r1 /\ r1[k].kind = "discover"
          /\ r1' = [r1 EXCEPT ![k] = [r1[k] EXCEPT !.late = TRUE, !.result = "failed",
                                                  !.quit = TRUE]]
      BY <2>3 DEF Window!TimesOut
    <3>2. [r1[k] EXCEPT !.late = TRUE, !.result = "failed", !.quit = TRUE] \in Window!Frames
      BY <2>1, <3>1 DEF Window!Frames, Window!Results
    <3> QED
      BY <2>1, <3>1, <3>2 DEF Window!Frames, Window!Loops
  <2> QED
    BY <2>2, <2>3
<1>2. UNCHANGED <<r2, r3, r4, r7, r10, r11, r14, r15>>
  BY DEF Window!HelperEnds, Window!TimesOut, Window!RunsNone
<1>3. Window!Types'
  BY <1>1, <1>2
<1>4. Window!ActionInv'
  BY <1>1, <1>2 DEF Window!ActionInv, Window!Suppressed, Window!Loops
<1>5. Window!DiscoveryInv'
  BY <1>1, <1>2 DEF Window!DiscoveryInv
<1> QED
  BY <1>3, <1>4, <1>5

LEMMA WindowAnswers ==
  ASSUME Window!IInv, NEW a \in {"yes", "no", "all"}, Window!Answers(a)
  PROVE  Window!IInv'
<1> USE DEF Window!IInv, Window!Types, Window!discovery
<1>1. PICK k \in DOMAIN r1 :
        /\ r1[k].kind \in {"dialog", "quit"}
        /\ r1' = [r1 EXCEPT ![k].quit = TRUE, ![k].act = IF a = "no" THEN "none" ELSE @,
                            ![k].late = a = "all"]
  BY DEF Window!Answers
<1>2. r1[k] \in Window!Frames
  OBVIOUS
<1> DEFINE f == [r1[k] EXCEPT !.quit = TRUE, !.act = IF a = "no" THEN "none" ELSE @,
                              !.late = a = "all"]
<1>3. /\ r1' = [r1 EXCEPT ![k] = f]
      /\ f \in Window!Frames
  BY <1>1, <1>2 DEF Window!Frames
<1>4. /\ f.kind = r1[k].kind /\ f.kind \in {"dialog", "quit"}
      /\ f.act \in {r1[k].act, "none"} /\ f.result = r1[k].result /\ f.of = r1[k].of
  BY <1>1, <1>2 DEF Window!Frames
<1>5. UNCHANGED <<r2, r3, r4, r7, r10, r11, r14, r15>>
  BY DEF Window!Answers, Window!RunsNone
<1> HIDE DEF f
<1>6. Window!Types'
  BY <1>3, <1>5
<1>7. DOMAIN r1' = DOMAIN r1 /\ r1'[k] = f /\ \A j \in DOMAIN r1 : j # k => r1'[j] = r1[j]
  BY <1>3
<1>8. f.kind = "dialog" => k = 1 /\ r1[k].of = r15'
  BY <1>1, <1>4, <1>5 DEF Window!ActionInv
<1>9. Window!ActionInv'
  BY <1>3, <1>4, <1>5, <1>7, <1>8 DEF Window!ActionInv, Window!Suppressed
<1>10. Window!DiscoveryInv'
  BY <1>3, <1>4, <1>5 DEF Window!DiscoveryInv
<1> QED
  BY <1>6, <1>9, <1>10

\* A command is run as its action begins, where the user is not to be asked; once what it
\* would act on could not be listed; or as the user agrees.
LEMMA WindowClicks ==
  ASSUME Window!IInv, NEW act \in Window!Acts, Window!Click(act)
  PROVE  Window!IInv' /\ Window!Agreed
<1> USE DEF Window!IInv, Window!Types, Window!discovery
<1>1. r1 = <<>>
  <2>1. \A k \in DOMAIN r1 : FALSE
    BY DEF Window!Click, Window!Clickable, Window!Modal, Window!InFlight
  <2>2. r1 \in Seq(Window!Frames)
    OBVIOUS
  <2> HIDE DEF Window!IInv, Window!Types, Window!discovery
  <2>3. Len(r1) = 0
    <3>1. DOMAIN r1 = 1 .. Len(r1) /\ Len(r1) \in Nat
      BY <2>2, LenProperties
    <3>2. 1 \notin 1 .. Len(r1)
      BY <2>1, <3>1
    <3> QED
      BY <3>1, <3>2
  <2> QED
    BY <2>2, <2>3, EmptySeq
<1>2. UNCHANGED <<r2, r3, r4, r7, r10, r14, r15>> /\ ~r14
  BY DEF Window!Click, Window!Clickable
<1>3. CASE Window!Suppressed(act) /\ act # "choose"
  <2>1. /\ r1' = r1 /\ r11' = r11 + 1 /\ r12' = [act |-> act, target |-> "scope", of |-> r15]
        /\ ~Window!InFlight
    BY <1>2, <1>3 DEF Window!Click, Window!Run, Window!RunsNone
  <2>2. Window!IInv'
    BY <1>1, <1>2, <2>1 DEF Window!ActionInv, Window!DiscoveryInv
  <2>3. Window!Agreed
    BY <1>2, <1>3, <2>1 DEF Window!Agreed
  <2> QED
    BY <2>2, <2>3
<1>4. CASE ~(Window!Suppressed(act) /\ act # "choose")
  <2> DEFINE f == Window!Frame("list", act, 0, r15)
  <2>1. r1' = Append(r1, f) /\ r11' = r11
    BY <1>4 DEF Window!Click, Window!RunsNone
  <2>2. f \in Window!Frames
    BY DEF Window!Frame, Window!Frames, Window!Loops, Window!Results, Window!Acts
  <2>3. f.kind = "list" /\ f.act = act /\ f.quit = FALSE
    BY DEF Window!Frame
  <2> HIDE DEF f
  <2>4. DOMAIN r1' = {1} /\ r1'[1] = f /\ r1' \in Seq(Window!Frames)
    BY <1>1, <2>1, <2>2, WindowPushes
  <2>5. Window!ActionInv'
    BY <1>2, <1>4, <2>3, <2>4 DEF Window!ActionInv, Window!Suppressed
  <2>6. Window!DiscoveryInv'
    BY <1>2, <2>3, <2>4 DEF Window!DiscoveryInv
  <2> QED
    BY <1>2, <2>1, <2>4, <2>5, <2>6 DEF Window!Agreed
<1> QED
  BY <1>3, <1>4

LEMMA WindowLists ==
  ASSUME Window!IInv, Window!ListReturns
  PROVE  Window!IInv' /\ Window!Agreed
<1> USE DEF Window!IInv, Window!Types, Window!discovery
<1>1. /\ r1 # <<>> /\ Window!Top = r1[Len(r1)] /\ Len(r1) \in DOMAIN r1
      /\ Window!Top \in Window!Frames /\ Window!Top.kind = "list" /\ Window!Top.quit
      /\ UNCHANGED <<r2, r3, r4, r7, r10, r14, r15>>
  BY WindowPops DEF Window!ListReturns, Window!Returns
<1>2. /\ Len(r1) = 1 /\ Window!Top.act \in Window!Acts
      /\ Window!Top.act = "destroy" => ~Window!Suppressed("destroy")
      /\ Window!Top.result = "running" => r14
  BY <1>1 DEF Window!ActionInv
<1>3. Window!Top.result \in {"running", "ok", "empty", "failed"}
  BY <1>1 DEF Window!Frames, Window!Results
<1>4. \/ Window!Pops /\ r11' = r11
      \/ Window!Asks /\ r11' = r11 /\ ~r14 /\ Window!Top.result \in {"ok", "failed"}
      \/ Window!Pops /\ Window!Run("download", "scope") /\ (~r14 => Window!Top.result = "failed")
         /\ Window!Top.act = "download"
      \/ Window!Pops /\ Window!Run("choose", "listed") /\ Window!Top.result = "ok" /\ Unattended
  <2> DEFINE result == IF r14 \/ Window!Top.result = "running" THEN "failed"
                       ELSE Window!Top.result
  <2>1. CASE result = "empty"
    BY <2>1 DEF Window!ListReturns, Window!Ends, Window!RunsNone
  <2>2. CASE result # "empty" /\ Window!Top.act = "destroy"
    <3>1. Window!DestroyListed(result)
      BY <2>2 DEF Window!ListReturns
    <3> QED
      BY <1>2, <1>3, <2>2, <3>1 DEF Window!DestroyListed, Window!Ends, Window!Asked, Window!RunsNone
  <2>3. CASE result # "empty" /\ Window!Top.act = "download"
    <3>1. Window!DownloadListed(result)
      BY <2>3 DEF Window!ListReturns
    <3> QED
      BY <1>2, <1>3, <2>3, <3>1 DEF Window!DownloadListed, Window!Asked, Window!RunsNone
  <2>4. CASE result # "empty" /\ Window!Top.act = "choose"
    <3>1. Window!ChooseListed(result)
      BY <2>4 DEF Window!ListReturns
    <3> QED
      BY <1>2, <1>3, <2>4, <3>1 DEF Window!ChooseListed, Window!Ends, Window!Asked, Window!RunsNone
  <2> QED
    BY <1>2, <2>1, <2>2, <2>3, <2>4 DEF Window!Acts
<1>5. CASE Window!Asks /\ r11' = r11 /\ ~r14 /\ Window!Top.result \in {"ok", "failed"}
  <2> DEFINE f == [Window!Top EXCEPT !.kind = "dialog", !.quit = FALSE, !.of = r15]
  <2>1. f \in Window!Frames /\ f.kind = "dialog" /\ f.act = Window!Top.act
        /\ f.result = Window!Top.result /\ f.of = r15
    BY <1>1 DEF Window!Frames
  <2>2. r1' = Append(Window!Front(r1), f)
    BY <1>5 DEF Window!Asks
  <2> HIDE DEF f
  <2>3. Window!Front(r1) = <<>>
    BY <1>2, WindowPops
  <2>4. r1' \in Seq(Window!Frames) /\ DOMAIN r1' = {1} /\ r1'[1] = f
    BY <2>1, <2>2, <2>3
  <2>5. Window!ActionInv'
    BY <1>1, <1>2, <1>5, <2>1, <2>4 DEF Window!ActionInv
  <2>6. Window!DiscoveryInv'
    BY <1>1, <2>1, <2>4 DEF Window!DiscoveryInv
  <2> QED
    BY <1>1, <1>5, <2>4, <2>5, <2>6 DEF Window!Agreed
<1>6. CASE Window!Pops /\ r11' = r11
  BY <1>1, <1>6, WindowReturned DEF Window!Agreed, Window!Pops
<1>7. CASE /\ Window!Pops /\ Window!Run("download", "scope") /\ Window!Top.act = "download"
           /\ ~r14 => Window!Top.result = "failed"
  <2>1. r11' = r11 \/ (~r14 /\ r11' = r11 + 1 /\ r12' = [act |-> "download", target |-> "scope", of |-> r15])
    BY <1>7 DEF Window!Run, Window!RunsNone
  <2>2. Window!IInv'
    BY <1>1, <1>7, <2>1, WindowReturned DEF Window!Pops
  <2>3. Window!Agreed
    BY <1>1, <1>7, <2>1 DEF Window!Agreed
  <2> QED
    BY <2>2, <2>3
<1>8. CASE Window!Pops /\ Window!Run("choose", "listed") /\ Window!Top.result = "ok" /\ Unattended
  <2>1. r11' = r11 \/ (~r14 /\ r11' = r11 + 1 /\ r12' = [act |-> "choose", target |-> "listed", of |-> r15])
    BY <1>8 DEF Window!Run, Window!RunsNone
  <2>2. Window!IInv'
    BY <1>1, <1>8, <2>1, WindowReturned DEF Window!Pops
  <2>3. Window!Agreed
    BY <1>1, <1>8, <2>1 DEF Window!Agreed
  <2> QED
    BY <2>2, <2>3
<1> QED
  BY <1>4, <1>5, <1>6, <1>7, <1>8

LEMMA WindowAgrees ==
  ASSUME Window!IInv, Window!DialogReturns
  PROVE  Window!IInv' /\ Window!Agreed
<1> USE DEF Window!IInv, Window!Types, Window!discovery
<1>1. /\ r1 # <<>> /\ Window!Top = r1[Len(r1)] /\ Len(r1) \in DOMAIN r1
      /\ Window!Top \in Window!Frames /\ Window!Top.kind = "dialog"
      /\ UNCHANGED <<r2, r3, r4, r7, r14, r15>> /\ r1' = Window!Front(r1)
  BY WindowPops DEF Window!DialogReturns, Window!Returns, Window!Pops
<1>2. Len(r1) = 1 /\ Window!Top.result \in {"ok", "failed"} /\ Window!Top.of = r15
  BY <1>1 DEF Window!ActionInv
<1>3. \/ r11' = r11
      \/ /\ ~r14 /\ r11' = r11 + 1
         /\ r12' = [act |-> Window!Top.act, of |-> r15,
                    target |-> IF Window!Top.result = "ok" THEN "listed" ELSE "scope"]
  BY <1>2 DEF Window!DialogReturns, Window!Run, Window!RunsNone
<1>4. r10' \in BOOLEAN
  BY <1>1 DEF Window!DialogReturns, Window!Frames
<1>5. Window!IInv'
  BY <1>1, <1>2, <1>3, <1>4, WindowReturned
<1>6. Window!Agreed
  BY <1>1, <1>2, <1>3 DEF Window!Agreed
<1> QED
  BY <1>5, <1>6

\* What is found is of the discovery begun last, and so of a later edit than what it
\* replaces.
LEMMA WindowFinds ==
  ASSUME Window!IInv, Window!DiscoverReturns
  PROVE  Window!IInv' /\ Window!Newer
<1> USE DEF Window!IInv, Window!Types, Window!discovery
<1>1. /\ r1 # <<>> /\ Window!Top = r1[Len(r1)] /\ Len(r1) \in DOMAIN r1
      /\ Window!Top \in Window!Frames /\ Window!Top.kind = "discover"
      /\ r1' = Window!Front(r1) /\ UNCHANGED <<r2, r7, r10, r11, r14, r15>>
  BY WindowPops DEF Window!DiscoverReturns, Window!Returns, Window!Pops, Window!RunsNone
<1>2. \/ UNCHANGED <<r3, r4>>
      \/ Window!Top.of = r7 /\ r3' = Window!Top.from /\ r4' = FALSE
  BY DEF Window!DiscoverReturns, Window!RunsNone
<1>3. CASE UNCHANGED <<r3, r4>>
  BY <1>1, <1>3, WindowReturned DEF Window!Newer
<1>4. CASE Window!Top.of = r7 /\ r3' = Window!Top.from /\ r4' = FALSE
  <2>1. r3 < Window!Top.from /\ Window!Top.from <= r2 /\ Window!Top.from \in Nat
    BY <1>1, <1>4 DEF Window!DiscoveryInv, Window!Frames
  <2>2. Window!Types'
    BY <1>1, <1>4, <2>1, WindowPops
  <2>3. Window!ActionInv'
    BY <1>1, WindowPops DEF Window!ActionInv, Window!Suppressed
  <2>4. \A k \in DOMAIN r1' : /\ k \in DOMAIN r1 /\ r1'[k] = r1[k]
                              /\ r1'[k].kind = "discover" => r1'[k].of # r7
    <3>1. \A k \in DOMAIN r1' : k \in DOMAIN r1 /\ k # Len(r1) /\ r1'[k] = r1[k]
      BY <1>1, WindowPops
    <3> QED
      BY <1>1, <1>4, <3>1 DEF Window!DiscoveryInv
  <2>5. Window!DiscoveryInv'
    BY <1>1, <1>4, <2>1, <2>4 DEF Window!DiscoveryInv
  <2> QED
    BY <1>4, <2>1, <2>2, <2>3, <2>5 DEF Window!Newer
<1> QED
  BY <1>2, <1>3, <1>4

LEMMA WindowEdits ==
  ASSUME Window!IInv,
         \/ Window!Edit \/ Window!ConfigChanges \/ Window!Chooses \/ Window!Deselects
         \/ Window!Debounced \/ Window!Retries
  PROVE  Window!IInv' /\ Window!Newer
<1> USE DEF Window!discovery
<1>1. Window!Types /\ Window!DiscoveryInv
  BY DEF Window!IInv
<1>2. /\ r2 \in Nat /\ r15 \in Nat /\ r3 \in Nat \cup {-1} /\ r4 \in BOOLEAN /\ r7 \in Nat
      /\ r3 <= r2 /\ (r4 => r3 < r2)
  BY <1>1 DEF Window!Types, Window!DiscoveryInv, Window!Nothing
<1>3. CASE Window!Edit
  <2>1. /\ UNCHANGED <<r1, r3, r7, r10, r11, r14>> /\ r2' = r2 + 1 /\ r4' = TRUE
        /\ r15' = r2 + 1 /\ ~Window!Modal
    BY <1>3 DEF Window!Edit, Window!Clickable, Window!RunsNone
  <2>2. Window!Types'
    BY <1>1, <1>2, <2>1 DEF Window!Types
  <2>3. Window!ActionInv'
    <3>1. \A k \in DOMAIN r1 : r1[k].kind # "dialog"
      BY <2>1 DEF Window!Modal, Window!Loops
    <3> QED
      BY <2>1, <3>1 DEF Window!IInv, Window!ActionInv, Window!Suppressed
  <2>4. \A k \in DOMAIN r1 : r1[k].kind = "discover" => r1[k].from <= r2 + 1
    <3>1. \A k \in DOMAIN r1 : r1[k] \in Window!Frames
      BY <1>1 DEF Window!Types
    <3>2. \A k \in DOMAIN r1 : r1[k].from \in Nat
      BY <3>1 DEF Window!Frames
    <3> QED
      BY <1>1, <1>2, <3>2 DEF Window!DiscoveryInv
  <2>5. Window!DiscoveryInv'
    BY <1>1, <1>2, <2>1, <2>4 DEF Window!DiscoveryInv
  <2> QED
    BY <2>1, <2>2, <2>3, <2>5 DEF Window!IInv, Window!Newer
<1>4. CASE \/ Window!Discover
           \/ Window!Debounced /\ UNCHANGED <<r1, r4, r7>>
           \/ Window!Retries /\ UNCHANGED <<r1, r4, r7>>
  <2>1. CASE Window!Discover
    <3>1. /\ r3' \in {r3, -1} /\ r4' \in BOOLEAN /\ r2' \in {r2, r2 + 1}
          /\ r2' = r2 => r3' = r3 /\ r3 < r2
          /\ UNCHANGED <<r10, r11, r14>>
          /\ r15' = r15 \/ (r15' = r2 + 1 /\ ~Window!Modal)
      <4>1. r7' # r7
        BY <1>2, <2>1 DEF Window!Discover
      <4>2. ~Window!Edit
        BY <4>1 DEF Window!Edit, Window!RunsNone
      <4>3. CASE Window!ConfigChanges
        BY <1>2, <4>3 DEF Window!ConfigChanges, Window!RunsNone
      <4>4. CASE Window!Chooses \/ Window!Deselects
        <5>1. Window!Selects /\ r3' \in {r3, -1}
          BY <4>4 DEF Window!Chooses, Window!Deselects, Window!Nothing
        <5>2. /\ r2' = r2 + 1 /\ r15' = r2 + 1 /\ ~Window!Modal /\ r4' = TRUE
              /\ UNCHANGED <<r10, r11, r14>>
          BY <5>1 DEF Window!Selects, Window!Clickable, Window!RunsNone
        <5> QED
          BY <1>2, <5>1, <5>2
      <4>5. CASE Window!Debounced
        BY <1>2, <4>1, <4>5 DEF Window!Debounced, Window!RunsNone
      <4>6. CASE Window!Retries
        BY <1>2, <4>1, <4>6 DEF Window!Retries, Window!RunsNone
      <4> QED
        BY <4>2, <4>3, <4>4, <4>5, <4>6
    <3>2. r2' \in Nat /\ r2' >= r2 /\ r3' \in Nat \cup {-1} /\ r3' <= r3 /\ r3' < r2'
      BY <1>2, <3>1
    <3>3. Window!IInv'
      BY <1>2, <2>1, <3>1, <3>2, WindowDiscovers DEF Window!Nothing
    <3> QED
      BY <3>1, <3>3 DEF Window!Newer, Window!Nothing
  <2>2. CASE (Window!Debounced \/ Window!Retries) /\ UNCHANGED <<r1, r4, r7>>
    <3>1. UNCHANGED <<r1, r2, r3, r4, r7, r10, r11, r14, r15>>
      BY <2>2 DEF Window!Debounced, Window!Retries, Window!RunsNone
    <3>2. Window!IInv'
      BY <3>1 DEF Window!IInv, Window!Types, Window!ActionInv, Window!Suppressed,
                  Window!DiscoveryInv
    <3> QED
      BY <3>1, <3>2 DEF Window!Newer
  <2> QED
    BY <1>4, <2>1, <2>2
<1>5. \/ Window!Edit \/ Window!Discover
      \/ Window!Debounced /\ UNCHANGED <<r1, r4, r7>>
      \/ Window!Retries /\ UNCHANGED <<r1, r4, r7>>
  <2>1. Window!ConfigChanges \/ Window!Chooses \/ Window!Deselects => Window!Discover
    BY DEF Window!ConfigChanges, Window!Chooses, Window!Deselects, Window!Selects
  <2>2. Window!Debounced => Window!Discover \/ UNCHANGED <<r1, r4, r7>>
    BY DEF Window!Debounced, Window!RunsNone
  <2>3. Window!Retries => Window!Discover \/ UNCHANGED <<r1, r4, r7>>
    BY DEF Window!Retries, Window!RunsNone
  <2> QED
    BY <2>1, <2>2, <2>3
<1> QED
  BY <1>3, <1>4, <1>5

LEMMA WindowCloses ==
  ASSUME Window!IInv, Window!Close \/ Window!QuitReturns
  PROVE  Window!IInv'
<1> USE DEF Window!IInv, Window!Types, Window!discovery
<1>1. ASSUME NEW frames \in Seq(Window!Frames), DOMAIN frames \subseteq DOMAIN r1,
             \A k \in DOMAIN frames : frames[k] = r1[k], Window!ShutsDown(frames)
      PROVE  Window!IInv'
  <2>1. /\ r14' = TRUE /\ r1' = Window!Released(frames)
        /\ UNCHANGED <<r2, r3, r4, r7, r10, r11, r15>>
    BY <1>1 DEF Window!ShutsDown, Window!RunsNone
  <2>2. /\ DOMAIN r1' = DOMAIN frames
        /\ \A k \in DOMAIN frames :
             r1'[k] = [frames[k] EXCEPT !.quit = @ \/ frames[k].kind \in Window!Loops]
    BY <2>1 DEF Window!Released
  <2>3. \A k \in DOMAIN frames : frames[k] \in Window!Frames
    BY <1>1
  <2>4. \A k \in DOMAIN frames :
          /\ r1'[k] \in Window!Frames
          /\ r1'[k].kind = frames[k].kind /\ r1'[k].act = frames[k].act
          /\ r1'[k].result = frames[k].result
          /\ r1'[k].of = frames[k].of /\ r1'[k].from = frames[k].from
    <3> TAKE k \in DOMAIN frames
    <3> DEFINE q == frames[k].quit \/ frames[k].kind \in Window!Loops
    <3>1. q \in BOOLEAN /\ r1'[k] = [frames[k] EXCEPT !.quit = q]
      BY <2>2, Zenon
    <3> HIDE DEF q
    <3> QED
      BY <2>3, <3>1 DEF Window!Frames
  <2>5. r1' \in Seq(Window!Frames)
    <3>1. DOMAIN frames = 1 .. Len(frames) /\ Len(frames) \in Nat
      BY <1>1
    <3>2. r1' \in [1 .. Len(frames) -> Window!Frames]
      BY <2>1, <2>4, <3>1 DEF Window!Released
    <3> QED
      BY <3>1, <3>2, SeqDef
  <2>6. Window!Types'
    BY <2>1, <2>5
  <2>7. Window!ActionInv'
    <3>1. /\ DOMAIN r1' \subseteq DOMAIN r1 /\ r14' = TRUE /\ r10' = r10 /\ r15' = r15
          /\ \A k \in DOMAIN r1' :
               /\ r1'[k].kind = r1[k].kind /\ r1'[k].act = r1[k].act
               /\ r1'[k].result = r1[k].result /\ r1'[k].of = r1[k].of
      BY <1>1, <2>1, <2>2, <2>4
    <3> QED
      BY <3>1 DEF Window!ActionInv, Window!Suppressed
  <2>8. Window!DiscoveryInv'
    BY <1>1, <2>1, <2>2, <2>4 DEF Window!DiscoveryInv
  <2> QED
    BY <2>6, <2>7, <2>8
<1>2. CASE Window!Close
  <2> DEFINE f == Window!Frame("quit", "quit", 0, 0)
  <2>1. f \in Window!Frames /\ f.kind = "quit"
    BY DEF Window!Frame, Window!Frames, Window!Loops, Window!Results
  <2>2. \/ Window!ShutsDown(r1)
        \/ r1' = Append(r1, f) /\ UNCHANGED <<r2, r3, r4, r7, r10, r11, r14, r15>>
    BY <1>2 DEF Window!Close, Window!RunsNone
  <2> HIDE DEF f
  <2> QED
    BY <1>1, <2>1, <2>2, WindowBegun
<1>3. CASE Window!QuitReturns
  <2>1. r1 # <<>>
    BY <1>3 DEF Window!QuitReturns, Window!Returns
  <2>2. \/ Window!ShutsDown(Window!Front(r1))
        \/ r1' = Window!Front(r1) /\ UNCHANGED <<r2, r3, r4, r7, r10, r11, r14, r15>>
    BY <1>3 DEF Window!QuitReturns, Window!Pops, Window!RunsNone
  <2> QED
    BY <1>1, <2>1, <2>2, WindowPops, WindowReturned
<1> QED
  BY <1>2, <1>3

LEMMA WindowStep ==
  ASSUME Window!IInv, [Window!Next]_(Window!vars)
  PROVE  Window!IInv' /\ Window!Agreed /\ Window!Newer
<1> USE DEF Window!discovery
<1>1. CASE \E act \in Window!Acts : Window!Click(act)
  <2>1. r3' = r3
    BY <1>1 DEF Window!Click, Window!RunsNone
  <2> QED
    BY <1>1, <2>1, WindowClicks DEF Window!Newer
<1>2. CASE Window!ListReturns
  <2>1. r3' = r3
    BY <1>2 DEF Window!ListReturns
  <2> QED
    BY <1>2, <2>1, WindowLists DEF Window!Newer
<1>3. CASE Window!DialogReturns
  <2>1. r3' = r3
    BY <1>3 DEF Window!DialogReturns
  <2> QED
    BY <1>3, <2>1, WindowAgrees DEF Window!Newer
<1>4. CASE Window!DiscoverReturns
  <2>1. r11' = r11
    BY <1>4 DEF Window!DiscoverReturns, Window!RunsNone
  <2> QED
    BY <1>4, <2>1, WindowFinds DEF Window!Agreed
<1>5. CASE Window!Edit \/ Window!ConfigChanges \/ Window!Chooses \/ Window!Deselects
           \/ Window!Debounced \/ Window!Retries
  <2>1. r11' = r11
    BY <1>5 DEF Window!Edit, Window!ConfigChanges, Window!Chooses, Window!Deselects,
                Window!Selects, Window!Debounced, Window!Retries, Window!RunsNone
  <2> QED
    BY <1>5, <2>1, WindowEdits DEF Window!Agreed
<1>6. CASE Window!Close \/ Window!QuitReturns
  <2>1. r11' = r11 /\ r3' = r3
    BY <1>6 DEF Window!Close, Window!QuitReturns, Window!ShutsDown, Window!RunsNone
  <2> QED
    BY <1>6, <2>1, WindowCloses DEF Window!Agreed, Window!Newer
<1>7. CASE \E k \in 1 .. MaxNested : Window!HelperEnds(k) \/ Window!TimesOut(k)
  <2>1. r11' = r11 /\ r3' = r3
    BY <1>7 DEF Window!HelperEnds, Window!TimesOut, Window!RunsNone
  <2> QED
    BY <1>7, <2>1, WindowEnds DEF Window!Agreed, Window!Newer
<1>8. CASE \E a \in {"yes", "no", "all"} : Window!Answers(a)
  <2>1. r11' = r11 /\ r3' = r3
    BY <1>8 DEF Window!Answers, Window!RunsNone
  <2> QED
    BY <1>8, <2>1, WindowAnswers DEF Window!Agreed, Window!Newer
<1>9. CASE Window!Show
  <2> DEFINE f == Window!Frame("show", "none", 0, 0)
  <2>1. f \in Window!Frames /\ f.kind = "show"
    BY DEF Window!Frame, Window!Frames, Window!Loops, Window!Results
  <2>2. r1' = Append(r1, f) /\ UNCHANGED <<r2, r3, r4, r7, r10, r11, r14, r15>>
    BY <1>9 DEF Window!Show, Window!RunsNone
  <2> HIDE DEF f
  <2>3. Window!IInv'
    BY <2>1, <2>2, WindowBegun DEF Window!IInv, Window!Types
  <2> QED
    BY <2>2, <2>3 DEF Window!Agreed, Window!Newer
<1>10. CASE Window!ShowReturns
  <2>1. /\ r1 # <<>> /\ r1' = Window!Front(r1)
        /\ UNCHANGED <<r2, r3, r4, r7, r10, r11, r14, r15>>
    BY <1>10 DEF Window!ShowReturns, Window!Returns, Window!Pops, Window!RunsNone
  <2>2. Window!IInv'
    BY <2>1, WindowReturned DEF Window!IInv, Window!Types
  <2> QED
    BY <2>1, <2>2 DEF Window!Agreed, Window!Newer
<1>11. CASE Window!CommandEnds \/ UNCHANGED Window!vars
  <2>1. UNCHANGED <<r1, r2, r3, r4, r7, r10, r11, r14, r15>>
    BY <1>11 DEF Window!CommandEnds, Window!vars, Window!commands
  <2>2. Window!IInv'
    BY <2>1 DEF Window!IInv, Window!Types, Window!ActionInv, Window!Suppressed,
                Window!DiscoveryInv
  <2> QED
    BY <2>1, <2>2 DEF Window!Agreed, Window!Newer
<1> QED
  BY <1>1, <1>2, <1>3, <1>4, <1>5, <1>6, <1>7, <1>8, <1>9, <1>10, <1>11
  DEF Window!Next, Window!Timer, Window!Return

LEMMA WindowInit ==
  ASSUME Window!Parameters
  PROVE  Window!Init => Window!IInv
<1> SUFFICES ASSUME Window!Init PROVE Window!IInv
  OBVIOUS
<1> DEFINE f == Window!Frame("discover", "none", 1, 0)
<1>1. /\ f \in Window!Frames /\ f.kind = "discover" /\ f.act = "none" /\ f.of = 1
      /\ f.from = 0
  BY DEF Window!Frame, Window!Frames, Window!Loops, Window!Results
<1>2. /\ r1 = <<f>> /\ r2 = 0 /\ r3 = -1 /\ r4 = TRUE /\ r7 = 1 /\ r10 = FALSE /\ r11 = 0
      /\ r14 = FALSE /\ r15 = 0
  BY DEF Window!Init, Window!Undiscovered, Window!Nothing
<1> HIDE DEF f
<1>3. DOMAIN r1 = {1} /\ r1[1] = f /\ r1 \in Seq(Window!Frames)
  BY <1>1, <1>2
<1>4. Window!Types
  BY <1>2, <1>3 DEF Window!Types, Window!Nothing
<1>5. Window!ActionInv
  BY <1>1, <1>3 DEF Window!ActionInv
<1>6. Window!DiscoveryInv
  BY <1>1, <1>2, <1>3 DEF Window!DiscoveryInv
<1> QED
  BY <1>4, <1>5, <1>6 DEF Window!IInv

LEMMA WindowBegins ==
  ASSUME Window!Parameters
  PROVE  Init => (chosen = "commander" => Window!IInv)
BY WindowInit DEF Init

LEMMA WindowGoesOn ==
  /\ chosen = "commander" => Window!IInv
  /\ [Next]_all
  => /\ (chosen = "commander" => Window!IInv)'
     /\ chosen = "commander" => Window!Agreed /\ Window!Newer
<1> SUFFICES ASSUME chosen = "commander" => Window!IInv, [Next]_all
             PROVE  /\ (chosen = "commander" => Window!IInv)'
                    /\ chosen = "commander" => Window!Agreed /\ Window!Newer
  OBVIOUS
<1>1. /\ chosen' = chosen
      /\ chosen = "commander" => [Window!Next]_(Window!vars)
  BY DEF Next, OfLaz, OfMcp, OfWait, OfAdd, OfFollow, OfStream, OfWindow, OfAction, OfAbort,
         OfInputs, OfNode, OfProv, all, Window!vars, Window!discovery, Window!commands
<1> QED
  BY <1>1, WindowStep

\* A command of the window acts on what the user was shown and agreed to, and none is
\* begun as the window closes, however its loops and dialogs are nested.
THEOREM CommandsAgreed ==
  ASSUME Window!Parameters
  PROVE  Spec => ActsOnWhatWasAgreed
<1>1. (chosen = "commander" => Window!IInv) /\ [Next]_all
      => [chosen = "commander" => Window!Agreed]_all
  BY WindowGoesOn
<1> QED
  BY <1>1, WindowBegins, WindowGoesOn, PTL DEF Spec, ActsOnWhatWasAgreed

\* A discovery's findings are never replaced by those of one begun before it, though that
\* may return after.
THEOREM FoundIsNewer ==
  ASSUME Window!Parameters
  PROVE  Spec => NewerStands
<1>1. (chosen = "commander" => Window!IInv) /\ [Next]_all
      => [chosen = "commander" => Window!Newer]_all
  BY WindowGoesOn
<1> QED
  BY <1>1, WindowBegins, WindowGoesOn, PTL DEF Spec, NewerStands
=============================================================================
