------------------------- MODULE TaskBatches_proofs -------------------------
(***************************************************************************)
(* Proofs about TaskBatches, for every number of Tasks, batch size, thread *)
(* count and retry limit, and for any number of interrupts.                *)
(***************************************************************************)
EXTENDS TaskBatches, TLAPS

\* A retry always has an attempt left to make.
AttemptInv == \A b \in Batch : state[b] = "backoff" => attempt[b] < MaxAttempts - 1

\* Where the main thread can be, and the batches it has not built yet.
MainInv ==
  /\ pc \in {"build", "total", "exit"} => ~InTurn
  /\ pc = "send" => InTurn
  /\ InTurn => cursor = next
  /\ pc \in {"build", "send"} => next < NumBatches
  /\ \A b \in Batch : b > next => state[b] = "unbuilt"
  /\ next \in Batch /\ (~InTurn \/ pc = "loop") => state[next] = "unbuilt"

\* No request for a batch goes out before a thread has let it past its check.
UnsentInv ==
  \A b \in Batch : BeforeCheck(b) \/ state[b] = "checked" => Unsent(b)

\* Copies on the Platform, and those that lost requests may still make.
PlatformInv ==
  \A b \in Batch :
    /\ b \in Named => copies[b] <= 1
    /\ b \notin Named => copies[b] + late[b] <= 1
    /\ b \notin Named /\ state[b] \notin {"added", "failing", "failed"} =>
         copies[b] + late[b] = 0
    /\ state[b] = "added" => copies[b] = 1 /\ (b \notin Named => late[b] = 0)

\* The stop event is set for a reason that total() is going to raise.
StopInv ==
  /\ stop => failure # "none" \/ \E b \in Batch : b < next /\ state[b] = "failed"
  /\ \A b \in Batch : state[b] = "skipped" => stop
  /\ pc = "total" => stop \/ next = NumBatches

\* While nothing has failed, what has been counted is what has been added.
ReadInv ==
  failure = "none" =>
    /\ \A b \in Batch : b < cursor => state[b] \in {"added", "skipped"}
    /\ InTurn => \A b \in Batch : b < cursor => state[b] = "added"
    /\ (\A b \in Batch : b < cursor => state[b] = "added") => total = Upto(cursor)
    /\ pc \in {"exit", "done"} =>
         total = NumTasks /\ \A b \in Batch : state[b] = "added"

\* After a failure, what keeps any batch from being begun; how a call ends.
FailInv ==
  /\ ~InTurn => /\ failure \in {"batch", "build"} => stop
                /\ \A b \in Batch : state[b] = "failed" => stop
  /\ InTurn => /\ failure # "none" => pc = "done"
               /\ \A b \in Batch : state[b] \notin {"queued", "taken"}
               /\ \A b \in Batch : b < next => state[b] \in Finished
  /\ interrupts > 0 => failure # "none"
  /\ NoneUnderWay

IInv ==
  /\ TypeOK
  /\ total <= Upto(cursor)
  /\ AttemptInv /\ MainInv /\ UnsentInv /\ StopInv /\ ReadInv /\ FailInv
-----------------------------------------------------------------------------
(* The batches partition the Tasks. *)

\* Every batch starts at a Task there is, and the last one ends with the last.
LEMMA BatchesCover ==
  /\ NumBatches \in Nat
  /\ BatchSize * NumBatches >= NumTasks
  /\ \A b \in Batch : BatchSize * b < NumTasks
<1> DEFINE N == NumTasks + BatchSize - 1
<1>1. /\ N \in Nat /\ BatchSize \in Nat \ {0}
  BY Parameters
<1>2. /\ NumBatches = N \div BatchSize
      /\ NumBatches \in Int
  BY <1>1 DEF NumBatches
<1>3. BatchSize * NumBatches <= N /\ N < BatchSize * NumBatches + BatchSize
  BY <1>1, <1>2
<1>4. NumBatches \in Nat
  BY <1>1, <1>2
<1>5. ASSUME NEW b \in Batch PROVE BatchSize * b < NumTasks
  <2>1. b \in Nat /\ b + 1 <= NumBatches
    BY <1>4 DEF Batch
  <2>2. BatchSize * b + BatchSize <= BatchSize * NumBatches
    BY <1>1, <1>4, <2>1
  <2> QED
    BY <1>1, <1>3, <1>4, <2>1, <2>2, Parameters
<1> QED
  BY <1>1, <1>3, <1>4, <1>5, Parameters

\* Counting a batch's Tasks moves the total from one batch's start to the next.
LEMMA Counting ==
  /\ Upto(0) = 0
  /\ Upto(NumBatches) = NumTasks
  /\ \A n \in Nat : Upto(n) \in 0 .. NumTasks /\ Upto(n) <= Upto(n + 1)
  /\ \A b \in Batch : Upto(b) + Length(b) = Upto(b + 1) /\ Length(b) \in Nat
<1>1. BatchSize \in Nat \ {0} /\ NumTasks \in Nat
  BY Parameters
<1>2. \A n \in Nat : BatchSize * n \in Nat /\ BatchSize * (n + 1) = BatchSize * n + BatchSize
  BY <1>1
<1>3. BatchSize * 0 = 0
  BY <1>1
<1> QED
  BY <1>1, <1>2, <1>3, BatchesCover DEF Upto, Length, Batch

-----------------------------------------------------------------------------
(* The types of the counters, by the actions that change one. *)

\* Counting one more for a batch.
LEMMA Incremented ==
  ASSUME NEW f \in [Batch -> Nat], NEW b \in Batch
  PROVE  [f EXCEPT ![b] = @ + 1] \in [Batch -> Nat]
OBVIOUS

\* The counters kept for each batch.
LEMMA CounterTypes ==
  ASSUME TypeOK, AttemptInv, MainInv, [Next]_vars
  PROVE  /\ copies' \in [Batch -> Nat] /\ late' \in [Batch -> Nat]
         /\ attempt' \in [Batch -> 0 .. MaxAttempts - 1]
<1>1. /\ copies \in [Batch -> Nat] /\ late \in [Batch -> Nat]
      /\ attempt \in [Batch -> 0 .. MaxAttempts - 1]
  BY DEF TypeOK
<1>2. ASSUME NEW b \in Batch, Succeeds(b) PROVE copies' \in [Batch -> Nat]
  BY <1>1, <1>2, Incremented DEF Succeeds
<1>3. ASSUME NEW b \in Batch, TimesOut(b) \/ LosesResponse(b)
      PROVE  late' \in [Batch -> Nat]
  <2>1. late' = [late EXCEPT ![b] = @ + 1]
    BY <1>3 DEF TimesOut, LosesResponse
  <2> QED
    BY <1>1, <2>1, Incremented
<1>4. ASSUME NEW b \in Batch, Retry(b)
      PROVE  attempt' \in [Batch -> 0 .. MaxAttempts - 1]
  <2>1. attempt[b] + 1 \in 0 .. MaxAttempts - 1
    BY <1>1, <1>4, Parameters DEF Retry, AttemptInv
  <2> QED
    BY <1>1, <1>4, <2>1 DEF Retry
<1>5. ASSUME NEW b \in Batch, CarryOutLate(b)
      PROVE  copies' \in [Batch -> Nat] /\ late' \in [Batch -> Nat]
  <2>1. copies[b] + 1 \in Nat /\ copies[b] \in Nat /\ late[b] - 1 \in Nat
    BY <1>1, <1>5 DEF CarryOutLate
  <2> QED
    BY <1>1, <1>5, <2>1 DEF CarryOutLate
<1>6. ASSUME InterruptSend PROVE late' \in [Batch -> Nat]
  <2>1. next \in Batch
    BY <1>6, BatchesCover DEF InterruptSend, MainInv, TypeOK, Batch
  <2>2. late[next] + 1 \in Nat /\ late[next] \in Nat
    BY <1>1, <2>1
  <2> QED
    BY <1>1, <1>6, <2>1, <2>2 DEF InterruptSend
<1>7. CASE UNCHANGED vars
  BY <1>1, <1>7 DEF vars, platform
<1>8. CASE MainStep
  BY <1>1, <1>8 DEF MainStep, CheckStopped, Build, BuildFails, ReadResult, TotalRead,
     ExitPool, BuildInTurn, FailsInTurn, SentInTurn, SendFailedInTurn, ReturnInTurn, platform
<1>9. CASE Interrupt
  BY <1>1, <1>6, <1>9 DEF Interrupt, InterruptLoop, InterruptBuild, InterruptSend,
     InterruptResult, InterruptExit, platform
<1>10. ASSUME NEW b \in Batch, ThreadStep(b) \/ CarryOutLate(b)
       PROVE  /\ copies' \in [Batch -> Nat] /\ late' \in [Batch -> Nat]
              /\ attempt' \in [Batch -> 0 .. MaxAttempts - 1]
  BY <1>1, <1>2, <1>3, <1>4, <1>5, <1>10 DEF ThreadStep, SendStep, Take, Start, Send, Fail,
     Succeeds, RefusedDuplicate, FailsForGood, FailsForNow, TimesOut, LosesResponse,
     Retry, CarryOutLate, platform
<1> QED
  BY <1>7, <1>8, <1>9, <1>10 DEF Next

\* The total never passes what the batches read so far can hold.
LEMMA TotalType ==
  ASSUME TypeOK, MainInv, total <= Upto(cursor), [Next]_vars
  PROVE  total' \in 0 .. NumTasks /\ total' <= Upto(cursor')
<1>1. /\ total \in Nat /\ cursor \in Nat /\ NumTasks \in Nat
      /\ Upto(cursor) \in 0 .. NumTasks /\ Upto(cursor) <= Upto(cursor + 1)
      /\ Upto(cursor + 1) \in 0 .. NumTasks
  BY Parameters, Counting DEF TypeOK
<1>2. CASE ReadResult
  <2>1. cursor \in Batch
    BY <1>2, BatchesCover DEF ReadResult, TypeOK, Batch
  <2>2. Upto(cursor) + Length(cursor) = Upto(cursor + 1) /\ Length(cursor) \in Nat
    BY <2>1, Counting
  <2> QED
    BY <1>1, <1>2, <2>2 DEF ReadResult
<1>3. CASE SentInTurn
  <2>1. next \in Batch
    BY <1>3, BatchesCover DEF SentInTurn, MainInv, TypeOK, Batch
  <2>2. cursor = next
    BY <1>3 DEF SentInTurn, MainInv
  <2> QED
    BY <1>1, <1>3, <2>1, <2>2, Counting DEF SentInTurn
<1>4. CASE InterruptResult
  BY <1>1, <1>4 DEF InterruptResult
<1>5. CASE UNCHANGED <<total, cursor>>
  BY <1>1, <1>5
<1> QED
  BY <1>2, <1>3, <1>4, <1>5 DEF Next, vars, main, MainStep, CheckStopped, Build, BuildFails,
     TotalRead, ExitPool, BuildInTurn, FailsInTurn, SendFailedInTurn, ReturnInTurn,
     Interrupt, InterruptLoop, InterruptBuild, InterruptSend, InterruptExit, ThreadStep,
     SendStep, Take, Start, Send, Fail, Succeeds, RefusedDuplicate, FailsForGood, FailsForNow,
     TimesOut, LosesResponse, Retry, CarryOutLate

\* Every step keeps the types, the counters' apart.
LEMMA ControlTypes ==
  ASSUME TypeOK, MainInv, [Next]_vars
  PROVE  /\ threads' \in ThreadChoices /\ stop' \in BOOLEAN /\ failure' \in Failures
         /\ pc' \in {"loop", "build", "send", "total", "exit", "done"}
         /\ next' \in 0 .. NumBatches /\ cursor' \in 0 .. next'
         /\ interrupts' \in 0 .. MaxInterrupts
         /\ state' \in [Batch -> States]
<1> DEFINE Goal == /\ threads' \in ThreadChoices /\ stop' \in BOOLEAN /\ failure' \in Failures
                   /\ pc' \in {"loop", "build", "send", "total", "exit", "done"}
                   /\ next' \in 0 .. NumBatches /\ cursor' \in 0 .. next'
                   /\ interrupts' \in 0 .. MaxInterrupts
                   /\ state' \in [Batch -> States]
<1>1. /\ threads \in ThreadChoices /\ stop \in BOOLEAN /\ failure \in Failures
      /\ pc \in {"loop", "build", "send", "total", "exit", "done"}
      /\ next \in 0 .. NumBatches /\ cursor \in 0 .. next /\ NumBatches \in Nat
      /\ interrupts \in 0 .. MaxInterrupts /\ MaxInterrupts \in Nat
      /\ state \in [Batch -> States]
  BY Parameters, BatchesCover DEF TypeOK
<1>2. ASSUME NEW b, NEW s \in States, Becomes(b, s) PROVE state' \in [Batch -> States]
  BY <1>1, <1>2 DEF Becomes
<1>3. /\ Running \cup Finished \cup {"unbuilt", "queued"} \subseteq States
      /\ {"taken", "checked", "sending", "backoff", "failing", "added", "skipped", "failed"} \subseteq States
      /\ {"none", "batch", "build", "interrupt"} \subseteq Failures
  BY DEF States, Running, Finished, Failures
<1>4. pc \in {"build", "send"} => next + 1 \in 0 .. NumBatches
  BY <1>1 DEF MainInv
<1>5. ASSUME MainStep PROVE Goal
  <2>1. next' \in 0 .. NumBatches /\ cursor' \in 0 .. next'
    BY <1>1, <1>4, <1>5 DEF MainStep, CheckStopped, Build, BuildFails, ReadResult, TotalRead,
       ExitPool, BuildInTurn, FailsInTurn, SentInTurn, SendFailedInTurn, ReturnInTurn
  <2>2. state' \in [Batch -> States]
    BY <1>1, <1>2, <1>3, <1>5 DEF MainStep, CheckStopped, Build, BuildFails, ReadResult,
       TotalRead, ExitPool, BuildInTurn, FailsInTurn, SentInTurn, SendFailedInTurn, ReturnInTurn
  <2> QED
    BY <1>1, <1>3, <1>5, <2>1, <2>2 DEF MainStep, CheckStopped, Build, BuildFails, ReadResult,
       TotalRead, ExitPool, BuildInTurn, FailsInTurn, SentInTurn, SendFailedInTurn, ReturnInTurn
<1>6. ASSUME Interrupt PROVE Goal
  <2>1. next' \in 0 .. NumBatches /\ cursor' \in 0 .. next' /\ interrupts' \in 0 .. MaxInterrupts
    BY <1>1, <1>6 DEF Interrupt, InterruptLoop, InterruptBuild, InterruptSend,
       InterruptResult, InterruptExit, Interrupted
  <2>2. state' \in [Batch -> States]
    BY <1>1, <1>2, <1>3, <1>6 DEF Interrupt, InterruptLoop, InterruptBuild, InterruptSend,
       InterruptResult, InterruptExit
  <2> QED
    BY <1>1, <1>3, <1>6, <2>1, <2>2 DEF Interrupt, InterruptLoop, InterruptBuild, InterruptSend,
       InterruptResult, InterruptExit
<1>7. ASSUME NEW b \in Batch, ThreadStep(b) \/ CarryOutLate(b) PROVE Goal
  <2>1. state' \in [Batch -> States]
    BY <1>1, <1>2, <1>3, <1>7 DEF ThreadStep, SendStep, Take, Start, Send, Fail, Succeeds, RetryIf,
       RefusedDuplicate, FailsForGood, FailsForNow, TimesOut, LosesResponse, Retry, CarryOutLate
  <2>2. stop' \in BOOLEAN /\ UNCHANGED <<threads, main, interrupts>>
    BY <1>1, <1>7 DEF ThreadStep, SendStep, Take, Start, Send, Fail, Succeeds, RefusedDuplicate,
       FailsForGood, FailsForNow, TimesOut, LosesResponse, Retry, CarryOutLate
  <2> QED
    BY <1>1, <2>1, <2>2 DEF main
<1>8. CASE UNCHANGED vars
  BY <1>1, <1>8 DEF vars, main
<1> QED
  BY <1>5, <1>6, <1>7, <1>8 DEF Next

\* Only a failure with an attempt left puts a batch to wait for its next one.
LEMMA AttemptStep ==
  ASSUME TypeOK /\ AttemptInv /\ MainInv, [Next]_vars
  PROVE  AttemptInv'
<1> USE Parameters DEF TypeOK, AttemptInv, MainInv, Running, Finished, Failures, Batch,
     InTurn, main, platform, Interrupted, Becomes, RetryIf
<1>1. CASE CheckStopped
  BY <1>1 DEF CheckStopped
<1>2. CASE Build
  BY <1>2 DEF Build
<1>3. CASE BuildFails
  BY <1>3 DEF BuildFails
<1>4. CASE ReadResult
  BY <1>4 DEF ReadResult
<1>5. CASE TotalRead
  BY <1>5 DEF TotalRead
<1>6. CASE ExitPool
  BY <1>6 DEF ExitPool
<1>7. CASE BuildInTurn
  BY <1>7 DEF BuildInTurn
<1>8. CASE FailsInTurn
  BY <1>8 DEF FailsInTurn
<1>9. CASE SentInTurn
  BY <1>9 DEF SentInTurn
<1>10. CASE SendFailedInTurn
  BY <1>10 DEF SendFailedInTurn
<1>11. CASE ReturnInTurn
  BY <1>11 DEF ReturnInTurn
<1>12. CASE InterruptLoop
  BY <1>12 DEF InterruptLoop
<1>13. CASE InterruptBuild
  BY <1>13 DEF InterruptBuild
<1>14. CASE InterruptSend
  BY <1>14 DEF InterruptSend
<1>15. CASE InterruptResult
  BY <1>15 DEF InterruptResult
<1>16. CASE InterruptExit
  BY <1>16 DEF InterruptExit
<1>17. ASSUME NEW b \in Batch, Take(b) PROVE AttemptInv'
  BY <1>17 DEF Take
<1>18. ASSUME NEW b \in Batch, Start(b) PROVE AttemptInv'
  BY <1>18 DEF Start
<1>29. ASSUME NEW b \in Batch, Send(b) PROVE AttemptInv'
  BY <1>29 DEF Send
<1>19. ASSUME NEW b \in Batch, Fail(b) PROVE AttemptInv'
  BY <1>19 DEF Fail
<1>20. ASSUME NEW b \in Batch, Succeeds(b) PROVE AttemptInv'
  BY <1>20 DEF Succeeds
<1>21. ASSUME NEW b \in Batch, RefusedDuplicate(b) PROVE AttemptInv'
  BY <1>21 DEF RefusedDuplicate
<1>22. ASSUME NEW b \in Batch, FailsForGood(b) PROVE AttemptInv'
  BY <1>22 DEF FailsForGood
<1>23. ASSUME NEW b \in Batch, FailsForNow(b) PROVE AttemptInv'
  BY <1>23 DEF FailsForNow
<1>24. ASSUME NEW b \in Batch, TimesOut(b) PROVE AttemptInv'
  BY <1>24 DEF TimesOut
<1>25. ASSUME NEW b \in Batch, LosesResponse(b) PROVE AttemptInv'
  BY <1>25 DEF LosesResponse
<1>26. ASSUME NEW b \in Batch, Retry(b) PROVE AttemptInv'
  BY <1>26 DEF Retry
<1>27. ASSUME NEW b \in Batch, CarryOutLate(b) PROVE AttemptInv'
  BY <1>27 DEF CarryOutLate
<1>28. CASE UNCHANGED vars
  BY <1>28 DEF vars
<1> QED
  BY <1>1, <1>2, <1>3, <1>4, <1>5, <1>6, <1>7, <1>8, <1>9, <1>10, <1>11, <1>12, <1>13,
     <1>14, <1>15, <1>16, <1>17, <1>18, <1>19, <1>20, <1>21, <1>22, <1>23, <1>24, <1>25,
     <1>26, <1>27, <1>28, <1>29 DEF Next, MainStep, ThreadStep, SendStep, Interrupt

\* Batches are built in turn, by the pool's loop or by the loop in turn.
LEMMA MainInvStep ==
  ASSUME TypeOK /\ MainInv, [Next]_vars
  PROVE  MainInv'
<1> USE BatchesCover DEF TypeOK, MainInv, Running, Finished, Failures, Batch, InTurn,
     main, platform, Interrupted, Becomes, RetryIf
<1>1. CASE CheckStopped
  BY <1>1 DEF CheckStopped
<1>2. CASE Build
  <2>1. /\ ~InTurn /\ ~InTurn' /\ next' = next + 1 /\ pc' = "loop" /\ next \in Batch
        /\ state' = [state EXCEPT ![next] = "queued"]
    BY <1>2 DEF Build
  <2>2. \A b \in Batch : b >= next' => state'[b] = "unbuilt"
    BY <2>1
  <2> QED
    BY <2>1, <2>2
<1>3. CASE BuildFails
  BY <1>3 DEF BuildFails
<1>4. CASE ReadResult
  BY <1>4 DEF ReadResult
<1>5. CASE TotalRead
  BY <1>5 DEF TotalRead
<1>6. CASE ExitPool
  BY <1>6 DEF ExitPool
<1>7. CASE BuildInTurn
  BY <1>7 DEF BuildInTurn
<1>8. CASE FailsInTurn
  BY <1>8 DEF FailsInTurn
<1>9. CASE SentInTurn
  <2>1. next \in 0 .. NumBatches - 1 /\ cursor = next /\ InTurn
    BY <1>9 DEF SentInTurn
  <2>2. next' = next + 1 /\ cursor' = next' /\ pc' = "loop" /\ state' = state /\ InTurn'
    BY <1>9, <2>1 DEF SentInTurn
  <2>3. \A b \in Batch : b >= next' => state'[b] = "unbuilt"
    BY <2>1, <2>2
  <2> QED
    BY <2>2, <2>3
<1>10. CASE SendFailedInTurn
  BY <1>10 DEF SendFailedInTurn
<1>11. CASE ReturnInTurn
  BY <1>11 DEF ReturnInTurn
<1>12. CASE InterruptLoop
  BY <1>12 DEF InterruptLoop
<1>13. CASE InterruptBuild
  BY <1>13 DEF InterruptBuild
<1>14. CASE InterruptSend
  BY <1>14 DEF InterruptSend
<1>15. CASE InterruptResult
  BY <1>15 DEF InterruptResult
<1>16. CASE InterruptExit
  BY <1>16 DEF InterruptExit
<1>17. ASSUME NEW b \in Batch, Take(b) PROVE MainInv'
  BY <1>17 DEF Take
<1>18. ASSUME NEW b \in Batch, Start(b) PROVE MainInv'
  BY <1>18 DEF Start
<1>29. ASSUME NEW b \in Batch, Send(b) PROVE MainInv'
  BY <1>29 DEF Send
<1>19. ASSUME NEW b \in Batch, Fail(b) PROVE MainInv'
  BY <1>19 DEF Fail
<1>20. ASSUME NEW b \in Batch, Succeeds(b) PROVE MainInv'
  BY <1>20 DEF Succeeds
<1>21. ASSUME NEW b \in Batch, RefusedDuplicate(b) PROVE MainInv'
  BY <1>21 DEF RefusedDuplicate
<1>22. ASSUME NEW b \in Batch, FailsForGood(b) PROVE MainInv'
  BY <1>22 DEF FailsForGood
<1>23. ASSUME NEW b \in Batch, FailsForNow(b) PROVE MainInv'
  BY <1>23 DEF FailsForNow
<1>24. ASSUME NEW b \in Batch, TimesOut(b) PROVE MainInv'
  BY <1>24 DEF TimesOut
<1>25. ASSUME NEW b \in Batch, LosesResponse(b) PROVE MainInv'
  BY <1>25 DEF LosesResponse
<1>26. ASSUME NEW b \in Batch, Retry(b) PROVE MainInv'
  BY <1>26 DEF Retry
<1>27. ASSUME NEW b \in Batch, CarryOutLate(b) PROVE MainInv'
  BY <1>27 DEF CarryOutLate
<1>28. CASE UNCHANGED vars
  BY <1>28 DEF vars
<1> QED
  BY <1>1, <1>2, <1>3, <1>4, <1>5, <1>6, <1>7, <1>8, <1>9, <1>10, <1>11, <1>12, <1>13,
     <1>14, <1>15, <1>16, <1>17, <1>18, <1>19, <1>20, <1>21, <1>22, <1>23, <1>24, <1>25,
     <1>26, <1>27, <1>28, <1>29 DEF Next, MainStep, ThreadStep, SendStep, Interrupt

\* A retry of a named batch is refused if any request before it was carried out, and
\* an unnamed one is sent again only when none can have been.
LEMMA PlatformStep ==
  ASSUME Taken = {}, Drops \subseteq Named,
         TypeOK /\ MainInv /\ PlatformInv, [Next]_vars
  PROVE  PlatformInv'
<1> USE DEF TypeOK, MainInv, PlatformInv, Refuses, Running, Finished, Batch, InTurn,
     main, platform, Interrupted, Becomes, RetryIf
<1>1. CASE CheckStopped
  BY <1>1 DEF CheckStopped
<1>2. CASE Build
  BY <1>2 DEF Build
<1>3. CASE BuildFails
  BY <1>3 DEF BuildFails
<1>4. CASE ReadResult
  BY <1>4 DEF ReadResult
<1>5. CASE TotalRead
  BY <1>5 DEF TotalRead
<1>6. CASE ExitPool
  BY <1>6 DEF ExitPool
<1>7. CASE BuildInTurn
  BY <1>7 DEF BuildInTurn
<1>8. CASE FailsInTurn
  BY <1>8 DEF FailsInTurn
<1>9. CASE SentInTurn
  BY <1>9 DEF SentInTurn
<1>10. CASE SendFailedInTurn
  BY <1>10 DEF SendFailedInTurn
<1>11. CASE ReturnInTurn
  BY <1>11 DEF ReturnInTurn
<1>12. CASE InterruptLoop
  BY <1>12 DEF InterruptLoop
<1>13. CASE InterruptBuild
  BY <1>13 DEF InterruptBuild
<1>14. CASE InterruptSend
  BY <1>14 DEF InterruptSend
<1>15. CASE InterruptResult
  BY <1>15 DEF InterruptResult
<1>16. CASE InterruptExit
  BY <1>16 DEF InterruptExit
<1>17. ASSUME NEW b \in Batch, Take(b) PROVE PlatformInv'
  BY <1>17 DEF Take
<1>18. ASSUME NEW b \in Batch, Start(b) PROVE PlatformInv'
  BY <1>18 DEF Start
<1>29. ASSUME NEW b \in Batch, Send(b) PROVE PlatformInv'
  BY <1>29 DEF Send
<1>19. ASSUME NEW b \in Batch, Fail(b) PROVE PlatformInv'
  BY <1>19 DEF Fail
<1>20. ASSUME NEW b \in Batch, Succeeds(b) PROVE PlatformInv'
  BY <1>20 DEF Succeeds
<1>21. ASSUME NEW b \in Batch, RefusedDuplicate(b) PROVE PlatformInv'
  BY <1>21 DEF RefusedDuplicate
<1>22. ASSUME NEW b \in Batch, FailsForGood(b) PROVE PlatformInv'
  BY <1>22 DEF FailsForGood
<1>23. ASSUME NEW b \in Batch, FailsForNow(b) PROVE PlatformInv'
  BY <1>23 DEF FailsForNow
<1>24. ASSUME NEW b \in Batch, TimesOut(b) PROVE PlatformInv'
  BY <1>24 DEF TimesOut
<1>25. ASSUME NEW b \in Batch, LosesResponse(b) PROVE PlatformInv'
  BY <1>25 DEF LosesResponse
<1>26. ASSUME NEW b \in Batch, Retry(b) PROVE PlatformInv'
  BY <1>26 DEF Retry
<1>27. ASSUME NEW b \in Batch, CarryOutLate(b) PROVE PlatformInv'
  BY <1>27 DEF CarryOutLate
<1>28. CASE UNCHANGED vars
  BY <1>28 DEF vars
<1> QED
  BY <1>1, <1>2, <1>3, <1>4, <1>5, <1>6, <1>7, <1>8, <1>9, <1>10, <1>11, <1>12, <1>13,
     <1>14, <1>15, <1>16, <1>17, <1>18, <1>19, <1>20, <1>21, <1>22, <1>23, <1>24, <1>25,
     <1>26, <1>27, <1>28, <1>29 DEF Next, MainStep, ThreadStep, SendStep, Interrupt

\* The stop event has a cause that total() finds, or that is already being raised.
LEMMA StopStep ==
  ASSUME TypeOK /\ MainInv /\ StopInv, [Next]_vars
  PROVE  StopInv'
<1> USE BatchesCover DEF TypeOK, MainInv, StopInv, Running, Finished, Failures, Batch,
     InTurn, main, platform, Interrupted, Becomes, RetryIf
<1>1. CASE CheckStopped
  BY <1>1 DEF CheckStopped
<1>2. CASE Build
  <2>1. next \in Batch /\ state[next] = "unbuilt" /\ next' = next + 1 /\ pc' = "loop"
      /\ state' = [state EXCEPT ![next] = "queued"] /\ UNCHANGED <<stop, failure>>
    BY <1>2 DEF Build
  <2>2. \A b \in Batch : b # next => state'[b] = state[b]
    BY <2>1
  <2>3. state'[next] = "queued"
    BY <2>1
  <2>4. ASSUME stop, failure = "none"
        PROVE  \E b \in Batch : b < next' /\ state'[b] = "failed"
    <3>1. PICK b \in Batch : b < next /\ state[b] = "failed"
      BY <2>4
    <3> QED
      BY <2>1, <2>2, <3>1
  <2> QED
    BY <2>1, <2>2, <2>3, <2>4
<1>3. CASE BuildFails
  BY <1>3 DEF BuildFails
<1>4. CASE ReadResult
  BY <1>4 DEF ReadResult
<1>5. CASE TotalRead
  BY <1>5 DEF TotalRead
<1>6. CASE ExitPool
  BY <1>6 DEF ExitPool
<1>7. CASE BuildInTurn
  BY <1>7 DEF BuildInTurn
<1>8. CASE FailsInTurn
  BY <1>8 DEF FailsInTurn
<1>9. CASE SentInTurn
  BY <1>9 DEF SentInTurn
<1>10. CASE SendFailedInTurn
  BY <1>10 DEF SendFailedInTurn
<1>11. CASE ReturnInTurn
  BY <1>11 DEF ReturnInTurn
<1>12. CASE InterruptLoop
  BY <1>12 DEF InterruptLoop
<1>13. CASE InterruptBuild
  BY <1>13 DEF InterruptBuild
<1>14. CASE InterruptSend
  BY <1>14 DEF InterruptSend
<1>15. CASE InterruptResult
  BY <1>15 DEF InterruptResult
<1>16. CASE InterruptExit
  BY <1>16 DEF InterruptExit
<1>17. ASSUME NEW b \in Batch, Take(b) PROVE StopInv'
  BY <1>17 DEF Take
<1>18. ASSUME NEW b \in Batch, Start(b) PROVE StopInv'
  BY <1>18 DEF Start
<1>29. ASSUME NEW b \in Batch, Send(b) PROVE StopInv'
  BY <1>29 DEF Send
<1>19. ASSUME NEW b \in Batch, Fail(b) PROVE StopInv'
  <2>1. state[b] = "failing" /\ state'[b] = "failed" /\ stop' /\ UNCHANGED <<pc, next, failure>>
    BY <1>19 DEF Fail
  <2>2. b < next
    <3>1. ~InTurn /\ b # next /\ ~(b > next)
      BY <1>19, <2>1 DEF Fail
    <3> QED
      BY <3>1
  <2> QED
    BY <2>1, <2>2
<1>20. ASSUME NEW b \in Batch, Succeeds(b) PROVE StopInv'
  BY <1>20 DEF Succeeds
<1>21. ASSUME NEW b \in Batch, RefusedDuplicate(b) PROVE StopInv'
  BY <1>21 DEF RefusedDuplicate
<1>22. ASSUME NEW b \in Batch, FailsForGood(b) PROVE StopInv'
  BY <1>22 DEF FailsForGood
<1>23. ASSUME NEW b \in Batch, FailsForNow(b) PROVE StopInv'
  BY <1>23 DEF FailsForNow
<1>24. ASSUME NEW b \in Batch, TimesOut(b) PROVE StopInv'
  BY <1>24 DEF TimesOut
<1>25. ASSUME NEW b \in Batch, LosesResponse(b) PROVE StopInv'
  BY <1>25 DEF LosesResponse
<1>26. ASSUME NEW b \in Batch, Retry(b) PROVE StopInv'
  BY <1>26 DEF Retry
<1>27. ASSUME NEW b \in Batch, CarryOutLate(b) PROVE StopInv'
  BY <1>27 DEF CarryOutLate
<1>28. CASE UNCHANGED vars
  BY <1>28 DEF vars
<1> QED
  BY <1>1, <1>2, <1>3, <1>4, <1>5, <1>6, <1>7, <1>8, <1>9, <1>10, <1>11, <1>12, <1>13,
     <1>14, <1>15, <1>16, <1>17, <1>18, <1>19, <1>20, <1>21, <1>22, <1>23, <1>24, <1>25,
     <1>26, <1>27, <1>28, <1>29 DEF Next, MainStep, ThreadStep, SendStep, Interrupt

\* What has been counted, while nothing has failed.
LEMMA ReadStep ==
  ASSUME TypeOK /\ MainInv /\ StopInv /\ ReadInv, [Next]_vars
  PROVE  ReadInv'
<1> USE BatchesCover, Counting DEF TypeOK, MainInv, StopInv, ReadInv, Running, Finished,
     Failures, Batch, InTurn, main, platform, Interrupted, Becomes, RetryIf
<1>1. CASE CheckStopped
  BY <1>1 DEF CheckStopped
<1>2. CASE Build
  BY <1>2 DEF Build
<1>3. CASE BuildFails
  BY <1>3 DEF BuildFails
<1>4. CASE ReadResult
  <2> SUFFICES ASSUME failure' = "none" PROVE ReadInv'
    OBVIOUS
  <2>1. /\ cursor \in Batch /\ cursor' = cursor + 1 /\ failure = "none"
        /\ pc = "total" /\ pc' = "total" /\ ~InTurn /\ ~InTurn' /\ state' = state
    BY <1>4 DEF ReadResult
  <2>0. state[cursor] \in {"added", "skipped"}
    <3>1. state[cursor] \in Finished /\ state[cursor] # "failed"
      BY <1>4, <2>1 DEF ReadResult
    <3> QED
      BY <3>1
  <2>4. \A b \in Batch : b < cursor' => b < cursor \/ b = cursor
    BY <2>1
  <2>2. \A b \in Batch : b < cursor' => state'[b] \in {"added", "skipped"}
    BY <2>0, <2>1, <2>4
  <2>3. ASSUME \A b \in Batch : b < cursor' => state'[b] = "added"
        PROVE  total' = Upto(cursor')
    <3>0. \A b \in Batch : b < cursor => b < cursor'
      BY <2>1
    <3>4. \A b \in Batch : b < cursor => state[b] = "added"
      BY <2>1, <2>3, <3>0
    <3>5. cursor < cursor'
      BY <2>1
    <3>1. state[cursor] = "added" /\ total = Upto(cursor)
      BY <2>1, <2>3, <3>4, <3>5
    <3>2. total' = total + Length(cursor)
      BY <1>4, <3>1 DEF ReadResult
    <3> QED
      BY <2>1, <3>1, <3>2
  <2> QED
    BY <2>1, <2>2, <2>3
<1>5. CASE TotalRead
  <2> SUFFICES ASSUME failure = "none" PROVE ReadInv'
    BY <1>5 DEF TotalRead
  <2>1. /\ pc = "total" /\ cursor = next /\ ~InTurn
        /\ \A b \in Batch : b < next => state[b] \in {"added", "skipped"}
    BY <1>5 DEF TotalRead
  <2>2. ~stop /\ next = NumBatches
    BY <2>1
  <2>3. \A b \in Batch : state[b] = "added"
    BY <2>1, <2>2
  <2>4. total = NumTasks
    BY <2>1, <2>2, <2>3
  <2> QED
    BY <1>5, <2>1, <2>3, <2>4 DEF TotalRead
<1>6. CASE ExitPool
  BY <1>6 DEF ExitPool
<1>7. CASE BuildInTurn
  BY <1>7 DEF BuildInTurn
<1>8. CASE FailsInTurn
  BY <1>8 DEF FailsInTurn
<1>9. CASE SentInTurn
  <2>1. /\ next \in Batch /\ cursor = next /\ InTurn /\ InTurn' /\ pc' = "loop"
        /\ cursor' = next + 1 /\ state[next] = "added" /\ UNCHANGED <<state, failure>>
        /\ total' = total + Length(next)
    BY <1>9 DEF SentInTurn
  <2>2. ASSUME failure = "none" PROVE total' = Upto(cursor')
    <3>1. total = Upto(next)
      BY <2>1, <2>2
    <3> QED
      BY <2>1, <3>1
  <2>3. ASSUME failure = "none", NEW b \in Batch, b < cursor' PROVE state'[b] = "added"
    BY <2>1, <2>3
  <2> QED
    BY <2>1, <2>2, <2>3
<1>10. CASE SendFailedInTurn
  BY <1>10 DEF SendFailedInTurn
<1>11. CASE ReturnInTurn
  BY <1>11 DEF ReturnInTurn
<1>12. CASE InterruptLoop
  BY <1>12 DEF InterruptLoop
<1>13. CASE InterruptBuild
  BY <1>13 DEF InterruptBuild
<1>14. CASE InterruptSend
  BY <1>14 DEF InterruptSend
<1>15. CASE InterruptResult
  BY <1>15 DEF InterruptResult
<1>16. CASE InterruptExit
  BY <1>16 DEF InterruptExit
<1>17. ASSUME NEW b \in Batch, Take(b) PROVE ReadInv'
  BY <1>17 DEF Take
<1>18. ASSUME NEW b \in Batch, Start(b) PROVE ReadInv'
  BY <1>18 DEF Start
<1>29. ASSUME NEW b \in Batch, Send(b) PROVE ReadInv'
  BY <1>29 DEF Send
<1>19. ASSUME NEW b \in Batch, Fail(b) PROVE ReadInv'
  BY <1>19 DEF Fail
<1>20. ASSUME NEW b \in Batch, Succeeds(b) PROVE ReadInv'
  BY <1>20 DEF Succeeds
<1>21. ASSUME NEW b \in Batch, RefusedDuplicate(b) PROVE ReadInv'
  BY <1>21 DEF RefusedDuplicate
<1>22. ASSUME NEW b \in Batch, FailsForGood(b) PROVE ReadInv'
  BY <1>22 DEF FailsForGood
<1>23. ASSUME NEW b \in Batch, FailsForNow(b) PROVE ReadInv'
  BY <1>23 DEF FailsForNow
<1>24. ASSUME NEW b \in Batch, TimesOut(b) PROVE ReadInv'
  BY <1>24 DEF TimesOut
<1>25. ASSUME NEW b \in Batch, LosesResponse(b) PROVE ReadInv'
  BY <1>25 DEF LosesResponse
<1>26. ASSUME NEW b \in Batch, Retry(b) PROVE ReadInv'
  BY <1>26 DEF Retry
<1>27. ASSUME NEW b \in Batch, CarryOutLate(b) PROVE ReadInv'
  BY <1>27 DEF CarryOutLate
<1>28. CASE UNCHANGED vars
  BY <1>28 DEF vars
<1> QED
  BY <1>1, <1>2, <1>3, <1>4, <1>5, <1>6, <1>7, <1>8, <1>9, <1>10, <1>11, <1>12, <1>13,
     <1>14, <1>15, <1>16, <1>17, <1>18, <1>19, <1>20, <1>21, <1>22, <1>23, <1>24, <1>25,
     <1>26, <1>27, <1>28, <1>29 DEF Next, MainStep, ThreadStep, SendStep, Interrupt

\* How a call that fails, or is interrupted, ends.
LEMMA FailStep ==
  ASSUME TypeOK /\ MainInv /\ FailInv, [Next]_vars
  PROVE  FailInv'
<1> USE BatchesCover DEF TypeOK, MainInv, FailInv, NoneUnderWay, Running, Finished,
     Failures, Batch, InTurn, main, platform, Interrupted, Becomes, RetryIf
<1>1. CASE CheckStopped
  BY <1>1 DEF CheckStopped
<1>2. CASE Build
  BY <1>2 DEF Build
<1>3. CASE BuildFails
  BY <1>3 DEF BuildFails
<1>4. CASE ReadResult
  BY <1>4 DEF ReadResult
<1>5. CASE TotalRead
  BY <1>5 DEF TotalRead
<1>6. CASE ExitPool
  <2>1. ~InTurn /\ ~InTurn' /\ UNCHANGED <<next, failure, stop, state, interrupts>>
    BY <1>6 DEF ExitPool
  <2>2. ASSUME NEW b \in Batch PROVE state[b] \in Finished \cup {"unbuilt"}
    <3>1. CASE b < next
      BY <1>6, <3>1 DEF ExitPool
    <3>2. CASE b >= next
      BY <2>1, <3>2
    <3> QED
      BY <3>1, <3>2
  <2> QED
    BY <2>1, <2>2
<1>7. CASE BuildInTurn
  BY <1>7 DEF BuildInTurn
<1>8. CASE FailsInTurn
  BY <1>8 DEF FailsInTurn
<1>9. CASE SentInTurn
  BY <1>9 DEF SentInTurn
<1>10. CASE SendFailedInTurn
  BY <1>10 DEF SendFailedInTurn
<1>11. CASE ReturnInTurn
  BY <1>11 DEF ReturnInTurn
<1>12. CASE InterruptLoop
  BY <1>12 DEF InterruptLoop
<1>13. CASE InterruptBuild
  BY <1>13 DEF InterruptBuild
<1>14. CASE InterruptSend
  BY <1>14 DEF InterruptSend
<1>15. CASE InterruptResult
  BY <1>15 DEF InterruptResult
<1>16. CASE InterruptExit
  BY <1>16 DEF InterruptExit
<1>17. ASSUME NEW b \in Batch, Take(b) PROVE FailInv'
  BY <1>17 DEF Take
<1>18. ASSUME NEW b \in Batch, Start(b) PROVE FailInv'
  BY <1>18 DEF Start
<1>29. ASSUME NEW b \in Batch, Send(b) PROVE FailInv'
  BY <1>29 DEF Send
<1>19. ASSUME NEW b \in Batch, Fail(b) PROVE FailInv'
  BY <1>19 DEF Fail
<1>20. ASSUME NEW b \in Batch, Succeeds(b) PROVE FailInv'
  BY <1>20 DEF Succeeds
<1>21. ASSUME NEW b \in Batch, RefusedDuplicate(b) PROVE FailInv'
  BY <1>21 DEF RefusedDuplicate
<1>22. ASSUME NEW b \in Batch, FailsForGood(b) PROVE FailInv'
  BY <1>22 DEF FailsForGood
<1>23. ASSUME NEW b \in Batch, FailsForNow(b) PROVE FailInv'
  BY <1>23 DEF FailsForNow
<1>24. ASSUME NEW b \in Batch, TimesOut(b) PROVE FailInv'
  BY <1>24 DEF TimesOut
<1>25. ASSUME NEW b \in Batch, LosesResponse(b) PROVE FailInv'
  BY <1>25 DEF LosesResponse
<1>26. ASSUME NEW b \in Batch, Retry(b) PROVE FailInv'
  BY <1>26 DEF Retry
<1>27. ASSUME NEW b \in Batch, CarryOutLate(b) PROVE FailInv'
  BY <1>27 DEF CarryOutLate
<1>28. CASE UNCHANGED vars
  BY <1>28 DEF vars
<1> QED
  BY <1>1, <1>2, <1>3, <1>4, <1>5, <1>6, <1>7, <1>8, <1>9, <1>10, <1>11, <1>12, <1>13,
     <1>14, <1>15, <1>16, <1>17, <1>18, <1>19, <1>20, <1>21, <1>22, <1>23, <1>24, <1>25,
     <1>26, <1>27, <1>28, <1>29 DEF Next, MainStep, ThreadStep, SendStep, Interrupt

\* A batch that no thread has let past its check has had no request.
LEMMA UnsentStep ==
  ASSUME TypeOK /\ MainInv /\ UnsentInv, [Next]_vars
  PROVE  UnsentInv'
<1> USE DEF TypeOK, MainInv, UnsentInv, BeforeCheck, Unsent, main, platform, Becomes, RetryIf
<1>1. CASE MainStep
  BY <1>1 DEF MainStep, CheckStopped, Build, BuildFails, ReadResult, TotalRead, ExitPool,
     BuildInTurn, FailsInTurn, SentInTurn, SendFailedInTurn, ReturnInTurn
<1>2. ASSUME NEW b \in Batch, Take(b) \/ Start(b) \/ Send(b) \/ Fail(b) \/ Retry(b)
      PROVE  UnsentInv'
  BY <1>2 DEF Take, Start, Send, Fail, Retry
<1>3. ASSUME NEW b \in Batch,
             Succeeds(b) \/ RefusedDuplicate(b) \/ FailsForGood(b) \/ FailsForNow(b)
      PROVE  UnsentInv'
  BY <1>3 DEF Succeeds, RefusedDuplicate, FailsForGood, FailsForNow
<1>4. ASSUME NEW b \in Batch, TimesOut(b) \/ LosesResponse(b) PROVE UnsentInv'
  BY <1>4 DEF TimesOut, LosesResponse
<1>5. ASSUME NEW b \in Batch, CarryOutLate(b) PROVE UnsentInv'
  BY <1>5 DEF CarryOutLate
<1>6. CASE Interrupt
  BY <1>6 DEF Interrupt, InterruptLoop, InterruptBuild, InterruptSend, InterruptResult,
     InterruptExit
<1>7. CASE UNCHANGED vars
  BY <1>7 DEF vars
<1> QED
  BY <1>1, <1>2, <1>3, <1>4, <1>5, <1>6, <1>7 DEF Next, ThreadStep, SendStep

-----------------------------------------------------------------------------
(* The theorems. *)

\* Both invariants hold as the call begins.
LEMMA InitHolds == Init => IInv /\ PlatformInv
<1> SUFFICES ASSUME Init PROVE IInv /\ PlatformInv
  OBVIOUS
<1> USE DEF Init
<1>1. TypeOK
  <2>1. /\ 0 \in 0 .. MaxAttempts - 1 /\ 0 \in 0 .. NumBatches /\ 0 \in 0 .. NumTasks
        /\ 0 \in 0 .. MaxInterrupts /\ 0 \in Nat /\ 0 \in 0 .. 0
    BY Parameters, BatchesCover
  <2> QED
    BY <2>1 DEF TypeOK, Failures, States
<1>2. AttemptInv /\ PlatformInv /\ UnsentInv
  BY DEF AttemptInv, PlatformInv, UnsentInv, Unsent
<1>3. MainInv
  BY DEF MainInv, InTurn, Batch
<1>4. StopInv /\ FailInv
  BY DEF StopInv, FailInv, NoneUnderWay, InTurn, Batch
<1>5. total <= Upto(cursor) /\ ReadInv
  BY Counting DEF ReadInv, Batch
<1> QED
  BY <1>1, <1>2, <1>3, <1>4, <1>5 DEF IInv

\* Every step keeps the invariant.
LEMMA IInvStep == IInv /\ [Next]_vars => IInv'
BY ControlTypes, CounterTypes, TotalType, AttemptStep, MainInvStep, UnsentStep,
   StopStep, ReadStep, FailStep DEF IInv, TypeOK

\* The invariant, whatever the Platform does with the requests.
THEOREM Invariant == Spec => []IInv
<1>1. Init => IInv
  BY InitHolds
<1> QED
  BY <1>1, IInvStep, PTL DEF Spec

\* TypeOK: the counters and the program counter stay in range.
THEOREM TypeCorrect == Spec => []TypeOK
<1>1. IInv => TypeOK
  BY DEF IInv
<1> QED
  BY <1>1, Invariant, PTL

\* A Ctrl-C ends the call in a failure, wherever it finds it.
THEOREM InterruptsRaised == Spec => []InterruptRaised
<1>1. IInv => InterruptRaised
  BY DEF IInv, FailInv, InterruptRaised
<1> QED
  BY <1>1, Invariant, PTL

\* A call that is not interrupted leaves nothing to the pool.
THEOREM LeavesNoneUnderWay == Spec => []NoneUnderWay
<1>1. IInv => NoneUnderWay
  BY DEF IInv, FailInv
<1> QED
  BY <1>1, Invariant, PTL

\* Both: the caller may clean up once the call has ended.
THEOREM CallsEndClean == Spec => []EndsClean
<1>1. IInv => EndsClean
  BY DEF IInv, FailInv, EndsClean, InterruptRaised
<1> QED
  BY <1>1, Invariant, PTL

\* What the retries rely on: the group had none of the names, and a response
\* of an unnamed batch can be lost to a ReadTimeout alone.
LEMMA PlatformHolds ==
  ASSUME Taken = {}, Drops \subseteq Named
  PROVE  Spec => []PlatformInv
<1>1. IInv /\ PlatformInv /\ [Next]_vars => PlatformInv'
  BY PlatformStep DEF IInv
<1> QED
  BY <1>1, InitHolds, Invariant, PTL DEF Spec

\* Under that assumption a call that returns has added every batch exactly
\* once, and returns the number of Tasks.
THEOREM ReturnsTheWhole ==
  ASSUME Taken = {}, Drops \subseteq Named
  PROVE  Spec => []ReturnsWhole
<1>1. IInv /\ PlatformInv => ReturnsWhole
  BY DEF IInv, ReadInv, PlatformInv, ReturnsWhole, Returned
<1> QED
  BY <1>1, Invariant, PlatformHolds, PTL

\* Under that assumption no batch is added twice, returned or raised.
THEOREM AddedAtMostOnce ==
  ASSUME Taken = {}, Drops \subseteq Named
  PROVE  Spec => []AtMostOnce
<1>1. IInv /\ PlatformInv => AtMostOnce
  <2> SUFFICES ASSUME TypeOK, PlatformInv, NEW b \in Batch PROVE copies[b] <= 1
    BY DEF IInv, AtMostOnce
  <2>1. copies[b] \in Nat /\ late[b] \in Nat
    BY DEF TypeOK
  <2> QED
    BY <2>1 DEF PlatformInv
<1> QED
  BY <1>1, Invariant, PlatformHolds, PTL

\* What keeps a batch from ever being sent: it is not past its check, and the
\* stop event is set, or the main thread, which sends in turn, has ended.
Held(b) == BeforeCheck(b) /\ IF InTurn THEN pc = "done" ELSE stop

\* Once held, a batch stays so: the check it has yet to make will skip it.
LEMMA HeldForGood ==
  ASSUME IInv, NEW b \in Batch, Held(b), [Next]_vars
  PROVE  Held(b)'
<1> USE DEF IInv, TypeOK, MainInv, Held, BeforeCheck, InTurn, NumBatches, main, Becomes
<1>1. CASE MainStep
  BY <1>1 DEF MainStep, CheckStopped, Build, BuildFails, ReadResult, TotalRead, ExitPool,
     BuildInTurn, FailsInTurn, SentInTurn, SendFailedInTurn, ReturnInTurn
<1>2. ASSUME NEW c \in Batch, ThreadStep(c) \/ CarryOutLate(c) PROVE Held(b)'
  <2>1. UNCHANGED <<threads, pc>> /\ (stop => stop')
    BY <1>2 DEF ThreadStep, SendStep, Take, Start, Send, Fail, Succeeds, RefusedDuplicate,
       FailsForGood, FailsForNow, TimesOut, LosesResponse, Retry, CarryOutLate
  <2>2. CASE state'[b] = state[b]
    BY <2>1, <2>2
  <2>3. CASE state'[b] # state[b]
    <3>1. b = c /\ (Take(c) \/ Start(c))
      BY <1>2, <2>3 DEF ThreadStep, SendStep, Take, Start, Send, Fail, Succeeds,
         RefusedDuplicate, FailsForGood, FailsForNow, TimesOut, LosesResponse, Retry,
         CarryOutLate, RetryIf
    <3>2. ~InTurn
      BY <3>1 DEF FailInv, Take, Start
    <3> QED
      BY <3>1, <3>2 DEF Take, Start
  <2> QED
    BY <2>2, <2>3
<1>3. CASE Interrupt
  BY <1>3 DEF Interrupt, InterruptLoop, InterruptBuild, InterruptSend, InterruptResult,
     InterruptExit
<1>4. CASE UNCHANGED vars
  BY <1>4 DEF vars
<1> QED
  BY <1>1, <1>2, <1>3, <1>4 DEF Next

\* NoneSentAfterFailure: once a batch has failed, or could not be built, only a
\* batch already past its thread's check can still reach the Platform.
THEOREM NoneSent == Spec => NoneSentAfterFailure
<1> SUFFICES ASSUME NEW b \in Batch
             PROVE  Spec => [](failure \in {"batch", "build"} /\ BeforeCheck(b) =>
                                 [](state[b] # "sending" /\ Unsent(b)))
  BY DEF NoneSentAfterFailure
<1>1. IInv /\ failure \in {"batch", "build"} /\ BeforeCheck(b) => Held(b)
  BY DEF IInv, FailInv, Held
<1>2. IInv /\ Held(b) /\ [Next]_vars => Held(b)'
  BY HeldForGood
<1>3. IInv /\ Held(b) => state[b] # "sending" /\ Unsent(b)
  BY DEF IInv, UnsentInv, Held, BeforeCheck
<1> QED
  BY <1>1, <1>2, <1>3, Invariant, PTL DEF Spec
-----------------------------------------------------------------------------
(* Under the same assumption the call does what TaskUpload promises: every   *)
(* step is one of its steps, or changes nothing it can see.                  *)

\* The call begins as an upload does.
LEMMA UploadInit == Init => Upload!Init
BY DEF Init, Upload!Init

\* Every step is one of the upload's, or a stutter.
LEMMA UploadStep ==
  ASSUME Taken = {}, Drops \subseteq Named,
         IInv, IInv', PlatformInv, [Next]_vars
  PROVE  [Upload!Next]_Upload!vars
<1> USE DEF Upload!vars
<1>0. TypeOK /\ TypeOK'
  BY DEF IInv
<1>1. ASSUME NEW b \in Batch, copies[b] = 0, copies' = [copies EXCEPT ![b] = @ + 1],
             UNCHANGED main
      PROVE  Upload!Next
  <2>1. copies' = [copies EXCEPT ![b] = 1]
    BY <1>1
  <2>2. pc = "done" => failure # "none"
    BY <1>1 DEF IInv, ReadInv, PlatformInv
  <2>3. Upload!Add(b)
    BY <1>1, <2>1, <2>2 DEF Upload!Add, main
  <2> QED
    BY <2>3 DEF Upload!Next
<1>2. CASE UNCHANGED <<main, copies>>
  BY <1>2 DEF main
<1>3. ASSUME pc # "done", pc' # "done", UNCHANGED copies
      PROVE  UNCHANGED Upload!vars
  BY <1>3
<1>4. ASSUME pc # "done", pc' = "done", UNCHANGED copies
      PROVE  Upload!Next
  <2>1. CASE failure' = "none"
    <3>1. \A b \in Batch : state'[b] = "added" /\ copies'[b] = copies[b]
      BY <1>4, <2>1 DEF IInv, ReadInv
    <3>2. PlatformInv'
      BY PlatformStep DEF IInv
    <3>3. \A b \in Batch : copies[b] = 1
      BY <3>1, <3>2 DEF PlatformInv
    <3> QED
      BY <1>4, <2>1, <3>3 DEF Upload!Next, Upload!Return
  <2>2. CASE failure' # "none"
    BY <1>4, <2>2 DEF Upload!Next, Upload!Raise
  <2> QED
    BY <2>1, <2>2
<1>5. CASE MainStep
  <2>1. pc # "done" /\ UNCHANGED copies
    BY <1>5 DEF MainStep, CheckStopped, Build, BuildFails, ReadResult, TotalRead, ExitPool,
       BuildInTurn, FailsInTurn, SentInTurn, SendFailedInTurn, ReturnInTurn, platform
  <2> QED
    BY <1>3, <1>4, <2>1
<1>6. CASE Interrupt
  <2>1. pc # "done" /\ UNCHANGED copies
    BY <1>6 DEF Interrupt, InterruptLoop, InterruptBuild, InterruptSend, InterruptResult,
       InterruptExit, platform
  <2> QED
    BY <1>3, <1>4, <2>1
<1>7. ASSUME NEW b \in Batch, Succeeds(b) PROVE Upload!Next
  <2>1. copies[b] = 0
    BY <1>0, <1>7 DEF Succeeds, Refuses, PlatformInv, TypeOK
  <2> QED
    BY <1>1, <1>7, <2>1 DEF Succeeds
<1>8. ASSUME NEW b \in Batch, CarryOutLate(b) PROVE [Upload!Next]_Upload!vars
  <2>1. CASE Refuses(b)
    <3>1. UNCHANGED copies
      BY <1>0, <1>8, <2>1 DEF CarryOutLate, TypeOK
    <3> QED
      BY <1>2, <1>8, <3>1 DEF CarryOutLate
  <2>2. CASE ~Refuses(b)
    <3>1. copies[b] = 0
      BY <1>0, <1>8, <2>2 DEF CarryOutLate, Refuses, PlatformInv, TypeOK
    <3>2. copies' = [copies EXCEPT ![b] = @ + 1] /\ UNCHANGED main
      BY <1>8, <2>2 DEF CarryOutLate
    <3> QED
      BY <1>1, <3>1, <3>2
  <2> QED
    BY <2>1, <2>2
<1>9. ASSUME NEW b \in Batch, ThreadStep(b), ~Succeeds(b) PROVE UNCHANGED <<main, copies>>
  BY <1>9 DEF ThreadStep, SendStep, Take, Start, Send, Fail, RefusedDuplicate, FailsForGood,
     FailsForNow, TimesOut, LosesResponse, Retry, platform
<1>10. CASE UNCHANGED vars
  BY <1>2, <1>10 DEF vars, platform
<1> QED
  BY <1>2, <1>5, <1>6, <1>7, <1>8, <1>9, <1>10 DEF Next

\* run_batches() implements TaskUpload's safety: what it returns or raises, and
\* what the Platform holds then and later, is what the abstract upload allows.
THEOREM Refinement ==
  ASSUME Taken = {}, Drops \subseteq Named
  PROVE  Spec => Upload!Init /\ [][Upload!Next]_Upload!vars
<1>1. IInv /\ IInv' /\ PlatformInv /\ [Next]_vars => [Upload!Next]_Upload!vars
  BY UploadStep
<1> QED
  BY <1>1, UploadInit, Invariant, PlatformHolds, PTL DEF Spec
=============================================================================
