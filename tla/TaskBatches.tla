----------------------------- MODULE TaskBatches -----------------------------
(***************************************************************************)
(* run_batches(), the Batches it hands to a pool of threads, and           *)
(* submit_with_retries() (utils/task_batches.py): the Tasks of one Task    *)
(* Group sent to the Platform in batches.                                  *)
(*                                                                         *)
(* The main thread builds the batches in turn and queues them; a pool      *)
(* thread takes the oldest, checks the stop event, and then sends it, so   *)
(* that a failure may fall between the check and the request; it sends it  *)
(* again after a delay while its failure is one a retry could cure.  With  *)
(* one thread, or one batch, the main thread sends each batch itself.  A   *)
(* KeyboardInterrupt reaches the main thread alone.  The Platform is       *)
(* external: a request whose response never came back may still be         *)
(* carried out, at any later time, and a batch with a name that the Task   *)
(* Group already holds is refused whole.                                   *)
(***************************************************************************)
EXTENDS Integers, FiniteSets

CONSTANTS
  NumTasks,          \* num_tasks
  BatchSize,         \* batch_size
  ThreadChoices,     \* the values parallel_threads may take
  MaxAttempts,       \* MAX_BATCH_SUBMIT_ATTEMPTS
  Named,             \* the batches all of whose Tasks have names
  Taken,             \* those with a name another Task of the group already has
  Drops,             \* those whose response can be lost other than by a ReadTimeout
  MaxInterrupts      \* bound on the Ctrl-Cs of a run

\* ceil(num_tasks / batch_size), and the batch numbers
NumBatches == (NumTasks + BatchSize - 1) \div BatchSize
Batch == 0 .. NumBatches - 1

ASSUME Parameters ==
  /\ NumTasks \in Nat
  /\ BatchSize \in Nat \ {0}
  /\ ThreadChoices \subseteq Nat \ {0}
  /\ MaxAttempts \in Nat \ {0}
  /\ Named \subseteq Batch
  /\ Taken \subseteq Named
  /\ Drops \subseteq Batch
  /\ MaxInterrupts \in Nat

VARIABLES
  threads,           \* parallel_threads
  pc,                \* where the main thread is
  next,              \* the number of batches built: the next batch_number
  cursor,            \* the number of futures whose result total() has read
  total,             \* submitted, or total(): the Tasks counted so far
  failure,           \* what the call is going to raise
  stop,              \* Batches._stop
  state,             \* state[b]: the batch b, from unbuilt to its future's result
  attempt,           \* attempt[b]: attempt_number
  copies,            \* copies[b]: how often the Platform added the Tasks of b
  late,              \* late[b]: unanswered requests it may yet carry out
  interrupts         \* the Ctrl-Cs so far

main == <<pc, next, cursor, total, failure>>
platform == <<copies, late>>
vars == <<threads, main, stop, state, attempt, platform, interrupts>>

Running == {"taken", "checked", "sending", "backoff", "failing"}
Finished == {"added", "skipped", "failed"}
States == {"unbuilt", "queued"} \cup Running \cup Finished
Failures == {"none", "batch", "build", "interrupt"}

TypeOK ==
  /\ threads \in ThreadChoices
  /\ pc \in {"loop", "build", "send", "total", "exit", "done"}
  /\ next \in 0 .. NumBatches
  /\ cursor \in 0 .. next
  /\ total \in 0 .. NumTasks
  /\ failure \in Failures
  /\ stop \in BOOLEAN
  /\ state \in [Batch -> States]
  /\ attempt \in [Batch -> 0 .. MaxAttempts - 1]
  /\ copies \in [Batch -> Nat]
  /\ late \in [Batch -> Nat]
  /\ interrupts \in 0 .. MaxInterrupts

Init ==
  /\ threads \in ThreadChoices
  /\ pc = "loop" /\ next = 0 /\ cursor = 0 /\ total = 0 /\ failure = "none"
  /\ stop = FALSE
  /\ state = [b \in Batch |-> "unbuilt"]
  /\ attempt = [b \in Batch |-> 0]
  /\ copies = [b \in Batch |-> 0]
  /\ late = [b \in Batch |-> 0]
  /\ interrupts = 0

\* 'parallel_threads == 1 or num_batches <= 1'
InTurn == threads = 1 \/ NumBatches <= 1
MaxWorkers == IF threads < NumBatches THEN threads ELSE NumBatches

\* The Tasks of a batch: make_batch(start, end), and how many there are
Upto(n) == IF BatchSize * n < NumTasks THEN BatchSize * n ELSE NumTasks
Length(b) == Upto(b + 1) - BatchSize * b

Becomes(b, s) == state' = [state EXCEPT ![b] = s]
-----------------------------------------------------------------------------
(* The main thread, with a pool. *)

\* The head of the loop: 'if batches.stopped(): break'
CheckStopped ==
  /\ ~InTurn /\ pc = "loop"
  /\ pc' = IF next = NumBatches \/ stop THEN "total" ELSE "build"
  /\ UNCHANGED <<threads, next, cursor, total, failure, stop, state, attempt,
                 platform, interrupts>>

Build ==
  /\ ~InTurn /\ pc = "build"
  /\ Becomes(next, "queued")
  /\ next' = next + 1
  /\ pc' = "loop"
  /\ UNCHANGED <<threads, cursor, total, failure, stop, attempt, platform, interrupts>>

\* Mutant: the loop ends on a batch that cannot be built, and nothing is raised.
BuildFails_NotRaised ==
  /\ ~InTurn /\ pc = "build"
  /\ stop' = TRUE
  /\ pc' = "exit"
  /\ UNCHANGED <<threads, next, cursor, total, failure, state, attempt, platform, interrupts>>

\* A batch that cannot be built, an input file that cannot be uploaded, say
BuildFails ==
  /\ ~InTurn /\ pc = "build"
  /\ stop' = TRUE
  /\ failure' = "build"
  /\ pc' = "exit"
  /\ UNCHANGED <<threads, next, cursor, total, state, attempt, platform, interrupts>>

\* Mutant: a failed batch counts for nothing, its failure only reported.
ReadResult_OnlyReported ==
  /\ pc = "total" /\ cursor < next /\ state[cursor] \in Finished
  /\ cursor' = cursor + 1
  /\ total' = IF state[cursor] = "added" THEN total + Length(cursor) ELSE total
  /\ UNCHANGED <<threads, pc, next, failure, stop, state, attempt, platform, interrupts>>

\* total() reads the results in the order the batches were queued
ReadResult ==
  /\ pc = "total" /\ cursor < next /\ state[cursor] \in Finished
  /\ cursor' = cursor + 1
  /\ total' = IF state[cursor] = "added" THEN total + Length(cursor) ELSE total
  /\ failure' = IF failure = "none" /\ state[cursor] = "failed" THEN "batch" ELSE failure
  /\ UNCHANGED <<threads, pc, next, stop, state, attempt, platform, interrupts>>

TotalRead ==
  /\ pc = "total" /\ cursor = next
  /\ pc' = "exit"
  /\ UNCHANGED <<threads, next, cursor, total, failure, stop, state, attempt,
                 platform, interrupts>>

\* Mutant: the pool is left without waiting, shutdown(wait=False).
ExitPool_WithoutWaiting ==
  /\ pc = "exit"
  /\ pc' = "done"
  /\ UNCHANGED <<threads, next, cursor, total, failure, stop, state, attempt,
                 platform, interrupts>>

\* Leaving the 'with' block waits for every batch queued
ExitPool ==
  /\ pc = "exit"
  /\ \A b \in 0 .. next - 1 : state[b] \in Finished
  /\ pc' = "done"
  /\ UNCHANGED <<threads, next, cursor, total, failure, stop, state, attempt,
                 platform, interrupts>>
-----------------------------------------------------------------------------
(* The main thread, sending each batch itself. *)

BuildInTurn ==
  /\ InTurn /\ pc = "loop" /\ next < NumBatches
  /\ Becomes(next, "sending")
  /\ pc' = "send"
  /\ UNCHANGED <<threads, next, cursor, total, failure, stop, attempt, platform, interrupts>>

\* A batch that cannot be built, or a pause with no terminal to answer from
FailsInTurn ==
  /\ InTurn /\ pc = "loop" /\ next < NumBatches
  /\ failure' = "build"
  /\ pc' = "done"
  /\ UNCHANGED <<threads, next, cursor, total, stop, state, attempt, platform, interrupts>>

SentInTurn ==
  /\ pc = "send" /\ state[next] = "added"
  /\ total' = total + Length(next)
  /\ next' = next + 1
  /\ cursor' = cursor + 1
  /\ pc' = "loop"
  /\ UNCHANGED <<threads, failure, stop, state, attempt, platform, interrupts>>

SendFailedInTurn ==
  /\ pc = "send" /\ state[next] = "failing"
  /\ Becomes(next, "failed")
  /\ failure' = "batch"
  /\ pc' = "done"
  /\ UNCHANGED <<threads, next, cursor, total, stop, attempt, platform, interrupts>>

ReturnInTurn ==
  /\ InTurn /\ pc = "loop" /\ next = NumBatches
  /\ pc' = "done"
  /\ UNCHANGED <<threads, next, cursor, total, failure, stop, state, attempt,
                 platform, interrupts>>
-----------------------------------------------------------------------------
(* The pool: Batches._run(), a batch at a time in each thread. *)

\* A free thread takes the batch queued first.
Take(b) ==
  /\ state[b] = "queued"
  /\ \A c \in Batch : state[c] = "queued" => b <= c
  /\ Cardinality({c \in Batch : state[c] \in Running}) < MaxWorkers
  /\ Becomes(b, "taken")
  /\ UNCHANGED <<threads, main, stop, attempt, platform, interrupts>>

\* Mutant: the stop event is not looked at as a batch starts.
Start_Unchecked(b) ==
  /\ state[b] = "taken"
  /\ Becomes(b, "checked")
  /\ UNCHANGED <<threads, main, stop, attempt, platform, interrupts>>

\* 'if self._stop.is_set(): return 0'
Start(b) ==
  /\ state[b] = "taken"
  /\ Becomes(b, IF stop THEN "skipped" ELSE "checked")
  /\ UNCHANGED <<threads, main, stop, attempt, platform, interrupts>>

\* 'return function(*args)': the first request goes out, stopped by now or not
Send(b) ==
  /\ state[b] = "checked"
  /\ Becomes(b, "sending")
  /\ UNCHANGED <<threads, main, stop, attempt, platform, interrupts>>

\* 'except BaseException: self._stop.set(); raise'
Fail(b) ==
  /\ ~InTurn /\ state[b] = "failing"
  /\ Becomes(b, "failed")
  /\ stop' = TRUE
  /\ UNCHANGED <<threads, main, attempt, platform, interrupts>>
-----------------------------------------------------------------------------
(* submit_with_retries(), by the answer to the attempt under way. *)

\* The Platform's "Task names must be unique within task group"
Refuses(b) == b \in Named /\ (copies[b] > 0 \/ b \in Taken)

\* A failure is retried if a retry could cure it and an attempt is left.
RetryIf(b, curable) ==
  Becomes(b, IF curable /\ attempt[b] < MaxAttempts - 1 THEN "backoff" ELSE "failing")

Succeeds(b) ==
  /\ state[b] = "sending" /\ ~Refuses(b)
  /\ copies' = [copies EXCEPT ![b] = @ + 1]
  /\ Becomes(b, "added")
  /\ UNCHANGED <<threads, main, stop, attempt, late, interrupts>>

\* Taken, on a retry, to mean that the attempt before it added the batch
RefusedDuplicate(b) ==
  /\ state[b] = "sending" /\ Refuses(b)
  /\ Becomes(b, IF attempt[b] > 0 THEN "added" ELSE "failing")
  /\ UNCHANGED <<threads, main, stop, attempt, platform, interrupts>>

\* is_permanent_failure()
FailsForGood(b) ==
  /\ state[b] = "sending"
  /\ RetryIf(b, FALSE)
  /\ UNCHANGED <<threads, main, stop, attempt, platform, interrupts>>

\* A failure that a retry could cure, of a request the Platform did not take
FailsForNow(b) ==
  /\ state[b] = "sending"
  /\ RetryIf(b, TRUE)
  /\ UNCHANGED <<threads, main, stop, attempt, platform, interrupts>>

\* Mutant: resent whether or not its Tasks have names.
TimesOut_Resent(b) ==
  /\ state[b] = "sending"
  /\ late' = [late EXCEPT ![b] = @ + 1]
  /\ RetryIf(b, TRUE)
  /\ UNCHANGED <<threads, main, stop, attempt, copies, interrupts>>

\* requests.exceptions.ReadTimeout: not resent unless every Task has a name
TimesOut(b) ==
  /\ state[b] = "sending"
  /\ late' = [late EXCEPT ![b] = @ + 1]
  /\ RetryIf(b, b \in Named)
  /\ UNCHANGED <<threads, main, stop, attempt, copies, interrupts>>

\* The response lost another way: the connection reset, a gateway's 5xx
LosesResponse(b) ==
  /\ b \in Drops /\ state[b] = "sending"
  /\ late' = [late EXCEPT ![b] = @ + 1]
  /\ RetryIf(b, TRUE)
  /\ UNCHANGED <<threads, main, stop, attempt, copies, interrupts>>

\* The sleep between attempts ends
Retry(b) ==
  /\ state[b] = "backoff"
  /\ attempt' = [attempt EXCEPT ![b] = @ + 1]
  /\ Becomes(b, "sending")
  /\ UNCHANGED <<threads, main, stop, platform, interrupts>>

\* External: the Platform carries out a request nobody waits for any more.
CarryOutLate(b) ==
  /\ late[b] > 0
  /\ late' = [late EXCEPT ![b] = @ - 1]
  /\ copies' = [copies EXCEPT ![b] = IF Refuses(b) THEN @ ELSE @ + 1]
  /\ UNCHANGED <<threads, main, stop, state, attempt, interrupts>>
-----------------------------------------------------------------------------
(* Ctrl-C, by where it finds the main thread. *)

Interrupted ==
  /\ interrupts < MaxInterrupts
  /\ interrupts' = interrupts + 1

\* Outside the 'try' around a build: raised without stopping the batches queued
InterruptLoop ==
  /\ Interrupted
  /\ pc = "loop" \/ pc = "build"
  /\ failure' = "interrupt"
  /\ pc' = IF InTurn THEN "done" ELSE "exit"
  /\ UNCHANGED <<threads, next, cursor, total, stop, state, attempt, platform>>

InterruptBuild ==
  /\ Interrupted
  /\ pc = "build"
  /\ stop' = TRUE
  /\ failure' = "interrupt"
  /\ pc' = "exit"
  /\ UNCHANGED <<threads, next, cursor, total, state, attempt, platform>>

\* submit_with_retries() catches Exception alone; a request under way is left
InterruptSend ==
  /\ Interrupted
  /\ pc = "send"
  /\ late' = [late EXCEPT ![next] = IF state[next] = "sending" THEN @ + 1 ELSE @]
  /\ Becomes(next, IF state[next] = "added" THEN "added" ELSE "failed")
  /\ failure' = "interrupt"
  /\ pc' = "done"
  /\ UNCHANGED <<threads, next, cursor, total, stop, attempt, copies>>

\* Mutant: an interrupt of the wait for a result is passed over.
InterruptResult_PassedOver ==
  /\ Interrupted
  /\ pc = "total" /\ cursor < next
  /\ cursor' = cursor + 1
  /\ UNCHANGED <<threads, pc, next, total, failure, stop, state, attempt, platform>>

\* In future.result(): caught, as any batch's failure, and the next one read
InterruptResult ==
  /\ Interrupted
  /\ pc = "total" /\ cursor < next
  /\ cursor' = cursor + 1
  /\ failure' = IF failure = "none" THEN "interrupt" ELSE failure
  /\ UNCHANGED <<threads, pc, next, total, stop, state, attempt, platform>>

\* Between two results, or as the pool is waited for
InterruptExit ==
  /\ Interrupted
  /\ pc = "total" \/ pc = "exit"
  /\ failure' = "interrupt"
  /\ pc' = IF pc = "total" THEN "exit" ELSE "done"
  /\ UNCHANGED <<threads, next, cursor, total, stop, state, attempt, platform>>

Interrupt ==
  InterruptLoop \/ InterruptBuild \/ InterruptSend \/ InterruptResult \/ InterruptExit
-----------------------------------------------------------------------------
MainStep ==
  \/ CheckStopped \/ Build \/ BuildFails \/ ReadResult \/ TotalRead \/ ExitPool
  \/ BuildInTurn \/ FailsInTurn \/ SentInTurn \/ SendFailedInTurn \/ ReturnInTurn

SendStep(b) ==
  \/ Succeeds(b) \/ RefusedDuplicate(b) \/ FailsForGood(b) \/ FailsForNow(b)
  \/ TimesOut(b) \/ LosesResponse(b) \/ Retry(b)

ThreadStep(b) == Take(b) \/ Start(b) \/ Send(b) \/ Fail(b) \/ SendStep(b)

Next ==
  \/ MainStep
  \/ \E b \in Batch : ThreadStep(b) \/ CarryOutLate(b)
  \/ Interrupt

\* Threads are scheduled, an attempt ends (at the latest by its read timeout)
\* and a sleep is over in time; the Platform owes a lost request nothing.
Fairness == WF_vars(MainStep) /\ \A b \in Batch : WF_vars(ThreadStep(b))

Spec == Init /\ [][Next]_vars /\ Fairness
-----------------------------------------------------------------------------
(* What it is meant to ensure. *)

Returned == pc = "done" /\ failure = "none"

\* A call that returns has put every batch on the Platform exactly once, and
\* returns the number of the Task Group's Tasks (the total submit.py reports).
ReturnsWhole ==
  Returned => total = NumTasks /\ \A b \in Batch : copies[b] = 1

\* No batch's Tasks are added twice, whatever was resent, returned or raised.
AtMostOnce == \A b \in Batch : copies[b] <= 1

\* An interrupt is raised in the end, or a failure met before it, and never
\* turned into a normal return that reports a total.
InterruptRaised == interrupts > 0 /\ pc = "done" => failure # "none"

\* Unless interrupted, the call ends with no batch waiting or under way: the
\* caller is about to cancel the Work Requirement the batches go to.
NoneUnderWay ==
  pc = "done" /\ interrupts = 0 =>
    \A b \in Batch : state[b] \in Finished \cup {"unbuilt"}

\* The call ends as its caller needs it to, before what it cleans up.
EndsClean == InterruptRaised /\ NoneUnderWay

\* Once the main thread has met a failed batch, or failed to build one, a batch
\* that no thread has let past its check by then never reaches the Platform: not
\* one request for it goes out, answered or lost, whatever Ctrl-C follows.
BeforeCheck(b) == state[b] \in {"unbuilt", "queued", "taken", "skipped"}
Unsent(b) == copies[b] = 0 /\ late[b] = 0
NoneSentAfterFailure ==
  \A b \in Batch :
    [](failure \in {"batch", "build"} /\ BeforeCheck(b) =>
         [](state[b] # "sending" /\ Unsent(b)))

\* What the caller may take the upload for.
Upload == INSTANCE TaskUpload WITH
  contents <- copies,
  outcome <- IF pc # "done" THEN "open" ELSE IF failure = "none" THEN "returned" ELSE "raised"

ImplementsUpload == Upload!Spec
=============================================================================
