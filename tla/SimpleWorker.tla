---------------------------- MODULE SimpleWorker ----------------------------
(***************************************************************************)
(* The worker goroutines of pkg/worker/worker.go and the two channels they *)
(* share: every SimpleWorker receives tasks from one task channel, runs    *)
(* them with retries, and reports at most one result for each task on one  *)
(* result channel, without ever blocking on it.                            *)
(*                                                                         *)
(* A worker is created by Pool.addWorker (module Pool); this module says   *)
(* what its goroutine does between two channel operations.  A task stands  *)
(* for one submission of it; what its function computes is abstracted to   *)
(* whether it returns an error.                                            *)
(***************************************************************************)
EXTENDS Integers, Sequences, FiniteSets, Functions

CONSTANTS
    Tasks,          \* the submissions
    NoTask,         \* no task: a worker between two tasks
    Invalid,        \* the tasks whose Validate() returns an error
    CallsPool,      \* the tasks whose function calls Pool.Size()
    MaxRetries,     \* what each task's MaxRetries() returns
    WorkerRetries,  \* maxRetries of the workers
    TaskCap,        \* cap(taskChan)
    ResultCap,      \* cap(resultChan)
    MaxId,          \* bound on the worker ids ever handed out
    Wired           \* whether the factory gives the workers the pool's channels

ASSUME WorkerAssumption ==
    /\ NoTask \notin Tasks
    /\ Invalid \subseteq Tasks
    /\ CallsPool \subseteq Tasks
    /\ MaxRetries \in [Tasks -> Int]
    /\ WorkerRetries \in Int
    /\ TaskCap \in Nat \ {0}
    /\ ResultCap \in Nat \ {0}
    /\ MaxId \in Nat
    /\ Wired \in BOOLEAN

VARIABLES
    taskChan,    \* the buffered task channel, head received first
    taskClosed,  \* whether its owner closed it
    resultChan,  \* the buffered result channel
    ctxDone,     \* whether the context given to Start and ExecuteTask is done
    wDone,       \* the workers whose own context (SimpleWorker.ctx) is done
    pc,          \* where each worker's goroutine is
    result,      \* the Result each goroutine is filling in
    processed,   \* stats.TasksProcessed of each worker
    failed,      \* stats.TasksFailed of each worker
    execs,       \* history: how often each task's function has returned
    succeeded,   \* history: the tasks whose function returned no error
    sent,        \* history: the tasks put on the task channel
    dropped,     \* history: the results sendResult threw away
    taken        \* history: the results received from the result channel

chanVars == <<taskChan, taskClosed, resultChan>>
statVars == <<processed, failed>>
ranVars == <<execs, succeeded>>
workerVars == <<chanVars, ctxDone, wDone, pc, result, statVars, ranVars, sent,
                dropped, taken>>

WorkerIds == 1..MaxId

\* The error of a Result: none, a failed validation, the context's error, or
\* the task's own error after its last attempt.
Errs == {"nil", "invalid", "canceled", "failed"}

Result == [task: Tasks, worker: WorkerIds, err: Errs, attempt: Nat]

Idle(i) == [task |-> NoTask, worker |-> i, err |-> "nil", attempt |-> 0]

Blank(i, t) == [task |-> t, worker |-> i, err |-> "nil", attempt |-> 0]
WithErr(r, e) == [r EXCEPT !.err = e]
Numbered(r) == [r EXCEPT !.attempt = @ + 1]

\* A goroutine that was started and has not returned.
Live(i) == pc[i] \notin {"absent", "exited"}

\* The retry limit executeWithRetries works with.
Limit(t) == IF MaxRetries[t] <= 0 THEN WorkerRetries ELSE MaxRetries[t]

(***************************************************************************)
(* The decisions of the worker loop.  Each "But..." operator is a mistake  *)
(* that the code could make at that point and that a property notices.     *)
(***************************************************************************)

\* The task a receive yields: the oldest.
NextTask == Head(taskChan)

\* When the select of the worker loop may return: one of the two contexts is
\* done, or the task channel is closed and drained.
ButIgnoresOwnContext(i) == ctxDone
ButLeavesWhenIdle(i) == ctxDone \/ i \in wDone \/ taskChan = <<>>
MayLeave(i) ==
    \/ ctxDone
    \/ i \in wDone
    \/ Wired /\ taskClosed /\ taskChan = <<>>

\* Whether a new attempt is refused: only the context given to ExecuteTask
\* counts, not the worker's own.
Refused(i) == ctxDone

\* Whether an execution that fails was the last one allowed.
ButOneAttemptLess(i) == result[i].attempt >= Limit(result[i].task)
LastAttempt(i) == result[i].attempt > Limit(result[i].task)

\* Whether the result channel can take a result.
ButKeepsASpare == Wired /\ Len(resultChan) + 1 < ResultCap
RoomForResult == Wired /\ Len(resultChan) < ResultCap

\* The default case of sendResult: a result that finds no room is thrown away.
ButBlocks == FALSE
MayDrop == ~RoomForResult

\* Where a task that is cancelled in its backoff goes on: past the statistics.
ButIsCounted == "stats"
ButIsForgotten == "select"
AfterCancel == "send"

WorkerInit ==
    /\ taskChan = <<>>
    /\ taskClosed = FALSE
    /\ resultChan = <<>>
    /\ ctxDone \in BOOLEAN
    /\ wDone = {}
    /\ pc = [i \in WorkerIds |-> "absent"]
    /\ result = [i \in WorkerIds |-> Idle(i)]
    /\ processed = [i \in WorkerIds |-> 0]
    /\ failed = [i \in WorkerIds |-> 0]
    /\ execs = [t \in Tasks |-> 0]
    /\ succeeded = {}
    /\ sent = {}
    /\ dropped = {}
    /\ taken = {}

(***************************************************************************)
(* The worker loop.  Its select takes any case that is ready: a worker     *)
(* whose context is done may still receive a task.                         *)
(***************************************************************************)

\* A received task is validated at once; a task whose retry limit is negative
\* skips the attempt loop and goes straight to the statistics.
Receive(i) ==
    /\ pc[i] = "select"
    /\ Wired
    /\ taskChan # <<>>
    /\ LET t == NextTask IN
         IF t \in Invalid
         THEN /\ pc' = [pc EXCEPT ![i] = "send"]
              /\ result' = [result EXCEPT ![i] =
                              WithErr(Blank(i, t), "invalid")]
         ELSE /\ pc' = [pc EXCEPT ![i] =
                          IF Limit(t) < 0 THEN "stats" ELSE "attempt"]
              /\ result' = [result EXCEPT ![i] = Blank(i, t)]
    /\ taskChan' = Tail(taskChan)
    /\ UNCHANGED <<taskClosed, resultChan, ctxDone, wDone, statVars, ranVars,
                   sent, dropped, taken>>

Exit(i) ==
    /\ pc[i] = "select"
    /\ MayLeave(i)
    /\ pc' = [pc EXCEPT ![i] = "exited"]
    /\ UNCHANGED <<chanVars, ctxDone, wDone, result, statVars, ranVars, sent,
                   dropped, taken>>

(***************************************************************************)
(* executeWithRetries.                                                     *)
(***************************************************************************)

\* The head of the attempt loop: the attempt is numbered, then the context is
\* looked at.
BeginAttempt(i) ==
    /\ pc[i] = "attempt"
    /\ result' = [result EXCEPT ![i] =
         IF Refused(i) THEN WithErr(Numbered(@), "canceled") ELSE Numbered(@)]
    /\ pc' = [pc EXCEPT ![i] = IF Refused(i) THEN "send"
                               ELSE IF result[i].task \in CallsPool THEN "call"
                               ELSE "exec"]
    /\ UNCHANGED <<chanVars, ctxDone, wDone, statVars, ranVars, sent, dropped,
                   taken>>

\* The task's function returns without an error.
ExecSucceeds(i) ==
    /\ pc[i] = "exec"
    /\ execs' = [execs EXCEPT ![result[i].task] = @ + 1]
    /\ succeeded' = succeeded \union {result[i].task}
    /\ pc' = [pc EXCEPT ![i] = "stats"]
    /\ UNCHANGED <<chanVars, ctxDone, wDone, result, statVars, sent, dropped,
                   taken>>

\* It returns an error: the last attempt fails the task, another backs off.
ExecFails(i) ==
    /\ pc[i] = "exec"
    /\ execs' = [execs EXCEPT ![result[i].task] = @ + 1]
    /\ pc' = [pc EXCEPT ![i] = IF LastAttempt(i) THEN "stats" ELSE "backoff"]
    /\ result' = [result EXCEPT ![i] = IF LastAttempt(i)
                                            THEN WithErr(@, "failed") ELSE @]
    /\ UNCHANGED <<chanVars, ctxDone, wDone, statVars, succeeded, sent, dropped,
                   taken>>

\* waitForRetry: the backoff timer fires ...
BackoffElapses(i) ==
    /\ pc[i] = "backoff"
    /\ pc' = [pc EXCEPT ![i] = "attempt"]
    /\ UNCHANGED <<chanVars, ctxDone, wDone, result, statVars, ranVars, sent,
                   dropped, taken>>

\* ... or the context is done first, which ends the task without statistics.
BackoffCanceled(i) ==
    /\ pc[i] = "backoff"
    /\ ctxDone
    /\ result' = [result EXCEPT ![i] = WithErr(@, "canceled")]
    /\ pc' = [pc EXCEPT ![i] = AfterCancel]
    /\ UNCHANGED <<chanVars, ctxDone, wDone, statVars, ranVars, sent, dropped,
                   taken>>

UpdateStats(i) ==
    /\ pc[i] = "stats"
    /\ IF result[i].err = "nil"
       THEN /\ processed' = [processed EXCEPT ![i] = @ + 1]
            /\ UNCHANGED failed
       ELSE /\ failed' = [failed EXCEPT ![i] = @ + 1]
            /\ UNCHANGED processed
    /\ pc' = [pc EXCEPT ![i] = "send"]
    /\ UNCHANGED <<chanVars, ctxDone, wDone, result, ranVars, sent, dropped,
                   taken>>

\* sendResult never blocks: a result that finds the channel full is lost.
SendResult(i) ==
    /\ pc[i] = "send"
    /\ \/ /\ RoomForResult
          /\ resultChan' = Append(resultChan, result[i])
          /\ UNCHANGED dropped
       \/ /\ MayDrop
          /\ dropped' = dropped \union {result[i]}
          /\ UNCHANGED resultChan
    /\ pc' = [pc EXCEPT ![i] = "select"]
    /\ result' = [result EXCEPT ![i] = Idle(i)]
    /\ UNCHANGED <<taskChan, taskClosed, ctxDone, wDone, statVars, ranVars,
                   sent, taken>>

WorkerStep(i) ==
    \/ Receive(i)
    \/ Exit(i)
    \/ BeginAttempt(i)
    \/ ExecSucceeds(i)
    \/ ExecFails(i)
    \/ BackoffElapses(i)
    \/ BackoffCanceled(i)
    \/ UpdateStats(i)
    \/ SendResult(i)

(***************************************************************************)
(* The other ends of the channels.  Manager does the first and the third;  *)
(* a program that uses a Pool directly may do all of them.                 *)
(***************************************************************************)

\* A send on the task channel: it blocks while the channel is full.
SendTask(t) ==
    /\ t \notin sent
    /\ ~taskClosed
    /\ Len(taskChan) < TaskCap
    /\ taskChan' = Append(taskChan, t)
    /\ sent' = sent \union {t}
    /\ UNCHANGED <<taskClosed, resultChan, ctxDone, wDone, pc, result,
                   statVars, ranVars, dropped, taken>>

CloseTasks ==
    /\ ~taskClosed
    /\ taskClosed' = TRUE
    /\ UNCHANGED <<taskChan, resultChan, ctxDone, wDone, pc, result, statVars,
                   ranVars, sent, dropped, taken>>

TakeResult ==
    /\ resultChan # <<>>
    /\ taken' = taken \union {Head(resultChan)}
    /\ resultChan' = Tail(resultChan)
    /\ UNCHANGED <<taskChan, taskClosed, ctxDone, wDone, pc, result, statVars,
                   ranVars, sent, dropped>>

\* The owner of the context the pool was created with cancels it.
CancelContext ==
    /\ ~ctxDone
    /\ ctxDone' = TRUE
    /\ UNCHANGED <<chanVars, wDone, pc, result, statVars, ranVars, sent,
                   dropped, taken>>

(***************************************************************************)
(* Properties.                                                             *)
(***************************************************************************)

\* Every result a worker has handed to sendResult.
Reports == Range(resultChan) \union dropped \union taken

\* Where a task is: in the task channel, with a worker, in the result
\* channel, thrown away, or read by whoever receives results.
Places(t) ==
    {<<"queued", k>> : k \in {k \in DOMAIN taskChan : taskChan[k] = t}}
    \union {<<"held", i>> : i \in {i \in WorkerIds : result[i].task = t}}
    \union {<<"reported", k>> :
              k \in {k \in DOMAIN resultChan : resultChan[k].task = t}}
    \union {<<"dropped", r>> : r \in {r \in dropped : r.task = t}}
    \union {<<"taken", r>> : r \in {r \in taken : r.task = t}}

\* Conservation: whatever the workers, the pool and the channels' users do in
\* whatever order, a task that was sent is in exactly one place, so it is run
\* by one worker only, yields one result, and is never silently gone.
EachTaskInOnePlace ==
    \A t \in Tasks : IF t \in sent THEN \E p \in Places(t) : Places(t) = {p}
                     ELSE Places(t) = {}

\* What a result says of the executions of its task: Attempt is exact but for a
\* cancelled task, where it may count one execution that never happened.
TellsExecutions(r) ==
    LET n == execs[r.task]
        budget == Limit(r.task) + 1
    IN  /\ n <= r.attempt
        /\ r.attempt <= budget \/ r.attempt = 0
        /\ n < r.attempt => r.err = "canceled" /\ n = r.attempt - 1
        /\ r.err = "invalid" => r.attempt = 0
        /\ r.err = "failed" => n = budget
        /\ r.err = "canceled" => r.attempt > 0 /\ ctxDone
        /\ r.err = "nil" => r.task \in succeeded \/ budget <= 0
        /\ r.task \in succeeded => r.err = "nil"

\* A result tells how often its task ran and how that ended: a task succeeds by
\* its last execution and fails only after its whole retry budget; only under a
\* negative budget is a task that never ran a success; and a worker that is
\* stopped alone finishes its task, for only the context shared by the whole
\* pool cancels one (executeWithRetries and waitForRetry look at ctx, not at
\* w.ctx; worker.go:134-191).
ResultTellsExecutions == \A r \in Reports : TellsExecutions(r)

\* The results of worker i that say err, and the one it is about to send.
OutcomesOf(i, err) ==
    {r \in Reports : r.worker = i /\ r.err = err}
    \union (IF pc[i] = "send" /\ result[i].err = err THEN {result[i]} ELSE {})

\* The statistics of every worker agree with the results it sent, dropped ones
\* included; rejected and cancelled tasks are in neither counter
\* (updateTaskStats, and the paths of ExecuteTask that skip it).
StatsMatchResults ==
    \A i \in WorkerIds :
      /\ processed[i] = Cardinality(OutcomesOf(i, "nil"))
      /\ failed[i] = Cardinality(OutcomesOf(i, "failed"))
=============================================================================
