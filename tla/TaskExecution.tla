--------------------------- MODULE TaskExecution ---------------------------
(***************************************************************************)
(* One task on one worker, from the first attempt to the report: the       *)
(* worker's retries around a chain of middleware (pkg/middleware) around a *)
(* FunctionTask (pkg/worker/task.go) whose function may run in a goroutine *)
(* of its own, raced by a timeout.                                         *)
(*                                                                         *)
(* The calls are a stack of frames: frame 0 is the worker's retry loop,    *)
(* frame k the wrapper chain[k], and the innermost frame the task.         *)
(***************************************************************************)
EXTENDS Integers, Sequences

CONSTANTS
    Chains,         \* the chains of middleware a task may be wrapped with
    WorkerRetries,  \* the retries of the worker
    MwRetries       \* the retries of RetryMiddleware

Wrappers == {"recovery", "timeout", "retry"}

ASSUME ExecutionAssumption ==
    /\ Chains \subseteq Seq(Wrappers)
    /\ WorkerRetries \in Nat
    /\ MwRetries \in Nat

VARIABLES
    chain,      \* the middleware around the task, the outermost first
    timed,      \* whether the task has a timeout
    at,         \* the frame that is called, waits, or is returned to
    pc,         \* what it does
    out,        \* what was returned to it
    tries,      \* the retries that worker and RetryMiddleware have made
    cause,      \* Err() of the context that each frame hands to the next one
    fn,         \* the goroutine of the task's present call: idle, running, gone
                \* without an answer, or else its answer, put into the channel
    orphans,    \* runs of the function whose call has returned without them
    crashed,    \* a panic that nobody recovered ended the process
    started,    \* history: runs of the function begun
    succeeded,  \* history: a run of the function returned without an error
    repeated,   \* history: a run began after one had succeeded
    gaveUp,     \* history: a call of the task returned for its context
    expired,    \* history: a timeout elapsed
    late        \* history: runs begun after the worker's context was done

callVars == <<at, pc, out>>
runVars == <<started, succeeded, repeated, late>>
execVars == <<chain, timed, callVars, tries, cause, fn, orphans, crashed,
              runVars, gaveUp, expired>>

Task == Len(chain) + 1
Frames == 0..Task
Answers == {"ok", "error"}

\* The context that frame k hands inwards is done; the one it was called with is
\* that of the frame outside it.
Done(k) == cause[k] # "none"

\* The retry budgets of the worker and of RetryMiddleware.
Budget(k) == IF k = 0 THEN WorkerRetries ELSE MwRetries
ButOneMore(k) == tries[k] > Budget(k)
LastTry(k) == tries[k] >= Budget(k)

ButSameTry(k) == tries
NextTry(k) == [tries EXCEPT ![k] = @ + 1]

\* RecoveryMiddleware makes an error of a panic.
ButRethrows(result) == result
Recovered(result) == IF result = "panic" THEN "error" ELSE result

ExecInit ==
    /\ chain \in Chains
    /\ timed \in BOOLEAN
    /\ at = 0
    /\ pc = "head"
    /\ out = "none"
    /\ tries = [k \in Frames |-> 0]
    /\ cause = [k \in Frames |-> "none"]
    /\ fn = "idle"
    /\ orphans = 0
    /\ crashed = FALSE
    /\ started = 0
    /\ succeeded = FALSE
    /\ repeated = FALSE
    /\ gaveUp = FALSE
    /\ expired = FALSE
    /\ late = 0

CallFrame(k) == at' = k /\ pc' = "call" /\ UNCHANGED out
ReturnTo(k, result) == at' = k /\ pc' = "return" /\ out' = result
Report(result) == at' = 0 /\ pc' = "done" /\ out' = result

-----------------------------------------------------------------------------
(* The worker: executeWithRetries. *)

WorkerHead ==
    /\ pc = "head"
    /\ IF Done(0) THEN Report("canceled") ELSE CallFrame(1)
    /\ UNCHANGED <<chain, timed, tries, cause, fn, orphans, crashed, runVars,
                   gaveUp, expired>>

WorkerReturned ==
    /\ pc = "return" /\ at = 0
    /\ crashed' = (out = "panic")
    /\ IF out \in {"ok", "panic"} \/ LastTry(0)
       THEN Report(out)
       ELSE pc' = "backoff" /\ UNCHANGED <<at, out>>
    /\ UNCHANGED <<chain, timed, tries, cause, fn, orphans, runVars, gaveUp,
                   expired>>

WorkerBackoff ==
    /\ pc = "backoff" /\ at = 0
    /\ \/ tries' = NextTry(0) /\ pc' = "head"
          /\ UNCHANGED <<at, out>>
       \/ Done(0) /\ Report("canceled") /\ UNCHANGED tries
    /\ UNCHANGED <<chain, timed, cause, fn, orphans, crashed, runVars, gaveUp,
                   expired>>

-----------------------------------------------------------------------------
(* The middleware. *)

\* A wrapper is called, makes its context and calls the next frame.
Enter ==
    /\ pc = "call" /\ at < Task
    /\ cause' = [cause EXCEPT ![at] = cause[at - 1]]
    /\ tries' = [tries EXCEPT ![at] = 0]
    /\ CallFrame(at + 1)
    /\ UNCHANGED <<chain, timed, fn, orphans, crashed, runVars, gaveUp,
                   expired>>

\* TimeoutMiddleware cancels its context and returns what it got.
LeaveTimeout ==
    /\ pc = "return" /\ at > 0
    /\ chain[at] = "timeout"
    /\ ReturnTo(at - 1, out)
    /\ UNCHANGED <<chain, timed, tries, cause, fn, orphans, crashed, runVars,
                   gaveUp, expired>>

LeaveRecovery ==
    /\ pc = "return" /\ at > 0
    /\ chain[at] = "recovery"
    /\ ReturnTo(at - 1, Recovered(out))
    /\ UNCHANGED <<chain, timed, tries, cause, fn, orphans, crashed, runVars,
                   gaveUp, expired>>

ButTriesAgain == out = "panic"
MwIsDone == out \in {"ok", "panic"}
ButNeverLooks == FALSE
ContextEnded == Done(at - 1)

\* RetryMiddleware: a success or a panic goes through; a failure is that of the
\* context when it is done, and final after the last try.
RetryReturned ==
    /\ pc = "return" /\ at > 0
    /\ chain[at] = "retry"
    /\ IF MwIsDone THEN ReturnTo(at - 1, out)
       ELSE IF ContextEnded THEN ReturnTo(at - 1, cause[at - 1])
       ELSE IF LastTry(at) THEN ReturnTo(at - 1, "error")
       ELSE pc' = "backoff" /\ UNCHANGED <<at, out>>
    /\ UNCHANGED <<chain, timed, tries, cause, fn, orphans, crashed, runVars,
                   gaveUp, expired>>

\* The select of the backoff may take the timer when the context is done, too.
RetryElapses ==
    /\ pc = "backoff" /\ at > 0
    /\ tries' = NextTry(at)
    /\ CallFrame(at + 1)
    /\ UNCHANGED <<chain, timed, cause, fn, orphans, crashed, runVars, gaveUp,
                   expired>>

RetryCanceled ==
    /\ pc = "backoff" /\ at > 0
    /\ Done(at - 1)
    /\ ReturnTo(at - 1, cause[at - 1])
    /\ UNCHANGED <<chain, timed, tries, cause, fn, orphans, crashed, runVars,
                   gaveUp, expired>>

-----------------------------------------------------------------------------
(* FunctionTask.Execute. *)

\* Without a timeout the function runs in the caller's goroutine.
BeginRun ==
    /\ pc = "call" /\ at = Task
    /\ IF timed
       THEN /\ pc' = "select"
            /\ fn' = "running"
            /\ cause' = [cause EXCEPT ![Task] = cause[Task - 1]]
       ELSE pc' = "inline" /\ UNCHANGED <<fn, cause>>
    /\ started' = started + 1
    /\ repeated' = (repeated \/ succeeded)
    /\ late' = IF Done(0) THEN late + 1 ELSE late
    /\ UNCHANGED <<chain, timed, at, out, tries, orphans, crashed, succeeded,
                   gaveUp, expired>>

Succeeds(answer) == succeeded' = (succeeded \/ answer = "ok")

InlineReturns ==
    /\ pc = "inline"
    /\ \E result \in Answers \union {"panic"} :
         ReturnTo(Task - 1, result) /\ Succeeds(result)
    /\ UNCHANGED <<chain, timed, tries, cause, fn, orphans, crashed, started,
                   repeated, late, gaveUp, expired>>

\* The goroutine puts the answer into the channel, which has room for it; if the
\* context is done by then it may throw the answer away.
RunReturns ==
    /\ fn = "running"
    /\ \E answer \in Answers :
         /\ Succeeds(answer)
         /\ fn' \in {answer} \union (IF Done(Task) THEN {"gone"} ELSE {})
    /\ UNCHANGED <<chain, timed, callVars, tries, cause, orphans, crashed,
                   started, repeated, late, gaveUp, expired>>

TakeAnswer ==
    /\ pc = "select"
    /\ fn \in Answers
    /\ ReturnTo(Task - 1, fn)
    /\ fn' = "idle"
    /\ UNCHANGED <<chain, timed, tries, cause, orphans, crashed, runVars,
                   gaveUp, expired>>

ButAlwaysTimeout == "timeout"
ContextError == IF cause[Task] = "deadline" THEN "timeout" ELSE "canceled"

ButWaitsForAnswer == Done(Task) /\ fn # "running"
MayGiveUp == Done(Task)

\* The call returns for its context and leaves a running function to itself.
GiveUp ==
    /\ pc = "select"
    /\ MayGiveUp
    /\ ReturnTo(Task - 1, ContextError)
    /\ orphans' = IF fn = "running" THEN orphans + 1 ELSE orphans
    /\ fn' = "idle"
    /\ gaveUp' = TRUE
    /\ UNCHANGED <<chain, timed, tries, cause, crashed, runVars, expired>>

OrphanReturns ==
    /\ orphans > 0
    /\ orphans' = orphans - 1
    /\ \E answer \in Answers : Succeeds(answer)
    /\ UNCHANGED <<chain, timed, callVars, tries, cause, fn, crashed, started,
                   repeated, late, gaveUp, expired>>

\* A panic in a goroutine of the task is out of reach of its caller's frames.
RunPanics ==
    /\ fn = "running" \/ orphans > 0
    /\ crashed' = TRUE
    /\ UNCHANGED <<chain, timed, callVars, tries, cause, fn, orphans, runVars,
                   gaveUp, expired>>

-----------------------------------------------------------------------------
(* The contexts. *)

\* What ends a context ends those made from it, unless they ended before.
EndFrom(k, why) ==
    cause' = [j \in Frames |-> IF j >= k /\ cause[j] = "none" THEN why
                               ELSE cause[j]]

\* The timeout of frame k, a TimeoutMiddleware or the task, elapses.
Expire(k) ==
    /\ ~Done(k)
    /\ \/ pc = "select" /\ k = Task
       \/ k \in 1..Len(chain) /\ chain[k] = "timeout"
          /\ (IF pc = "call" THEN k < at ELSE k <= at)
    /\ EndFrom(k, "deadline")
    /\ expired' = TRUE
    /\ UNCHANGED <<chain, timed, callVars, tries, fn, orphans, crashed, runVars,
                   gaveUp>>

\* The worker's context is cancelled, and with it every one made from it.
Cancel ==
    /\ ~Done(0)
    /\ pc # "done"
    /\ EndFrom(0, "canceled")
    /\ UNCHANGED <<chain, timed, callVars, tries, fn, orphans, crashed, runVars,
                   gaveUp, expired>>

\* What the worker's goroutine does by itself; the function is not part of it.
Executor ==
    \/ WorkerHead \/ WorkerReturned \/ WorkerBackoff
    \/ Enter \/ LeaveTimeout \/ LeaveRecovery
    \/ RetryReturned \/ RetryElapses \/ RetryCanceled
    \/ BeginRun \/ TakeAnswer \/ GiveUp

Function == InlineReturns \/ RunReturns \/ OrphanReturns \/ RunPanics

ExecNext ==
    ~crashed /\ (Executor \/ Function \/ Cancel \/ \E k \in Frames : Expire(k))

\* Goroutines that can run do, and timers fire; functions need not return.
ExecSpec ==
    /\ ExecInit /\ [][ExecNext]_execVars
    /\ WF_execVars(~crashed /\ Executor)
    /\ WF_execVars(~crashed /\ Expire(Task))

-----------------------------------------------------------------------------
(* Properties. *)

Outcomes == {"none", "ok", "error", "timeout", "deadline", "canceled", "panic"}

ExecTypeOK ==
    /\ chain \in Chains
    /\ timed \in BOOLEAN
    /\ at \in Frames
    /\ pc \in {"head", "call", "select", "inline", "return", "backoff", "done"}
    /\ out \in Outcomes
    /\ tries \in [Frames -> Nat]
    /\ \A k \in Frames : tries[k] <= Budget(k)
    /\ cause \in [Frames -> {"none", "deadline", "canceled"}]
    /\ fn \in {"idle", "running", "gone"} \union Answers
    /\ orphans \in 0..started
    /\ crashed \in BOOLEAN
    /\ started \in Nat
    /\ late \in 0..started
    /\ \A flag \in {succeeded, repeated, gaveUp, expired} : flag \in BOOLEAN

\* The wrappers that retry.
Retriers == {k \in 1..Len(chain) : chain[k] = "retry"}

\* The retries of a RetryMiddleware multiply with the worker's, and no more than
\* that: abandoned runs and timeouts add none (executeWithRetries,
\* RetryMiddleware).
RunsBounded ==
    (\A j, k \in Retriers : j = k) =>
      started <= (WorkerRetries + 1)
                   * (IF Retriers = {} THEN 1 ELSE MwRetries + 1)

\* Once the worker's context is done at most one more run begins: the one whose
\* check had passed, or whose backoff ended in the same moment
\* (executeWithRetries, RetryMiddleware).
CancelStopsRuns == late <= 1

\* A function that has succeeded is run again only if a call was given up for
\* its context, which may throw a success away (FunctionTask.Execute).
SuccessIsFinal == repeated => gaveUp

\* The report tells what happened, whichever frames it went through: a success
\* of the function, a timeout that elapsed, a context that was cancelled
\* (FunctionTask.Execute, RetryMiddleware, executeWithRetries).
ReportTells ==
    pc = "done" =>
      /\ out = "ok" => succeeded
      /\ out \in {"timeout", "deadline"} => expired
      /\ out = "canceled" => Done(0)
      /\ out = "panic" => crashed

\* RecoveryMiddleware contains every panic, wherever it is in the chain, but
\* those of a function that runs in a goroutine of its own, which it does not
\* reach (RecoveryMiddleware, FunctionTask.Execute).
PanicsAreContained ==
    crashed => timed \/ \A k \in 1..Len(chain) : chain[k] # "recovery"

\* A task with a timeout is reported, even if its function never returns.
TimedTaskIsReported == timed ~> (pc = "done" \/ crashed)
=============================================================================
