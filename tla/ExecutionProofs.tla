-------------------------- MODULE ExecutionProofs --------------------------
(***************************************************************************)
(* What a report tells, when a function is run again, which panics are     *)
(* contained, how many runs begin and how many of them too late, for every *)
(* chain of middleware and every number of retries.                        *)
(***************************************************************************)
EXTENDS TaskExecution, TLAPS

Points == {"head", "call", "select", "inline", "return", "backoff", "done"}
Causes == {"none", "deadline", "canceled"}

\* The types, and which frame is meant at each point.
Shape ==
    /\ chain \in Seq(Wrappers)
    /\ timed \in BOOLEAN
    /\ at \in Frames
    /\ pc \in Points
    /\ out \in Outcomes
    /\ cause \in [Frames -> Causes]
    /\ fn \in {"idle", "running", "gone"} \union Answers
    /\ orphans \in Nat
    /\ crashed \in BOOLEAN
    /\ pc = "call" => at >= 1
    /\ pc \in {"return", "backoff"} => at < Task
    /\ pc \in {"head", "done"} => at = 0
    /\ fn # "idle" <=> pc = "select"
    /\ pc = "select" \/ orphans > 0 => timed

\* What is on its way to the report is true, and so are the contexts.
HistoryTells ==
    /\ out = "ok" \/ fn = "ok" => succeeded
    /\ out \in {"timeout", "deadline"} => expired
    /\ out = "canceled" => Done(0)
    /\ pc = "done" /\ out = "panic" => crashed
    /\ cause[0] # "deadline"
    /\ \A k \in Frames : /\ cause[k] = "deadline" => expired
                         /\ cause[k] = "canceled" => Done(0)

\* Unless a call was given up, a success is on its way to the report.
SuccessRepeats ==
    /\ repeated => gaveUp
    /\ ~gaveUp =>
         /\ orphans = 0
         /\ succeeded => \/ pc = "select" /\ fn \in {"ok", "gone"}
                         \/ pc \in {"return", "done"} /\ out = "ok"

\* A panic on its way out has met no RecoveryMiddleware.
PanicPath ==
    /\ PanicsAreContained
    /\ pc = "return" /\ out = "panic" =>
         timed \/ \A k \in 1..Len(chain) : k > at => chain[k] # "recovery"

\* The inductive invariant.
ExecInv == Shape /\ HistoryTells /\ SuccessRepeats /\ PanicPath

\* Before the first attempt nothing is on its way to the report.
LEMMA ExecInvInit == ExecInit => ExecInv
  <1> SUFFICES ASSUME ExecInit PROVE ExecInv
    OBVIOUS
  <1> chain \in Seq(Wrappers)
    BY ExecutionAssumption DEF ExecInit
  <1> Len(chain) \in Nat
    OBVIOUS
  <1>1. Shape
    <2>1. at \in Frames /\ at < Task /\ at = 0
      BY DEF ExecInit, Frames, Task
    <2>2. cause \in [Frames -> Causes]
      BY DEF ExecInit, Causes
    <2> QED
      BY <2>1, <2>2 DEF ExecInit, Shape, Points, Outcomes, Answers
  <1>2. HistoryTells
    BY DEF ExecInit, HistoryTells, Frames, Task
  <1>3. SuccessRepeats /\ PanicPath
    BY DEF ExecInit, SuccessRepeats, PanicPath, PanicsAreContained
  <1> QED
    BY <1>1, <1>2, <1>3 DEF ExecInv

\* The worker looks at its context before an attempt.
LEMMA WorkerHeadKeeps ==
    ASSUME ExecInv, WorkerHead
    PROVE  ExecInv'
  <1> USE DEF ExecInv, Shape, Frames, Task, Done, WorkerHead, Report,
         CallFrame, runVars
  <1>l. Len(chain) \in Nat /\ chain' = chain
    OBVIOUS
  <1>1. Shape'
    BY <1>l DEF Points, Causes, Outcomes, Answers
  <1>2. HistoryTells'
    BY <1>l DEF HistoryTells, Causes
  <1>3. SuccessRepeats'
    BY <1>l DEF SuccessRepeats
  <1>4. PanicPath'
    BY <1>l DEF PanicPath, PanicsAreContained
  <1> QED
    BY <1>1, <1>2, <1>3, <1>4

\* An attempt has returned to the worker: a success or the last failure is
\* reported.
LEMMA WorkerReturnedKeeps ==
    ASSUME ExecInv, WorkerReturned
    PROVE  ExecInv'
  <1> USE DEF ExecInv, Shape, Frames, Task, Done, WorkerReturned, Report,
         runVars
  <1>l. Len(chain) \in Nat /\ chain' = chain
    OBVIOUS
  <1>1. Shape'
    BY <1>l DEF Points, Causes, Outcomes, Answers
  <1>2. HistoryTells'
    BY <1>l DEF HistoryTells, Causes
  <1>3. SuccessRepeats'
    BY <1>l DEF SuccessRepeats
  <1>4. PanicPath'
    BY <1>l DEF PanicPath, PanicsAreContained
  <1> QED
    BY <1>1, <1>2, <1>3, <1>4

\* The worker's backoff ends, or is cut short by its context.
LEMMA WorkerBackoffKeeps ==
    ASSUME ExecInv, WorkerBackoff
    PROVE  ExecInv'
  <1> USE DEF ExecInv, Shape, Frames, Task, Done, WorkerBackoff, Report,
         runVars
  <1>l. Len(chain) \in Nat /\ chain' = chain
    OBVIOUS
  <1>1. Shape'
    BY <1>l DEF Points, Causes, Outcomes, Answers
  <1>2. HistoryTells'
    BY <1>l DEF HistoryTells, Causes
  <1>3. SuccessRepeats'
    BY <1>l DEF SuccessRepeats
  <1>4. PanicPath'
    BY <1>l DEF PanicPath, PanicsAreContained
  <1> QED
    BY <1>1, <1>2, <1>3, <1>4

\* A wrapper is called, with the context of the frame outside it.
LEMMA EnterKeeps ==
    ASSUME ExecInv, Enter
    PROVE  ExecInv'
  <1> USE DEF ExecInv, Shape, Frames, Task, Done, Enter, CallFrame, runVars
  <1>l. Len(chain) \in Nat /\ chain' = chain
    OBVIOUS
  <1>1. Shape'
    <2>1. at \in Frames /\ at + 1 \in Frames' /\ at - 1 \in Frames
      BY <1>l
    <2>2. cause' \in [Frames' -> Causes]
      BY <1>l, <2>1
    <2> QED
      BY <1>l, <2>1, <2>2 DEF Points, Causes, Outcomes, Answers
  <1>2. HistoryTells'
    BY <1>l DEF HistoryTells, Causes
  <1>3. SuccessRepeats'
    BY <1>l DEF SuccessRepeats
  <1>4. PanicPath'
    BY <1>l DEF PanicPath, PanicsAreContained
  <1> QED
    BY <1>1, <1>2, <1>3, <1>4

\* TimeoutMiddleware passes on what it got.
LEMMA LeaveTimeoutKeeps ==
    ASSUME ExecInv, LeaveTimeout
    PROVE  ExecInv'
  <1> USE DEF ExecInv, Shape, Frames, Task, Done, LeaveTimeout, ReturnTo,
         runVars
  <1>l. Len(chain) \in Nat /\ chain' = chain
    OBVIOUS
  <1>1. Shape'
    BY <1>l DEF Points, Causes, Outcomes, Answers
  <1>2. HistoryTells'
    BY <1>l DEF HistoryTells, Causes
  <1>3. SuccessRepeats'
    BY <1>l DEF SuccessRepeats
  <1>4. PanicPath'
    BY <1>l DEF PanicPath, PanicsAreContained
  <1> QED
    BY <1>1, <1>2, <1>3, <1>4

\* RecoveryMiddleware lets no panic through.
LEMMA LeaveRecoveryKeeps ==
    ASSUME ExecInv, LeaveRecovery
    PROVE  ExecInv'
  <1> USE DEF ExecInv, Shape, Frames, Task, Done, LeaveRecovery, ReturnTo,
         Recovered, runVars
  <1>l. Len(chain) \in Nat /\ chain' = chain
    OBVIOUS
  <1>1. Shape'
    BY <1>l DEF Points, Causes, Outcomes, Answers
  <1>2. HistoryTells'
    BY <1>l DEF HistoryTells, Causes
  <1>3. SuccessRepeats'
    BY <1>l DEF SuccessRepeats
  <1>4. PanicPath'
    BY <1>l DEF PanicPath, PanicsAreContained
  <1> QED
    BY <1>1, <1>2, <1>3, <1>4

\* RetryMiddleware passes on a success or a panic, and the error of a
\* context.
LEMMA RetryReturnedKeeps ==
    ASSUME ExecInv, RetryReturned
    PROVE  ExecInv'
  <1> USE DEF ExecInv, Shape, Frames, Task, Done, RetryReturned, ReturnTo,
         MwIsDone, ContextEnded, runVars
  <1>l. Len(chain) \in Nat /\ chain' = chain
    OBVIOUS
  <1>1. Shape'
    BY <1>l DEF Points, Causes, Outcomes, Answers
  <1>2. HistoryTells'
    BY <1>l DEF HistoryTells, Causes
  <1>3. SuccessRepeats'
    BY <1>l DEF SuccessRepeats
  <1>4. PanicPath'
    <2>1. UNCHANGED <<timed, crashed>> /\ PanicsAreContained'
      BY <1>l DEF PanicPath, PanicsAreContained
    <2>2. CASE pc' = "backoff"
      BY <2>1, <2>2 DEF PanicPath
    <2>3. CASE ~MwIsDone /\ pc' = "return"
      BY <2>1, <2>3 DEF PanicPath, Causes
    <2>4. CASE MwIsDone
      <3>1. at' = at - 1 /\ out' = out /\ chain[at] # "recovery"
        BY <2>4
      <3>2. \A k \in 1..Len(chain) : k > at' => k > at \/ k = at
        BY <1>l, <3>1
      <3> QED
        BY <1>l, <2>1, <3>1, <3>2 DEF PanicPath
    <2> QED
      BY <2>2, <2>3, <2>4
  <1> QED
    BY <1>1, <1>2, <1>3, <1>4

\* RetryMiddleware tries again: nothing had succeeded.
LEMMA RetryElapsesKeeps ==
    ASSUME ExecInv, RetryElapses
    PROVE  ExecInv'
  <1> USE DEF ExecInv, Shape, Frames, Task, Done, RetryElapses, CallFrame,
         runVars
  <1>l. Len(chain) \in Nat /\ chain' = chain
    OBVIOUS
  <1>1. Shape'
    BY <1>l DEF Points, Causes, Outcomes, Answers
  <1>2. HistoryTells'
    BY <1>l DEF HistoryTells, Causes
  <1>3. SuccessRepeats'
    BY <1>l DEF SuccessRepeats
  <1>4. PanicPath'
    BY <1>l DEF PanicPath, PanicsAreContained
  <1> QED
    BY <1>1, <1>2, <1>3, <1>4

\* RetryMiddleware returns the error of its context.
LEMMA RetryCanceledKeeps ==
    ASSUME ExecInv, RetryCanceled
    PROVE  ExecInv'
  <1> USE DEF ExecInv, Shape, Frames, Task, Done, RetryCanceled, ReturnTo,
         runVars
  <1>l. Len(chain) \in Nat /\ chain' = chain
    OBVIOUS
  <1>1. Shape'
    BY <1>l DEF Points, Causes, Outcomes, Answers
  <1>2. HistoryTells'
    BY <1>l DEF HistoryTells, Causes
  <1>3. SuccessRepeats'
    BY <1>l DEF SuccessRepeats
  <1>4. PanicPath'
    <2>1. out' # "panic" /\ pc' = "return"
      BY <1>l DEF Causes
    <2> QED
      BY <2>1 DEF PanicPath, PanicsAreContained
  <1> QED
    BY <1>1, <1>2, <1>3, <1>4

\* A run begins: unless a call was given up, none had succeeded.
LEMMA BeginRunKeeps ==
    ASSUME ExecInv, BeginRun
    PROVE  ExecInv'
  <1> USE DEF ExecInv, Shape, Frames, Task, Done, BeginRun
  <1>l. Len(chain) \in Nat /\ chain' = chain
    OBVIOUS
  <1>1. Shape'
    BY <1>l DEF Points, Causes, Outcomes, Answers
  <1>2. HistoryTells'
    BY <1>l DEF HistoryTells, Causes
  <1>3. SuccessRepeats'
    BY <1>l DEF SuccessRepeats
  <1>4. PanicPath'
    BY <1>l DEF PanicPath, PanicsAreContained
  <1> QED
    BY <1>1, <1>2, <1>3, <1>4

\* The call returns the answer of its goroutine.
LEMMA TakeAnswerKeeps ==
    ASSUME ExecInv, TakeAnswer
    PROVE  ExecInv'
  <1> USE DEF ExecInv, Shape, Frames, Task, Done, TakeAnswer, ReturnTo, runVars
  <1>l. Len(chain) \in Nat /\ chain' = chain
    OBVIOUS
  <1>1. Shape'
    BY <1>l DEF Points, Causes, Outcomes, Answers
  <1>2. HistoryTells'
    BY <1>l DEF HistoryTells, Causes, Answers
  <1>3. SuccessRepeats'
    BY <1>l DEF SuccessRepeats, Answers
  <1>4. PanicPath'
    BY <1>l DEF PanicPath, PanicsAreContained, Answers
  <1> QED
    BY <1>1, <1>2, <1>3, <1>4

\* The call returns for its context, which has ended as its error says.
LEMMA GiveUpKeeps ==
    ASSUME ExecInv, GiveUp
    PROVE  ExecInv'
  <1> USE DEF ExecInv, Shape, Frames, Task, Done, GiveUp, ReturnTo, MayGiveUp,
         ContextError, runVars
  <1>l. Len(chain) \in Nat /\ chain' = chain
    OBVIOUS
  <1>1. Shape'
    BY <1>l DEF Points, Causes, Outcomes, Answers
  <1>2. HistoryTells'
    BY <1>l DEF HistoryTells, Causes
  <1>3. SuccessRepeats'
    BY <1>l DEF SuccessRepeats
  <1>4. PanicPath'
    BY <1>l DEF PanicPath, PanicsAreContained
  <1> QED
    BY <1>1, <1>2, <1>3, <1>4

\* Without a timeout the function returns or panics in the worker's
\* goroutine.
LEMMA InlineReturnsKeeps ==
    ASSUME ExecInv, InlineReturns
    PROVE  ExecInv'
  <1> USE DEF ExecInv, Shape, Frames, Task, Done, InlineReturns, ReturnTo,
         Succeeds
  <1>l. Len(chain) \in Nat /\ chain' = chain
    OBVIOUS
  <1>1. Shape'
    BY <1>l DEF Points, Causes, Outcomes, Answers
  <1>2. HistoryTells'
    BY <1>l DEF HistoryTells, Causes, Answers
  <1>3. SuccessRepeats'
    BY <1>l DEF SuccessRepeats, Answers
  <1>4. PanicPath'
    BY <1>l DEF PanicPath, PanicsAreContained, Answers
  <1> QED
    BY <1>1, <1>2, <1>3, <1>4

\* The goroutine answers, or throws its answer away.
LEMMA RunReturnsKeeps ==
    ASSUME ExecInv, RunReturns
    PROVE  ExecInv'
  <1> USE DEF ExecInv, Shape, Frames, Task, Done, RunReturns, Succeeds,
         callVars
  <1>l. Len(chain) \in Nat /\ chain' = chain
    OBVIOUS
  <1>1. Shape'
    BY <1>l DEF Points, Causes, Outcomes, Answers
  <1>2. HistoryTells'
    BY <1>l DEF HistoryTells, Causes, Answers
  <1>3. SuccessRepeats'
    BY <1>l DEF SuccessRepeats, Answers
  <1>4. PanicPath'
    BY <1>l DEF PanicPath, PanicsAreContained, Answers
  <1> QED
    BY <1>1, <1>2, <1>3, <1>4

\* An abandoned run returns: a call was given up.
LEMMA OrphanReturnsKeeps ==
    ASSUME ExecInv, OrphanReturns
    PROVE  ExecInv'
  <1> USE DEF ExecInv, Shape, Frames, Task, Done, OrphanReturns, Succeeds,
         callVars
  <1>l. Len(chain) \in Nat /\ chain' = chain
    OBVIOUS
  <1>1. Shape'
    BY <1>l DEF Points, Causes, Outcomes, Answers
  <1>2. HistoryTells'
    BY <1>l DEF HistoryTells, Causes, Answers
  <1>3. SuccessRepeats'
    BY <1>l DEF SuccessRepeats, Answers
  <1>4. PanicPath'
    BY <1>l DEF PanicPath, PanicsAreContained, Answers
  <1> QED
    BY <1>1, <1>2, <1>3, <1>4

\* A goroutine panics: the task has a timeout.
LEMMA RunPanicsKeeps ==
    ASSUME ExecInv, RunPanics
    PROVE  ExecInv'
  <1> USE DEF ExecInv, Shape, Frames, Task, Done, RunPanics, callVars, runVars
  <1>l. Len(chain) \in Nat /\ chain' = chain
    OBVIOUS
  <1>1. Shape'
    BY <1>l DEF Points, Causes, Outcomes, Answers
  <1>2. HistoryTells'
    BY <1>l DEF HistoryTells, Causes
  <1>3. SuccessRepeats'
    BY <1>l DEF SuccessRepeats
  <1>4. PanicPath'
    BY <1>l DEF PanicPath, PanicsAreContained
  <1> QED
    BY <1>1, <1>2, <1>3, <1>4

\* The worker's context ends, and those inside it that had not.
LEMMA CancelKeeps ==
    ASSUME ExecInv, Cancel
    PROVE  ExecInv'
  <1> USE DEF ExecInv, Shape, Frames, Task, Done, Cancel, EndFrom, callVars,
         runVars
  <1>l. Len(chain) \in Nat /\ chain' = chain
    OBVIOUS
  <1>1. Shape'
    BY <1>l DEF Points, Causes, Outcomes, Answers
  <1>2. HistoryTells'
    BY <1>l DEF HistoryTells, Causes
  <1>3. SuccessRepeats'
    BY <1>l DEF SuccessRepeats
  <1>4. PanicPath'
    BY <1>l DEF PanicPath, PanicsAreContained
  <1> QED
    BY <1>1, <1>2, <1>3, <1>4

\* A timeout elapses: the contexts inside it end.
LEMMA ExpireKeeps ==
    ASSUME ExecInv, NEW k \in Frames, Expire(k)
    PROVE  ExecInv'
  <1> USE DEF ExecInv, Shape, Frames, Task, Done, Expire, EndFrom, callVars,
         runVars
  <1>l. Len(chain) \in Nat /\ chain' = chain
    OBVIOUS
  <1>1. Shape'
    BY <1>l DEF Points, Causes, Outcomes, Answers
  <1>2. HistoryTells'
    BY <1>l DEF HistoryTells, Causes
  <1>3. SuccessRepeats'
    BY <1>l DEF SuccessRepeats
  <1>4. PanicPath'
    BY <1>l DEF PanicPath, PanicsAreContained
  <1> QED
    BY <1>1, <1>2, <1>3, <1>4

\* Every step keeps the invariant.
LEMMA ExecInvNext == ExecInv /\ [ExecNext]_execVars => ExecInv'
  <1> SUFFICES ASSUME ExecInv, [ExecNext]_execVars
               PROVE  ExecInv'
    OBVIOUS
  <1>1. CASE Executor
    BY <1>1, WorkerHeadKeeps, WorkerReturnedKeeps, WorkerBackoffKeeps,
       EnterKeeps, LeaveTimeoutKeeps, LeaveRecoveryKeeps, RetryReturnedKeeps,
       RetryElapsesKeeps, RetryCanceledKeeps, BeginRunKeeps, TakeAnswerKeeps,
       GiveUpKeeps
       DEF Executor
  <1>2. CASE Function
    BY <1>2, InlineReturnsKeeps, RunReturnsKeeps, OrphanReturnsKeeps,
       RunPanicsKeeps
       DEF Function
  <1>3. CASE Cancel
    BY <1>3, CancelKeeps
  <1>4. ASSUME NEW k \in Frames, Expire(k) PROVE ExecInv'
    BY <1>4, ExpireKeeps
  <1>5. CASE UNCHANGED execVars
    BY <1>5
       DEF execVars, callVars, runVars, ExecInv, Shape, HistoryTells,
           SuccessRepeats, PanicPath, PanicsAreContained, Frames, Task, Done
  <1> QED
    BY <1>1, <1>2, <1>3, <1>4, <1>5 DEF ExecNext

\* The invariant holds of every execution.
LEMMA ExecInvHolds == ExecSpec => []ExecInv
  BY ExecInvInit, ExecInvNext, PTL DEF ExecSpec

\* Whatever the chain and the retries, a reported success is one of the
\* function, a reported timeout had elapsed and a reported cancellation was one
\* (FunctionTask.Execute, RetryMiddleware, executeWithRetries).
THEOREM ReportTellsHolds == ExecSpec => []ReportTells
  <1>1. ExecInv => ReportTells
    BY DEF ExecInv, HistoryTells, ReportTells
  <1> QED
    BY <1>1, ExecInvHolds, PTL

\* However the wrappers are nested, a function that succeeded runs again only if
\* FunctionTask.Execute returned for its context.
THEOREM SuccessIsFinalHolds == ExecSpec => []SuccessIsFinal
  <1>1. ExecInv => SuccessIsFinal
    BY DEF ExecInv, SuccessRepeats, SuccessIsFinal
  <1> QED
    BY <1>1, ExecInvHolds, PTL

\* RecoveryMiddleware, anywhere in any chain, contains the panics of a task that
\* has no timeout.
THEOREM PanicsAreContainedHolds == ExecSpec => []PanicsAreContained
  <1>1. ExecInv => PanicsAreContained
    BY DEF ExecInv, PanicPath
  <1> QED
    BY <1>1, ExecInvHolds, PTL
-----------------------------------------------------------------------------
(* The counters: retries, runs, and runs begun too late. *)

\* The types of the counters, with the retries within their budgets and each
\* abandoned run one that was begun.
Counted ==
    /\ chain \in Chains
    /\ tries \in [Frames -> Nat]
    /\ \A k \in Frames : tries[k] <= Budget(k)
    /\ pc = "backoff" => tries[at] < Budget(at)
    /\ started \in Nat
    /\ orphans <= started
    /\ fn = "running" => orphans < started
    /\ late \in Nat
    /\ late <= started
    /\ succeeded \in BOOLEAN
    /\ repeated \in BOOLEAN
    /\ gaveUp \in BOOLEAN
    /\ expired \in BOOLEAN

\* The end of the worker's context is the end of every context, and once a run
\* has begun after it no frame calls inwards again.
LateInv ==
    /\ Done(0) => \A k \in Frames : Done(k)
    /\ late \in {0, 1}
    /\ late = 1 => /\ Done(0)
                   /\ pc # "call"
                   /\ pc = "backoff" => at = 0

\* The runs that one attempt of the worker may begin, and those that the
\* attempts it has finished may have begun.
RunsPerTry == IF Retriers = {} THEN 1 ELSE MwRetries + 1
Past == tries[0] * RunsPerTry

\* The tries that the worker and the one wrapper that retries have made account
\* for the runs begun.
RunsInv ==
    /\ pc \in {"select", "inline"} => at = Task
    /\ pc = "backoff" /\ at > 0 => at \in Retriers
    /\ (\A j, k \in Retriers : j = k) =>
         IF pc \in {"head", "call"}
         THEN /\ (\A r \in Retriers : r >= at) => started <= Past
              /\ \A r \in Retriers : r < at => started <= Past + tries[r]
         ELSE /\ started <= Past + RunsPerTry
              /\ \A r \in Retriers :
                   r <= at => started <= Past + tries[r] + 1

\* The counters start at zero.
LEMMA CountersInit == ExecInit => Counted /\ LateInv /\ RunsInv
  <1> SUFFICES ASSUME ExecInit PROVE Counted /\ LateInv /\ RunsInv
    OBVIOUS
  <1> USE ExecutionAssumption DEF ExecInit, Frames, Task
  <1>l. Len(chain) \in Nat
    OBVIOUS
  <1>1. Counted
    BY <1>l DEF Counted, Budget
  <1>2. LateInv
    BY <1>l DEF LateInv, Done
  <1>3. RunsInv
    <2>1. RunsPerTry \in Nat /\ Past = 0
      BY <1>l DEF RunsPerTry, Past
    <2> QED
      BY <1>l, <2>1 DEF RunsInv, Retriers
  <1> QED
    BY <1>1, <1>2, <1>3

\* A try that was left is counted within its budget.
LEMMA NextTryCounts ==
    ASSUME tries \in [Frames -> Nat],
           \A j \in Frames : tries[j] <= Budget(j),
           NEW k \in Frames,
           tries[k] < Budget(k),
           UNCHANGED chain,
           tries' = NextTry(k)
    PROVE  /\ tries' \in [Frames' -> Nat]
           /\ \A j \in Frames' : tries'[j] <= Budget(j)'
  <1>1. Frames' = Frames
    BY DEF Frames, Task
  <1>2. \A j \in Frames : tries'[j] \in Nat /\ tries'[j] <= Budget(j)
    BY ExecutionAssumption DEF NextTry, Budget
  <1> QED
    BY <1>1, <1>2 DEF NextTry, Budget

\* Every step counts within the budgets.
LEMMA CountedNext == ExecInv /\ Counted /\ [ExecNext]_execVars => Counted'
  <1> SUFFICES ASSUME ExecInv, Counted, [ExecNext]_execVars
               PROVE  Counted'
    OBVIOUS
  <1> USE ExecutionAssumption
          DEF Counted, ExecInv, Shape, Frames, Task, Done, Budget
  <1>l. Len(chain) \in Nat
    OBVIOUS
  <1>1. CASE WorkerHead
    BY <1>l, <1>1 DEF WorkerHead, Report, CallFrame, runVars
  <1>2. CASE WorkerReturned
    BY <1>l, <1>2 DEF WorkerReturned, Report, LastTry, runVars
  <1>3. CASE WorkerBackoff
    <2>1. CASE UNCHANGED tries
      BY <1>l, <1>3, <2>1 DEF WorkerBackoff, Report, runVars
    <2>2. CASE tries' = NextTry(0) /\ pc' = "head"
      <3>1. 0 \in Frames /\ at = 0 /\ UNCHANGED chain /\ tries' = NextTry(0)
        BY <1>l, <1>3, <2>2 DEF WorkerBackoff
      <3>2. tries[0] < Budget(0)
        BY <1>3, <3>1 DEF WorkerBackoff
      <3>3. /\ tries' \in [Frames' -> Nat]
            /\ \A k \in Frames' : tries'[k] <= Budget(k)'
        BY <3>1, <3>2, NextTryCounts
      <3> QED
        BY <1>l, <1>3, <2>2, <3>3 DEF WorkerBackoff, runVars
    <2> QED
      BY <1>3, <2>1, <2>2 DEF WorkerBackoff
  <1>4. CASE Enter
    BY <1>l, <1>4 DEF Enter, CallFrame, runVars
  <1>5. CASE LeaveTimeout
    BY <1>l, <1>5 DEF LeaveTimeout, ReturnTo, runVars
  <1>6. CASE LeaveRecovery
    BY <1>l, <1>6 DEF LeaveRecovery, ReturnTo, runVars
  <1>7. CASE RetryReturned
    BY <1>l, <1>7 DEF RetryReturned, ReturnTo, MwIsDone, ContextEnded, LastTry,
       runVars
  <1>8. CASE RetryElapses
    <2>1. tries[at] < Budget(at) /\ UNCHANGED chain /\ tries' = NextTry(at)
      BY <1>8 DEF RetryElapses
    <2>2. /\ tries' \in [Frames' -> Nat]
          /\ \A k \in Frames' : tries'[k] <= Budget(k)'
      BY <2>1, NextTryCounts
    <2> QED
      BY <1>l, <1>8, <2>2 DEF RetryElapses, CallFrame, runVars
  <1>9. CASE RetryCanceled
    BY <1>l, <1>9 DEF RetryCanceled, ReturnTo, runVars
  <1>10. CASE BeginRun
    BY <1>l, <1>10 DEF BeginRun, runVars
  <1>11. CASE TakeAnswer
    BY <1>l, <1>11 DEF TakeAnswer, ReturnTo, runVars
  <1>12. CASE GiveUp
    BY <1>l, <1>12 DEF GiveUp, ReturnTo, MayGiveUp, runVars
  <1>13. CASE InlineReturns
    BY <1>l, <1>13 DEF InlineReturns, ReturnTo, Succeeds, runVars
  <1>14. CASE RunReturns
    BY <1>l, <1>14 DEF RunReturns, Succeeds, callVars, runVars
  <1>15. CASE OrphanReturns
    BY <1>l, <1>15 DEF OrphanReturns, Succeeds, callVars, runVars
  <1>16. CASE RunPanics
    BY <1>l, <1>16 DEF RunPanics, callVars, runVars
  <1>17. CASE Cancel
    BY <1>l, <1>17 DEF Cancel, EndFrom, callVars, runVars
  <1>18. ASSUME NEW k \in Frames, Expire(k) PROVE Counted'
    BY <1>l, <1>18 DEF Expire, EndFrom, callVars, runVars
  <1>19. CASE UNCHANGED execVars
    BY <1>19 DEF execVars, callVars, runVars
  <1> QED
    BY <1>1, <1>2, <1>3, <1>4, <1>5, <1>6, <1>7, <1>8, <1>9, <1>10, <1>11,
       <1>12, <1>13, <1>14, <1>15, <1>16, <1>17, <1>18, <1>19
       DEF ExecNext, Executor, Function

\* Every step keeps what a run begun too late tells.
LEMMA LateNext == ExecInv /\ LateInv /\ [ExecNext]_execVars => LateInv'
  <1> SUFFICES ASSUME ExecInv, LateInv, [ExecNext]_execVars
               PROVE  LateInv'
    OBVIOUS
  <1> USE DEF LateInv, ExecInv, Shape, Frames, Task, Done
  <1>l. Len(chain) \in Nat
    OBVIOUS
  <1>1. CASE WorkerHead
    BY <1>l, <1>1 DEF WorkerHead, Report, CallFrame, runVars
  <1>2. CASE WorkerReturned
    BY <1>l, <1>2 DEF WorkerReturned, Report, LastTry, runVars
  <1>3. CASE WorkerBackoff
    BY <1>l, <1>3 DEF WorkerBackoff, Report, NextTry, runVars
  <1>4. CASE Enter
    BY <1>l, <1>4 DEF Enter, CallFrame, runVars
  <1>5. CASE LeaveTimeout
    BY <1>l, <1>5 DEF LeaveTimeout, ReturnTo, runVars
  <1>6. CASE LeaveRecovery
    BY <1>l, <1>6 DEF LeaveRecovery, ReturnTo, runVars
  <1>7. CASE RetryReturned
    BY <1>l, <1>7 DEF RetryReturned, ReturnTo, MwIsDone, ContextEnded, LastTry,
       runVars
  <1>8. CASE RetryElapses
    BY <1>l, <1>8 DEF RetryElapses, CallFrame, NextTry, runVars
  <1>9. CASE RetryCanceled
    BY <1>l, <1>9 DEF RetryCanceled, ReturnTo, runVars
  <1>10. CASE BeginRun
    BY <1>l, <1>10 DEF BeginRun, runVars
  <1>11. CASE TakeAnswer
    BY <1>l, <1>11 DEF TakeAnswer, ReturnTo, runVars
  <1>12. CASE GiveUp
    BY <1>l, <1>12 DEF GiveUp, ReturnTo, MayGiveUp, runVars
  <1>13. CASE InlineReturns
    BY <1>l, <1>13 DEF InlineReturns, ReturnTo, Succeeds, runVars
  <1>14. CASE RunReturns
    BY <1>l, <1>14 DEF RunReturns, Succeeds, callVars, runVars
  <1>15. CASE OrphanReturns
    BY <1>l, <1>15 DEF OrphanReturns, Succeeds, callVars, runVars
  <1>16. CASE RunPanics
    BY <1>l, <1>16 DEF RunPanics, callVars, runVars
  <1>17. CASE Cancel
    BY <1>l, <1>17 DEF Cancel, EndFrom, callVars, runVars
  <1>18. ASSUME NEW k \in Frames, Expire(k) PROVE LateInv'
    BY <1>l, <1>18 DEF Expire, EndFrom, callVars, runVars
  <1>19. CASE UNCHANGED execVars
    BY <1>19 DEF execVars, callVars, runVars
  <1> QED
    BY <1>1, <1>2, <1>3, <1>4, <1>5, <1>6, <1>7, <1>8, <1>9, <1>10, <1>11,
       <1>12, <1>13, <1>14, <1>15, <1>16, <1>17, <1>18, <1>19
       DEF ExecNext, Executor, Function

\* A product of counts is a count.
LEMMA ProductIsNat == \A m, n \in Nat : m * n \in Nat
  OBVIOUS

\* Once more is one more.
LEMMA OneMoreTime == \A m, n \in Nat : (m + 1) * n = m * n + n
  OBVIOUS

\* Fewer times is no more.
LEMMA FewerTimes == \A m, n, w \in Nat : m <= w => m * n + n <= (w + 1) * n
  OBVIOUS

\* What the definitions of RunsInv are.
LEMMA RunsTypes ==
    ASSUME ExecInv, Counted
    PROVE  /\ Retriers \subseteq 1..Len(chain)
           /\ RunsPerTry \in Nat
           /\ Past \in Nat
           /\ started \in Nat
           /\ \A k \in Frames : tries[k] \in Nat
           /\ \A r \in Retriers : r \in Frames /\ tries[r] + 1 <= RunsPerTry
  <1>l. Len(chain) \in Nat
    BY DEF ExecInv, Shape
  <1>1. Retriers \subseteq 1..Len(chain)
    BY DEF Retriers
  <1>2. RunsPerTry \in Nat
    BY ExecutionAssumption DEF RunsPerTry
  <1>3. \A k \in Frames : tries[k] \in Nat /\ tries[k] <= Budget(k)
    BY DEF Counted
  <1>4. Past \in Nat
    <2>1. tries[0] \in Nat
      BY <1>l, <1>3 DEF Frames, Task
    <2> QED
      BY <1>2, <2>1, ProductIsNat DEF Past
  <1>5. ASSUME NEW r \in Retriers
        PROVE  r \in Frames /\ tries[r] + 1 <= RunsPerTry
    <2>1. r \in Frames /\ r # 0
      BY <1>l, <1>1 DEF Frames, Task
    <2>2. RunsPerTry = MwRetries + 1 /\ Budget(r) = MwRetries
      BY <2>1 DEF RunsPerTry, Budget
    <2> QED
      BY <1>3, <2>1, <2>2, ExecutionAssumption
  <1> QED
    BY <1>1, <1>2, <1>3, <1>4, <1>5 DEF Counted

\* Unless the worker tries again, the attempts it has finished stay the same.
LEMMA PastStays ==
    ASSUME UNCHANGED chain, tries'[0] = tries[0]
    PROVE  /\ Retriers' = Retriers
           /\ RunsPerTry' = RunsPerTry
           /\ Past' = Past
  BY DEF Retriers, RunsPerTry, Past

\* On the way back to the worker the account stays as it is.
LEMMA WayBack ==
    ASSUME ExecInv, Counted, RunsInv,
           pc \notin {"head", "call"},
           pc' \in {"return", "backoff", "done"},
           at' \in Frames, at' <= at,
           pc' = "backoff" => at' = 0 \/ at' \in Retriers,
           UNCHANGED <<chain, tries, started>>
    PROVE  RunsInv'
  <1>1. Retriers' = Retriers /\ RunsPerTry' = RunsPerTry /\ Past' = Past
    BY PastStays
  <1>2. /\ Retriers \subseteq 1..Len(chain) /\ Len(chain) \in Nat
        /\ at \in Frames
    BY RunsTypes DEF ExecInv, Shape
  <1>3. \A r \in Retriers : r <= at' => r <= at
    BY <1>2 DEF Frames, Task
  <1> QED
    BY <1>1, <1>2, <1>3 DEF RunsInv, Frames, Task

\* Every step keeps the account of the runs.
LEMMA RunsNext ==
    ExecInv /\ Counted /\ RunsInv /\ [ExecNext]_execVars => RunsInv'
  <1> SUFFICES ASSUME ExecInv, Counted, RunsInv, [ExecNext]_execVars
               PROVE  RunsInv'
    OBVIOUS
  <1> USE DEF ExecInv, Shape, Frames, Task, Done
  <1>l. Len(chain) \in Nat
    OBVIOUS
  <1>t. /\ Retriers \subseteq 1..Len(chain)
        /\ RunsPerTry \in Nat
        /\ Past \in Nat
        /\ started \in Nat
        /\ \A k \in Frames : tries[k] \in Nat
        /\ \A r \in Retriers : r \in Frames /\ tries[r] + 1 <= RunsPerTry
    BY RunsTypes
  <1>1. CASE WorkerHead
    <2>1. UNCHANGED chain /\ tries'[0] = tries[0]
      BY <1>l, <1>1 DEF WorkerHead, NextTry
    <2>2. Retriers' = Retriers /\ RunsPerTry' = RunsPerTry /\ Past' = Past
      BY <2>1, PastStays
    <2>3. /\ pc = "head" /\ at = 0 /\ started' = started
          /\ \/ pc' = "done" /\ at' = 0
             \/ pc' = "call" /\ at' = 1 /\ tries'[0] = tries[0]
      BY <1>1, <2>1 DEF WorkerHead, Report, CallFrame, runVars
    <2>4. /\ \A r \in Retriers : r >= 1 /\ r >= at
          /\ \A r \in Retriers : ~(r < 1) /\ ~(r <= 0)
      BY <1>t, <2>3
    <2>5. (\A j, k \in Retriers : j = k)
            => started <= Past /\ started <= Past + RunsPerTry
      <3>1. (\A j, k \in Retriers : j = k) => started <= Past
        BY <2>3, <2>4 DEF RunsInv
      <3> QED
        BY <1>t, <3>1
    <2> QED
      BY <2>2, <2>3, <2>4, <2>5 DEF RunsInv
  <1>2. CASE WorkerReturned
    <2>1. UNCHANGED chain /\ tries'[0] = tries[0]
      BY <1>l, <1>2 DEF WorkerReturned, NextTry
    <2>2. Retriers' = Retriers /\ RunsPerTry' = RunsPerTry /\ Past' = Past
      BY <2>1, PastStays
    <2> QED
      BY <1>l, <1>t, <1>2, <2>2
         DEF RunsInv, WorkerReturned, Report, LastTry, runVars
  <1>3. CASE WorkerBackoff
    <2>1. CASE UNCHANGED tries
      BY <1>l, <1>3, <2>1, WayBack DEF WorkerBackoff, Report, runVars
    <2>2. CASE tries' = NextTry(0) /\ pc' = "head"
      <3>1. /\ UNCHANGED <<chain, started>> /\ at = 0 /\ at' = 0
            /\ tries'[0] = tries[0] + 1 /\ tries[0] \in Nat
        <4>1. 0 \in Frames /\ tries \in [Frames -> Nat]
          BY <1>l DEF Counted
        <4>2. UNCHANGED <<chain, started>> /\ at = 0 /\ at' = 0
          BY <1>l, <1>3, <2>2 DEF WorkerBackoff, runVars
        <4> QED
          BY <2>2, <4>1, <4>2 DEF NextTry
      <3>2. Retriers' = Retriers /\ RunsPerTry' = RunsPerTry
        BY <3>1 DEF Retriers, RunsPerTry
      <3>3. Past' = Past + RunsPerTry
        BY <1>t, <3>1, <3>2, OneMoreTime DEF Past
      <3>4. (\A j, k \in Retriers : j = k) => started <= Past + RunsPerTry
        BY <1>3 DEF WorkerBackoff, RunsInv
      <3>5. \A r \in Retriers : ~(r < at')
        BY <1>l, <1>t, <3>1
      <3> QED
        BY <2>2, <3>1, <3>2, <3>3, <3>4, <3>5 DEF RunsInv
    <2> QED
      BY <1>3, <2>1, <2>2 DEF WorkerBackoff
  <1>4. CASE Enter
    <2>1. UNCHANGED chain /\ tries'[0] = tries[0]
      BY <1>l, <1>4 DEF Enter, NextTry
    <2>2. Retriers' = Retriers /\ RunsPerTry' = RunsPerTry /\ Past' = Past
      BY <2>1, PastStays
    <2> QED
      BY <1>l, <1>t, <1>4, <2>2
         DEF RunsInv, Enter, CallFrame, runVars
  <1>5. CASE LeaveTimeout
    <2>1. UNCHANGED chain /\ tries'[0] = tries[0]
      BY <1>l, <1>5 DEF LeaveTimeout, NextTry
    <2>2. Retriers' = Retriers /\ RunsPerTry' = RunsPerTry /\ Past' = Past
      BY <2>1, PastStays
    <2> QED
      BY <1>l, <1>t, <1>5, <2>2
         DEF RunsInv, LeaveTimeout, ReturnTo, runVars
  <1>6. CASE LeaveRecovery
    <2>1. UNCHANGED chain /\ tries'[0] = tries[0]
      BY <1>l, <1>6 DEF LeaveRecovery, NextTry
    <2>2. Retriers' = Retriers /\ RunsPerTry' = RunsPerTry /\ Past' = Past
      BY <2>1, PastStays
    <2> QED
      BY <1>l, <1>t, <1>6, <2>2
         DEF RunsInv, LeaveRecovery, ReturnTo, runVars
  <1>7. CASE RetryReturned
    BY <1>l, <1>7, WayBack
       DEF RetryReturned, ReturnTo, Retriers, runVars
  <1>8. CASE RetryElapses
    <2>1. /\ UNCHANGED chain /\ tries' = [tries EXCEPT ![at] = @ + 1]
          /\ at > 0 /\ at' = at + 1 /\ pc' = "call" /\ started' = started
      BY <1>8 DEF RetryElapses, NextTry, CallFrame, runVars
    <2>2. Retriers' = Retriers /\ RunsPerTry' = RunsPerTry /\ Past' = Past
      BY <1>l, <2>1, PastStays
    <2>3. /\ at \in Retriers
          /\ tries'[at] = tries[at] + 1 /\ tries[at] \in Nat
      <3>1. at \in Retriers
        BY <1>8, <2>1 DEF RetryElapses, RunsInv
      <3>2. at \in Frames /\ tries \in [Frames -> Nat]
        BY DEF Counted
      <3> QED
        BY <2>1, <3>1, <3>2
    <2>4. ASSUME \A j, k \in Retriers : j = k
          PROVE  /\ ~\A r \in Retriers : r >= at'
                 /\ \A r \in Retriers : started' <= Past + tries'[r]
      <3>1. at \in Nat /\ ~(at >= at')
        BY <1>l, <2>1
      <3>2. started <= Past + tries[at] + 1
        BY <1>8, <2>3, <2>4, <3>1 DEF RetryElapses, RunsInv
      <3>3. started' <= Past + tries'[at]
        BY <1>t, <2>1, <2>3, <3>2
      <3> QED
        BY <2>3, <2>4, <3>1, <3>3
    <2> QED
      BY <2>1, <2>2, <2>4 DEF RunsInv
  <1>9. CASE RetryCanceled
    <2>1. UNCHANGED chain /\ tries'[0] = tries[0]
      BY <1>l, <1>9 DEF RetryCanceled, NextTry
    <2>2. Retriers' = Retriers /\ RunsPerTry' = RunsPerTry /\ Past' = Past
      BY <2>1, PastStays
    <2> QED
      BY <1>l, <1>t, <1>9, <2>2
         DEF RunsInv, RetryCanceled, ReturnTo, runVars
  <1>10. CASE BeginRun
    <2>1. UNCHANGED chain /\ tries'[0] = tries[0]
      BY <1>l, <1>10 DEF BeginRun, NextTry
    <2>2. Retriers' = Retriers /\ RunsPerTry' = RunsPerTry /\ Past' = Past
      BY <2>1, PastStays
    <2> QED
      BY <1>l, <1>t, <1>10, <2>2
         DEF RunsInv, BeginRun, runVars
  <1>11. CASE TakeAnswer
    BY <1>l, <1>11, WayBack
       DEF TakeAnswer, ReturnTo, RunsInv, runVars
  <1>12. CASE GiveUp
    BY <1>l, <1>12, WayBack
       DEF GiveUp, ReturnTo, RunsInv, runVars
  <1>13. CASE InlineReturns
    BY <1>l, <1>13, WayBack
       DEF InlineReturns, ReturnTo, RunsInv, runVars
  <1>14. CASE RunReturns
    <2>1. UNCHANGED chain /\ tries'[0] = tries[0]
      BY <1>l, <1>14 DEF RunReturns, NextTry
    <2>2. Retriers' = Retriers /\ RunsPerTry' = RunsPerTry /\ Past' = Past
      BY <2>1, PastStays
    <2> QED
      BY <1>l, <1>t, <1>14, <2>2
         DEF RunsInv, RunReturns, callVars, runVars
  <1>15. CASE OrphanReturns
    <2>1. UNCHANGED chain /\ tries'[0] = tries[0]
      BY <1>l, <1>15 DEF OrphanReturns, NextTry
    <2>2. Retriers' = Retriers /\ RunsPerTry' = RunsPerTry /\ Past' = Past
      BY <2>1, PastStays
    <2> QED
      BY <1>l, <1>t, <1>15, <2>2
         DEF RunsInv, OrphanReturns, callVars, runVars
  <1>16. CASE RunPanics
    <2>1. UNCHANGED chain /\ tries'[0] = tries[0]
      BY <1>l, <1>16 DEF RunPanics, NextTry
    <2>2. Retriers' = Retriers /\ RunsPerTry' = RunsPerTry /\ Past' = Past
      BY <2>1, PastStays
    <2> QED
      BY <1>l, <1>t, <1>16, <2>2
         DEF RunsInv, RunPanics, callVars, runVars
  <1>17. CASE Cancel
    <2>1. UNCHANGED chain /\ tries'[0] = tries[0]
      BY <1>l, <1>17 DEF Cancel, NextTry
    <2>2. Retriers' = Retriers /\ RunsPerTry' = RunsPerTry /\ Past' = Past
      BY <2>1, PastStays
    <2> QED
      BY <1>l, <1>t, <1>17, <2>2
         DEF RunsInv, Cancel, callVars, runVars
  <1>18. ASSUME NEW k \in Frames, Expire(k) PROVE RunsInv'
    <2>1. UNCHANGED <<chain, tries>>
      BY <1>18 DEF Expire
    <2>2. Retriers' = Retriers /\ RunsPerTry' = RunsPerTry /\ Past' = Past
      BY <2>1, PastStays
    <2> QED
      BY <1>18, <2>1, <2>2 DEF RunsInv, Expire, callVars, runVars
  <1>19. CASE UNCHANGED execVars
    <2>1. Retriers' = Retriers /\ RunsPerTry' = RunsPerTry /\ Past' = Past
      BY <1>19, PastStays DEF execVars
    <2> QED
      BY <1>19, <2>1 DEF RunsInv, execVars, callVars, runVars
  <1> QED
    BY <1>1, <1>2, <1>3, <1>4, <1>5, <1>6, <1>7, <1>8, <1>9, <1>10, <1>11,
       <1>12, <1>13, <1>14, <1>15, <1>16, <1>17, <1>18, <1>19
       DEF ExecNext, Executor, Function

\* What the types, the retries and the runs amount to in every state.
LEMMA CountersHold == ExecSpec => [](ExecInv /\ Counted /\ LateInv /\ RunsInv)
  <1>1. ExecInit => ExecInv /\ Counted /\ LateInv /\ RunsInv
    BY ExecInvInit, CountersInit
  <1>2. ExecInv /\ Counted /\ LateInv /\ RunsInv /\ [ExecNext]_execVars
          => (ExecInv /\ Counted /\ LateInv /\ RunsInv)'
    BY ExecInvNext, CountedNext, LateNext, RunsNext
  <1> QED
    BY <1>1, <1>2, PTL DEF ExecSpec

\* Type correctness, with the retries of the worker and of RetryMiddleware
\* within their budgets.
THEOREM ExecTypeCorrect == ExecSpec => []ExecTypeOK
  <1>1. ExecInv /\ Counted => ExecTypeOK
    BY DEF ExecInv, Shape, Counted, ExecTypeOK, Points, Causes
  <1> QED
    BY <1>1, CountersHold, PTL

\* Wherever in the chain RetryMiddleware is, and whatever it and the worker
\* wait for, at most one run begins after the worker's context is done.
THEOREM CancelStopsRunsHolds == ExecSpec => []CancelStopsRuns
  <1>1. LateInv => CancelStopsRuns
    BY DEF LateInv, CancelStopsRuns
  <1> QED
    BY <1>1, CountersHold, PTL

\* For all retries of the worker and of the middleware, a task begins no more
\* runs than their product allows.
THEOREM RunsBoundedHolds == ExecSpec => []RunsBounded
  <1>1. ExecInv /\ Counted /\ RunsInv => RunsBounded
    <2> SUFFICES ASSUME ExecInv, Counted, RunsInv,
                        \A j, k \in Retriers : j = k
                 PROVE  started <= (WorkerRetries + 1) * RunsPerTry
      BY DEF RunsBounded, RunsPerTry
    <2>1. /\ started \in Nat /\ Past \in Nat /\ RunsPerTry \in Nat
          /\ \A r \in Retriers : tries[r] + 1 <= RunsPerTry
          /\ \A r \in Retriers : r \in Frames /\ tries[r] \in Nat
      BY RunsTypes
    <2>2. tries[0] \in Nat /\ tries[0] <= WorkerRetries
      BY DEF Counted, ExecInv, Shape, Frames, Task, Budget
    <2>3. started <= Past + RunsPerTry
      <3>1. CASE pc \notin {"head", "call"}
        BY <3>1 DEF RunsInv
      <3>2. CASE pc \in {"head", "call"} /\ \A r \in Retriers : r >= at
        <4>1. started <= Past
          BY <3>2 DEF RunsInv
        <4> QED
          BY <2>1, <4>1
      <3>3. CASE pc \in {"head", "call"} /\ ~\A r \in Retriers : r >= at
        <4>1. PICK r \in Retriers : ~(r >= at)
          BY <3>3
        <4>2. r < at
          BY <2>1, <4>1 DEF ExecInv, Shape, Frames, Task
        <4>3. started <= Past + tries[r]
          BY <3>3, <4>2 DEF RunsInv
        <4> QED
          BY <2>1, <4>3
      <3> QED
        BY <3>1, <3>2, <3>3
    <2>4. Past + RunsPerTry <= (WorkerRetries + 1) * RunsPerTry
      BY <2>1, <2>2, FewerTimes, ExecutionAssumption DEF Past
    <2>5. (WorkerRetries + 1) * RunsPerTry \in Nat
      <3>1. WorkerRetries + 1 \in Nat
        BY ExecutionAssumption
      <3> QED
        BY <2>1, <3>1, ProductIsNat
    <2> QED
      BY <2>1, <2>3, <2>4, <2>5
  <1> QED
    BY <1>1, CountersHold, PTL
=============================================================================
