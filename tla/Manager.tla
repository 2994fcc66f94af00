------------------------------ MODULE Manager -------------------------------
(***************************************************************************)
(* The manager of pkg/manager/manager.go over the pool of module Pool:     *)
(* goroutines that call Submit, SubmitBatch, Start, Stop and               *)
(* WaitForCompletion at any time, and the result processor that each Start *)
(* spawns.  The monitor it spawns as well is in module ManagedScaling.     *)
(*                                                                         *)
(* NewManager makes the pool with a context it cancels before it returns,  *)
(* so the pool the manager starts has a context that is done already; a    *)
(* manager never scales its pool and never closes its task queue.          *)
(***************************************************************************)
EXTENDS Pool

CONSTANTS
    Stoppers,     \* the goroutines that call Manager.Stop, once each
    MaxStarts,    \* bound on successful calls of Manager.Start
    Waits,        \* whether somebody calls WaitForCompletion, once
    Timed,        \* tasks submitted with a positive timeout
    Batched       \* tasks submitted by SubmitBatch

ASSUME ManagerAssumption ==
    /\ MaxStarts \in Nat
    /\ Waits \in BOOLEAN
    /\ Timed \subseteq Tasks
    /\ Batched \subseteq Tasks

VARIABLES
    mstarted,    \* Manager.started
    mlock,       \* whether Start holds the manager's lock
    shutdown,    \* whether shutdownCh is closed
    panicked,    \* the process died of a second close of shutdownCh
    submitPc,    \* where the call that submits each task is
    submitted,   \* stats.tasksSubmitted
    completed,   \* stats.tasksCompleted
    failures,    \* stats.tasksFailed
    inProgress,  \* stats.tasksInProgress
    starts,      \* the result processors spawned so far
    proc,        \* where each result processor is
    handling,    \* the results a processor has received and not yet handled
    stopPc,      \* where each call of Stop is
    waitPc,      \* where the call of WaitForCompletion is
    seen,        \* the inProgress it has read
    mustWait,    \* history: the tasks accepted before it was called
    calm,        \* history: no result had overtaken its Submit at that read
    handled      \* history: the tasks whose result was handled

countVars == <<submitted, completed, failures, inProgress>>
procVars == <<starts, proc, handling, handled>>
waitVars == <<waitPc, seen, mustWait, calm>>
lifeVars == <<mstarted, mlock, shutdown, panicked>>
mgrVars == <<lifeVars, submitPc, countVars, procVars, stopPc, waitVars>>
allVars == <<vars, mgrVars>>

Processors == 1..MaxStarts

\* A panic is the end of the process: no goroutine takes another step.
Alive == ~panicked

\* The tasks whose Submit has counted them.
Accepted == {t \in Tasks : submitPc[t] = "accepted"}

\* What the deferred cancel of NewManager leaves behind.
ButNotCanceled == ctxDone = FALSE
ContextOfNewManager == ctxDone = TRUE

MgrInit ==
    /\ PoolInit
    /\ ContextOfNewManager
    /\ mstarted = FALSE
    /\ mlock = FALSE
    /\ shutdown = FALSE
    /\ panicked = FALSE
    /\ submitPc = [t \in Tasks |-> "idle"]
    /\ submitted = 0
    /\ completed = 0
    /\ failures = 0
    /\ inProgress = 0
    /\ starts = 0
    /\ proc = [g \in Processors |-> "absent"]
    /\ handling = {}
    /\ stopPc = [s \in Stoppers |-> "idle"]
    /\ waitPc = "idle"
    /\ seen = 0
    /\ mustWait = {}
    /\ calm = TRUE
    /\ handled = {}

-----------------------------------------------------------------------------
(* SubmitWithTimeout, one call for each task. *)

\* The started flag is read under the lock and the task validated; both may be
\* out of date when the task is sent.  SubmitBatch looks at the flag once more
\* without the lock, and may refuse its tasks while Start is at work.
SubmitCheck(t) ==
    /\ Alive
    /\ submitPc[t] = "idle"
    /\ ~mlock \/ (t \in Batched /\ ~mstarted)
    /\ submitPc' = [submitPc EXCEPT ![t] =
         IF mstarted /\ t \notin Invalid THEN "sending" ELSE "rejected"]
    /\ UNCHANGED <<vars, lifeVars, countVars, procVars, stopPc, waitVars>>

\* What makes the send give up: the shutdown signal, or its timeout.
ButDeafToShutdown(t) == t \in Timed
MayGiveUp(t) == shutdown \/ t \in Timed

\* The select of Submit: room in the queue, the shutdown signal and the timeout
\* may all be ready, and any of them may be taken.
SubmitSend(t) ==
    /\ Alive
    /\ submitPc[t] = "sending"
    /\ SendTask(t)
    /\ submitPc' = [submitPc EXCEPT ![t] = "counting"]
    /\ UNCHANGED <<poolVars, lifeVars, countVars, procVars, stopPc, waitVars>>

SubmitGivesUp(t) ==
    /\ Alive
    /\ submitPc[t] = "sending"
    /\ MayGiveUp(t)
    /\ submitPc' = [submitPc EXCEPT ![t] = "rejected"]
    /\ UNCHANGED <<vars, lifeVars, countVars, procVars, stopPc, waitVars>>

\* Only now is the task counted, by an atomic addition for those in progress.
ButNotRaised == inProgress
Raised == inProgress + 1

SubmitCount(t) ==
    /\ Alive
    /\ submitPc[t] = "counting"
    /\ submitted' = submitted + 1
    /\ inProgress' = Raised
    /\ submitPc' = [submitPc EXCEPT ![t] = "accepted"]
    /\ UNCHANGED <<vars, lifeVars, completed, failures, procVars, stopPc,
                   waitVars>>

-----------------------------------------------------------------------------
(* Start holds the manager's lock while the pool starts. *)

MgrStartBegin ==
    /\ Alive
    /\ ~mlock
    /\ ~mstarted
    /\ starts < MaxStarts        \* model bound
    /\ StartBegin
    /\ mlock' = TRUE
    /\ UNCHANGED <<mstarted, shutdown, panicked, submitPc, countVars, procVars,
                   stopPc, waitVars>>

\* The pool has started: a result processor is spawned.  A restarted manager
\* keeps the shutdownCh it was made with.
ButMakesANewOne == shutdown' = FALSE
SameShutdownCh == UNCHANGED shutdown

MgrStarted ==
    /\ Alive
    /\ mlock
    /\ GrownEnd
    /\ starts' = starts + 1
    /\ proc' = [proc EXCEPT ![starts + 1] = "select"]
    /\ mstarted' = TRUE
    /\ mlock' = FALSE
    /\ SameShutdownCh
    /\ UNCHANGED <<panicked, submitPc, countVars, handling, handled, stopPc,
                   waitVars>>

\* The pool failed to start and has stopped the workers it had: an error, and
\* no result processor.
ButSpawnsFirst ==
    /\ proc' = [proc EXCEPT ![starts + 1] = "select"]
    /\ UNCHANGED <<starts, handling, handled>>
SpawnsNone == UNCHANGED procVars

MgrStartFails ==
    /\ Alive
    /\ mlock
    /\ op = "abort"
    /\ StopEnd
    /\ mlock' = FALSE
    /\ SpawnsNone
    /\ UNCHANGED <<mstarted, shutdown, panicked, submitPc, countVars, stopPc,
                   waitVars>>

-----------------------------------------------------------------------------
(* Stop releases the manager's lock between its check and its last step. *)

StopCheck(s) ==
    /\ Alive
    /\ stopPc[s] = "idle"
    /\ ~mlock
    /\ stopPc' = [stopPc EXCEPT ![s] = IF mstarted THEN "closing" ELSE "done"]
    /\ UNCHANGED <<vars, lifeVars, submitPc, countVars, procVars, waitVars>>

\* Closing a closed channel panics and ends the process.
StopClose(s) ==
    /\ Alive
    /\ stopPc[s] = "closing"
    /\ IF shutdown THEN panicked' = TRUE /\ UNCHANGED <<shutdown, stopPc>>
       ELSE /\ shutdown' = TRUE
            /\ stopPc' = [stopPc EXCEPT ![s] = "pool"]
            /\ UNCHANGED panicked
    /\ UNCHANGED <<vars, mstarted, mlock, submitPc, countVars, procVars,
                   waitVars>>

\* workerPool.Stop() is called.  The pool is started: only one close of
\* shutdownCh ever succeeds, so only one call of Stop gets here.
StopPool(s) ==
    /\ Alive
    /\ stopPc[s] = "pool"
    /\ StopBegin
    /\ stopPc' = [stopPc EXCEPT ![s] = "waiting"]
    /\ UNCHANGED <<lifeVars, submitPc, countVars, procVars, waitVars>>

\* Stop goes on when the pool has stopped, whatever the queues still hold.
ButDrainsFirst == op = "stop" /\ resultChan = <<>>
PoolStops == op = "stop"

StopPoolReturns(s) ==
    /\ Alive
    /\ stopPc[s] = "waiting"
    /\ PoolStops
    /\ StopEnd
    /\ stopPc' = [stopPc EXCEPT ![s] = "unmark"]
    /\ UNCHANGED <<lifeVars, submitPc, countVars, procVars, waitVars>>

StopUnmark(s) ==
    /\ Alive
    /\ stopPc[s] = "unmark"
    /\ ~mlock
    /\ mstarted' = FALSE
    /\ stopPc' = [stopPc EXCEPT ![s] = "done"]
    /\ UNCHANGED <<vars, mlock, shutdown, panicked, submitPc, countVars,
                   procVars, waitVars>>

-----------------------------------------------------------------------------
(* processResults, one goroutine for each Start that succeeded. *)

ProcReceive(g) ==
    /\ Alive
    /\ proc[g] = "select"
    /\ TakeResult
    /\ proc' = [proc EXCEPT ![g] = "handle"]
    /\ handling' = handling \union {<<g, Head(resultChan)>>}
    /\ UNCHANGED <<poolVars, lifeVars, submitPc, countVars, starts, handled,
                   stopPc, waitVars>>

\* handleResult: the counters under the statistics' lock.  The callback of a
\* *SimpleTask starts in a goroutine of its own and does nothing to a manager.
ProcHandle(g) ==
    /\ Alive
    /\ proc[g] = "handle"
    /\ \E h \in handling :
         /\ h[1] = g
         /\ IF h[2].err = "nil"
            THEN completed' = completed + 1 /\ UNCHANGED failures
            ELSE failures' = failures + 1 /\ UNCHANGED completed
         /\ handling' = handling \ {h}
         /\ handled' = handled \union {h[2].task}
    /\ inProgress' = inProgress - 1
    /\ proc' = [proc EXCEPT ![g] = "select"]
    /\ UNCHANGED <<vars, lifeVars, submitPc, submitted, starts, stopPc,
                   waitVars>>

\* It returns on shutdown, whatever the result queue still holds.
ButWaitsForAllTasks == shutdown /\ inProgress = 0
MayQuit == shutdown

ProcExit(g) ==
    /\ Alive
    /\ proc[g] = "select"
    /\ MayQuit
    /\ proc' = [proc EXCEPT ![g] = "exited"]
    /\ UNCHANGED <<vars, lifeVars, submitPc, countVars, starts, handling,
                   handled, stopPc, waitVars>>

-----------------------------------------------------------------------------
(* WaitForCompletion, polling on its ticker. *)

WaitCall ==
    /\ Alive
    /\ waitPc = "idle"
    /\ Waits
    /\ waitPc' = "waiting"
    /\ mustWait' = Accepted
    /\ UNCHANGED <<vars, lifeVars, submitPc, countVars, procVars, stopPc, seen,
                   calm>>

\* A tick: the counter is read under the lock ...
WaitRead ==
    /\ Alive
    /\ waitPc = "waiting"
    /\ waitPc' = "read"
    /\ seen' = inProgress
    /\ calm' = (handled \subseteq Accepted)
    /\ UNCHANGED <<vars, lifeVars, submitPc, countVars, procVars, stopPc,
                   mustWait>>

\* ... and the length of the queue after it.
ButLooksAtQueueOnly == taskChan = <<>>
NothingLeft == seen = 0 /\ taskChan = <<>>

WaitDecide ==
    /\ Alive
    /\ waitPc = "read"
    /\ waitPc' = IF NothingLeft THEN "returned" ELSE "waiting"
    /\ seen' = 0
    /\ UNCHANGED <<vars, lifeVars, submitPc, countVars, procVars, stopPc,
                   mustWait, calm>>

\* The caller's context is done.
WaitCanceled ==
    /\ Alive
    /\ waitPc = "waiting"
    /\ waitPc' = "canceled"
    /\ UNCHANGED <<vars, lifeVars, submitPc, countVars, procVars, stopPc, seen,
                   mustWait, calm>>

-----------------------------------------------------------------------------
SubmitStep(t) ==
    SubmitSend(t) \/ SubmitGivesUp(t) \/ SubmitCount(t)

StopStep(s) ==
    StopClose(s) \/ StopPool(s) \/ StopPoolReturns(s) \/ StopUnmark(s)

ProcStep(g) == ProcReceive(g) \/ ProcHandle(g) \/ ProcExit(g)

WaitStep == WaitRead \/ WaitDecide

\* What the pool and its workers do on their own.
PoolStep ==
    /\ Alive
    /\ \/ AddWorker
       \/ FactoryFails
       \/ \E i \in WorkerIds : StopWorker(i)
       \/ WorkerStopped
    /\ UNCHANGED mgrVars

StartStep == PoolStep \/ MgrStarted \/ MgrStartFails

MgrWorker(i) == Alive /\ RunWorker(i) /\ UNCHANGED mgrVars

\* Calls somebody may make.
Call ==
    \/ \E t \in Tasks : SubmitCheck(t)
    \/ MgrStartBegin
    \/ \E s \in Stoppers : StopCheck(s)
    \/ WaitCall
    \/ WaitCanceled

Running ==
    \/ \E t \in Tasks : SubmitStep(t)
    \/ \E s \in Stoppers : StopStep(s)
    \/ \E g \in Processors : ProcStep(g)
    \/ StartStep
    \/ WaitStep
    \/ \E i \in WorkerIds : MgrWorker(i)

MgrNext == Call \/ Running

MgrSpec == MgrInit /\ [][MgrNext]_allVars

\* Every goroutine that can go on does; nobody has to make a call.
MgrFairness ==
    /\ \A t \in Tasks : WF_allVars(SubmitStep(t))
    /\ \A s \in Stoppers : WF_allVars(StopStep(s))
    /\ \A g \in Processors : WF_allVars(ProcStep(g))
    /\ WF_allVars(StartStep)
    /\ WF_allVars(WaitStep)
    /\ \A i \in WorkerIds : WF_allVars(MgrWorker(i))

MgrFairSpec == MgrSpec /\ MgrFairness

-----------------------------------------------------------------------------
(* Properties. *)

\* The types; and a result processor was spawned by every Start that succeeded
\* and by none that failed (Manager.Start).
MgrTypeOK ==
    /\ PoolTypeOK
    /\ mstarted \in BOOLEAN
    /\ mlock \in BOOLEAN
    /\ shutdown \in BOOLEAN
    /\ panicked \in BOOLEAN
    /\ submitPc \in [Tasks -> {"idle", "sending", "counting", "accepted",
                               "rejected"}]
    /\ submitted \in Nat
    /\ completed \in Nat
    /\ failures \in Nat
    /\ inProgress \in Int
    /\ starts \in 0..MaxStarts
    /\ proc \in [Processors -> {"absent", "select", "handle", "exited"}]
    /\ \A g \in Processors : proc[g] = "absent" <=> g > starts
    /\ handling \subseteq Processors \X Result
    /\ stopPc \in [Stoppers -> {"idle", "closing", "pool", "waiting", "unmark",
                                "done"}]
    /\ waitPc \in {"idle", "waiting", "read", "returned", "canceled"}
    /\ seen \in Int
    /\ mustWait \subseteq Tasks
    /\ calm \in BOOLEAN
    /\ handled \subseteq Tasks

\* What tasksInProgress counts: with the submissions that are sent and not yet
\* counted, the tasks that are queued, with a worker, in the result queue or
\* with a processor, and for ever those whose result was thrown away
\* (SubmitWithTimeout counts after the send, sendResult may drop).
InProgressAccounts ==
    inProgress + Cardinality({t \in Tasks : submitPc[t] = "counting"})
      = Len(taskChan) + Cardinality({i \in WorkerIds : result[i].task # NoTask})
        + Len(resultChan) + Cardinality(handling) + Cardinality(dropped)

\* The counters agree with each other through every restart: a task is counted
\* as completed or failed once, whichever processor handles its result.
CountersBalance ==
    /\ submitted = Cardinality(Accepted)
    /\ completed + failures = Cardinality(handled)
    /\ inProgress = submitted - completed - failures

\* WaitForCompletion is right whenever no result has overtaken the counting of
\* its own submission at the tick it returns on: every task accepted before the
\* call was handled, although the queue is read after the counter.
WaitSound == waitPc = "returned" /\ calm => mustWait \subseteq handled

\* With no call of Start or Stop under way, the manager and its pool agree on
\* whether they run, and a manager that is not started has no worker running.
StoppedMeansQuiet ==
    /\ ~mlock /\ (\A s \in Stoppers : stopPc[s] \in {"idle", "done"})
         => mstarted = started
    /\ ~mlock /\ ~mstarted => \A i \in WorkerIds : ~Live(i)

\* No task handed to a manager is ever executed: the pool's context is done
\* before the pool starts (NewManager's deferred cancel, manager.go:88-91).
NothingExecutes == \A t \in Tasks : execs[t] = 0

\* Every call of Stop returns, whatever is submitted, waited for, restarted or
\* stopped meanwhile, unless the process panics.
StopReturns ==
    \A s \in Stoppers : stopPc[s] = "closing" ~> stopPc[s] = "done" \/ panicked

\* Shutdown releases the submitters blocked on a full queue.
ShutdownReleasesSubmit ==
    \A t \in Tasks : shutdown /\ submitPc[t] = "sending"
                       ~> submitPc[t] # "sending" \/ panicked

\* Every result processor ends after a shutdown.
ShutdownEndsProcessors ==
    \A g \in Processors : shutdown /\ proc[g] # "absent"
                            ~> proc[g] = "exited" \/ panicked

-----------------------------------------------------------------------------
(* What the comments and the documentation say, and the code does not do. *)

\* "WaitForCompletion blocks until all submitted tasks are completed"
\* (manager.go:324): accepted before the call, handled at its return.
WaitWaits == waitPc = "returned" => mustWait \subseteq handled

\* "Stop gracefully stops the manager" (manager.go:142).
StopIsGraceful == ~panicked
=============================================================================
