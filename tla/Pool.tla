-------------------------------- MODULE Pool --------------------------------
(***************************************************************************)
(* The worker pool of pkg/worker/pool.go over the workers of SimpleWorker. *)
(*                                                                         *)
(* Start, Stop and Scale hold the pool's lock from their first statement   *)
(* to their return, and Stop and a shrinking Scale wait for worker         *)
(* goroutines while they hold it.  The variable op is that critical        *)
(* section: "none" when the lock is free, else what the holder is doing.   *)
(***************************************************************************)
EXTENDS SimpleWorker

CONSTANTS
    InitialSize,  \* initialSize given to NewPool
    MaxSize,      \* maxSize given to NewPool, which refuses one below 1
    Deltas        \* the deltas Scale is called with

ASSUME PoolAssumption ==
    /\ InitialSize \in Int
    /\ MaxSize \in Nat \ {0}
    /\ Deltas \subseteq Int

VARIABLES
    started,  \* Pool.started
    workers,  \* the keys of Pool.workers
    nextID,   \* Pool.nextWorkerID
    op,       \* what the holder of the pool's lock is doing
    target,   \* the size Start or Scale is heading for
    victim,   \* the worker whose Stop() is waiting for its goroutine, or 0
    toStop    \* the workers stopAllWorkers has still to stop

poolVars == <<started, workers, nextID, op, target, victim, toStop>>
vars == <<workerVars, poolVars>>

Ops == {"none", "start", "up", "down", "abort", "stop"}

NoWorker == 0

\* The size NewPool stores.
StartSize == IF InitialSize < 0 THEN 0
             ELSE IF InitialSize > MaxSize THEN MaxSize ELSE InitialSize

\* The size a Scale heads for: at least 1, at most MaxSize.
ButWithoutMaximum(delta) ==
    LET wanted == Cardinality(workers) + delta IN
    IF wanted < 1 THEN 1 ELSE wanted

ButDownToNone(delta) ==
    LET wanted == Cardinality(workers) + delta IN
    IF wanted < 0 THEN 0 ELSE IF wanted > MaxSize THEN MaxSize ELSE wanted

CalculateNewSize(delta) ==
    LET wanted == Cardinality(workers) + delta IN
    IF wanted < 1 THEN 1 ELSE IF wanted > MaxSize THEN MaxSize ELSE wanted

\* Worker.Stop() waits for the goroutine of its worker.
ButDoesNotWait == TRUE
VictimGone == pc[victim] = "exited"

PoolInit ==
    /\ WorkerInit
    /\ started = FALSE
    /\ workers = {}
    /\ nextID = 0
    /\ op = "none"
    /\ target = 0
    /\ victim = NoWorker
    /\ toStop = {}

\* Whatever the holder of the lock has finished, it returns.
Unlock ==
    /\ op' = "none"
    /\ target' = 0

-----------------------------------------------------------------------------
(* Start and the growing half of Scale. *)

\* Model bound: an operation that adds n workers is called only while the ids
\* up to MaxId allow it.
IdsLeft(n) == nextID + n <= MaxId

StartBegin ==
    /\ op = "none"
    /\ ~started
    /\ IdsLeft(StartSize)
    /\ op' = "start"
    /\ target' = StartSize
    /\ UNCHANGED <<workerVars, started, workers, nextID, victim, toStop>>

ScaleUp(delta) ==
    /\ op = "none"
    /\ started
    /\ delta > 0
    /\ Cardinality(workers) < CalculateNewSize(delta)
    /\ IdsLeft(CalculateNewSize(delta) - Cardinality(workers))
    /\ op' = "up"
    /\ target' = CalculateNewSize(delta)
    /\ UNCHANGED <<workerVars, started, workers, nextID, victim, toStop>>

\* addWorker: the factory makes the worker and its goroutine starts.
AddWorker ==
    /\ op \in {"start", "up"}
    /\ Cardinality(workers) < target
    /\ IdsLeft(1)
    /\ nextID' = nextID + 1
    /\ workers' = workers \union {nextID + 1}
    /\ pc' = [pc EXCEPT ![nextID + 1] = "select"]
    /\ UNCHANGED <<chanVars, ctxDone, wDone, result, statVars, ranVars, sent,
                   dropped, taken, started, op, target, victim, toStop>>

\* addWorker: the factory fails, the id is spent.  Start stops the workers it
\* has already started; Scale keeps what it has.
FactoryFails ==
    /\ op \in {"start", "up"}
    /\ Cardinality(workers) < target
    /\ IdsLeft(1)
    /\ nextID' = nextID + 1
    /\ target' = 0
    /\ IF op = "start" THEN op' = "abort" /\ toStop' = workers
                       ELSE op' = "none" /\ UNCHANGED toStop
    /\ UNCHANGED <<workerVars, started, workers, victim>>

GrownEnd ==
    /\ op \in {"start", "up"}
    /\ Cardinality(workers) >= target
    /\ started' = TRUE
    /\ Unlock
    /\ UNCHANGED <<workerVars, workers, nextID, victim, toStop>>

-----------------------------------------------------------------------------
(* The shrinking half of Scale, Stop, and the abort of a failed Start. *)

ScaleDown(delta) ==
    /\ op = "none"
    /\ started
    /\ delta < 0
    /\ Cardinality(workers) > CalculateNewSize(delta)
    /\ op' = "down"
    /\ target' = CalculateNewSize(delta)
    /\ UNCHANGED <<workerVars, started, workers, nextID, victim, toStop>>

StopBegin ==
    /\ op = "none"
    /\ started
    /\ ctxDone' = TRUE
    /\ op' = "stop"
    /\ toStop' = workers
    /\ UNCHANGED <<chanVars, wDone, pc, result, statVars, ranVars, sent,
                   dropped, taken, started, workers, nextID, target, victim>>

\* removeWorker deletes any worker from the map, then calls its Stop() ...
RemoveWorker(i) ==
    /\ op = "down"
    /\ victim = NoWorker
    /\ i \in workers
    /\ Cardinality(workers) > target
    /\ workers' = workers \ {i}
    /\ wDone' = wDone \union {i}
    /\ victim' = i
    /\ UNCHANGED <<chanVars, ctxDone, pc, result, statVars, ranVars, sent,
                   dropped, taken, started, nextID, op, target, toStop>>

\* ... and stopAllWorkers calls Stop() on each of the map's workers in turn.
StopWorker(i) ==
    /\ op \in {"stop", "abort"}
    /\ victim = NoWorker
    /\ i \in toStop
    /\ toStop' = toStop \ {i}
    /\ wDone' = wDone \union {i}
    /\ victim' = i
    /\ UNCHANGED <<chanVars, ctxDone, pc, result, statVars, ranVars, sent,
                   dropped, taken, started, workers, nextID, op, target>>

\* Worker.Stop() returns when the goroutine has.
WorkerStopped ==
    /\ victim # NoWorker
    /\ VictimGone
    /\ victim' = NoWorker
    /\ UNCHANGED <<workerVars, started, workers, nextID, op, target, toStop>>

ShrunkEnd ==
    /\ op = "down"
    /\ victim = NoWorker
    /\ Cardinality(workers) <= target
    /\ Unlock
    /\ UNCHANGED <<workerVars, started, workers, nextID, victim, toStop>>

StopEnd ==
    /\ op \in {"stop", "abort"}
    /\ victim = NoWorker
    /\ toStop = {}
    /\ workers' = {}
    /\ started' = FALSE
    /\ Unlock
    /\ UNCHANGED <<workerVars, nextID, victim, toStop>>

-----------------------------------------------------------------------------
\* A task's function asks for the pool's size: RLock waits for the holder of
\* the lock, and the function goes on.
CallReturns(i) ==
    /\ pc[i] = "call"
    /\ op = "none"
    /\ pc' = [pc EXCEPT ![i] = "exec"]
    /\ UNCHANGED <<chanVars, ctxDone, wDone, result, statVars, ranVars, sent,
                   dropped, taken, poolVars>>

\* The worker goroutines, beside whatever the pool is doing.
RunWorker(i) ==
    \/ WorkerStep(i) /\ UNCHANGED poolVars
    \/ CallReturns(i)

\* The lock holder goes on with the operation it is in.
Proceed ==
    \/ AddWorker
    \/ FactoryFails
    \/ GrownEnd
    \/ \E i \in WorkerIds : RemoveWorker(i) \/ StopWorker(i)
    \/ WorkerStopped
    \/ ShrunkEnd
    \/ StopEnd

Begin ==
    \/ StartBegin
    \/ StopBegin
    \/ \E delta \in Deltas : ScaleUp(delta) \/ ScaleDown(delta)

\* What the users of the two channels and of the parent context do.
Environment ==
    /\ \/ \E t \in Tasks : SendTask(t)
       \/ CloseTasks
       \/ TakeResult
       \/ CancelContext
    /\ UNCHANGED poolVars

PoolNext ==
    \/ Begin
    \/ Proceed
    \/ \E i \in WorkerIds : RunWorker(i)
    \/ Environment

PoolSpec == PoolInit /\ [][PoolNext]_vars

\* Goroutines are scheduled, timers fire and task functions return; nobody has
\* to call the pool, send a task or take a result.
PoolFairness ==
    /\ \A i \in WorkerIds : WF_vars(RunWorker(i))
    /\ WF_vars(Proceed)

PoolFairSpec == PoolSpec /\ PoolFairness

-----------------------------------------------------------------------------
(* Properties. *)

PoolTypeOK ==
    /\ taskChan \in Seq(Tasks)
    /\ Len(taskChan) <= TaskCap
    /\ taskClosed \in BOOLEAN
    /\ resultChan \in Seq(Result)
    /\ Len(resultChan) <= ResultCap
    /\ ctxDone \in BOOLEAN
    /\ wDone \subseteq WorkerIds
    /\ pc \in [WorkerIds -> {"absent", "select", "attempt", "call", "exec",
                             "backoff", "stats", "send", "exited"}]
    /\ result \in [WorkerIds -> Result \union {Idle(i) : i \in WorkerIds}]
    /\ processed \in [WorkerIds -> Nat]
    /\ failed \in [WorkerIds -> Nat]
    /\ execs \in [Tasks -> Nat]
    /\ succeeded \subseteq Tasks
    /\ sent \subseteq Tasks
    /\ dropped \subseteq Result
    /\ taken \subseteq Result
    /\ started \in BOOLEAN
    /\ workers \subseteq 1..nextID
    /\ nextID \in 0..MaxId
    /\ op \in Ops
    /\ target \in 0..MaxSize
    /\ victim \in WorkerIds \union {NoWorker}
    /\ toStop \subseteq workers

\* No goroutine outlives its place in the pool: one that runs belongs to the
\* map or is the worker whose Stop() is waiting for it, so when Stop (or a
\* Start that failed half-way) has returned, no worker runs and no task is
\* half done.  Conversely what Size counts between two operations are workers
\* that run, until the context is done or the task channel closed
\* (Pool.stopAllWorkers, removeWorker, Size, SimpleWorker.Start and Stop).
NoStrayWorker ==
    /\ \A i \in WorkerIds : Live(i) => i \in workers \union {victim}
    /\ op = "none" /\ ~started => \A i \in WorkerIds : ~Live(i)
    /\ op = "none" /\ ~ctxDone /\ ~taskClosed => \A i \in workers : Live(i)

\* However Start, Scale and Stop interleave with workers that leave and with
\* factory failures, at most MaxSize goroutines run, the map never exceeds
\* MaxSize, and a started pool that was given workers is never scaled to none
\* (calculateNewSize, removeWorker).
SizeInBounds ==
    /\ Cardinality({i \in WorkerIds : Live(i)}) <= MaxSize
    /\ Cardinality(workers) <= MaxSize
    /\ started /\ StartSize >= 1 => workers # {}

\* The pool implements the abstract flow of tasks.
TasksOf(results) == [k \in DOMAIN results |-> results[k].task]

Flow == INSTANCE TaskFlow WITH
    QueueCap <- TaskCap,
    ReportCap <- IF Wired THEN ResultCap ELSE 0,
    MaxHeld <- MaxSize,
    queue <- taskChan,
    held <- {result[i].task : i \in WorkerIds} \ {NoTask},
    reports <- TasksOf(resultChan),
    lost <- {r.task : r \in dropped},
    done <- {r.task : r \in taken}

\* Tasks start in the order they were sent, at most MaxSize of them are under
\* way, none twice, and a result is lost only when the result channel is full
\* (select and sendResult of worker.go under every pool operation).
ImplementsTaskFlow == Flow!Spec

\* Start, Scale and Stop return: the lock they hold while they wait for worker
\* goroutines is released (Pool.Start, Scale, Stop).
OperationsReturn == op # "none" ~> op = "none"

\* A queued task is received unless the pool is cancelled or has no workers,
\* even while workers are removed one after another.
QueuedTaskIsReceived ==
    \A t \in Tasks : t \in Range(taskChan) ~>
      t \notin Range(taskChan) \/ ctxDone \/ workers = {}

\* A task a worker has received gets its result sent or dropped, whatever
\* becomes of the worker and of the pool meanwhile.
ReceivedTaskIsReported ==
    \A t \in Tasks : (\E i \in WorkerIds : result[i].task = t) ~>
      \E r \in Reports : r.task = t
=============================================================================
