# Lemmings in TLA+

TLA+ specifications of the lemmings worker-pool library (Go), the TLC runs that
check them on small instances, and TLAPS proofs of what holds on every instance.
Source paths are relative to the root of the repository (`src/` here).

    tlc -config pool_safety.cfg MCPool      # a run
    tlapm PoolProofs.tla                    # the proofs of a module

## 1. The system

A program submits tasks to a *manager*; the manager puts them on a task channel;
a *pool* of *worker* goroutines receives them, runs them with retries and puts a
result on a result channel; a *result processor* of the manager reads the results,
keeps the statistics and starts callbacks. Beside it a *monitor* of the manager lets
a *resource controller* count how many workers there should be.

    caller --SubmitWithTimeout--> taskQueue --select--> worker goroutines
       ^                                                     | sendResult
       | WaitForCompletion (polls the counters)              v
    managerStats <--handleResult-- processResults <---- resultQueue

    Manager.Start/Stop --> Pool.Start/Stop --> Worker.Start/Stop (goroutines)
    monitorResources, ForceScaleWorkers --> ResourceController --> workerControl
                                                                   (no receiver)

### Inventory

| component (source) | state | operations | what makes it correct |
|---|---|---|---|
| Worker goroutine (`pkg/worker/worker.go`) | its own context, statistics, the result it is filling in | receive, validate, attempt, back off, update statistics, send the result, leave | every task received yields one result, which tells how it ran; statistics agree with the results; stopping one worker cancels no task |
| Task (`task.go`, `errors.go`) | none, except the timeout goroutine of a `FunctionTask` | Validate, Execute, MaxRetries | a timed-out attempt is reported once |
| Pool (`pool.go`) | started, the map of workers, the id counter, a lock, the cancellable context | Start, Stop, Scale, Size | no goroutine outlives its place in the pool; size bounds; operations return |
| Manager (`pkg/manager/manager.go`) | started, a lock, `shutdownCh`, counters | Start, Stop, Submit(WithTimeout), SubmitBatch, WaitForCompletion | counters account for every task; Stop returns and leaves nothing running, monitors included; waiting means waiting |
| ResourceController (`resource_control.go`) | active count, `scalingEnabled`, consecutive scale-ups, history, control and pause channels, a lock | AdjustWorkerCount, AdjustBasedOnResourceUsage, EnableScaling, DisableScaling | bounds of the active count; history and signals agree with it; growth is rationed; disabling settles |
| ResourceMonitor, SystemStats (`internal/utils`) | watermarks, cooldowns, `lastCleanup`, cached statistics and their history | Start, ShouldScaleUp, ShouldScaleDown, RecordScaleUp | no growth within a cooldown; cleanups are rationed; the history is bounded and current |
| PriorityQueue (`priority_queue.go`) | a heap of stamped tasks | Push, Pop, Peek | priority first, then the older by the clock; nothing lost |
| Middleware (`pkg/middleware`) | none | wrap a task with retry, timeout, recovery, logging | how often a task runs when wrappers are stacked; what is reported; which panics are contained |
| Configuration (`config.go`) | a record | defaults, options, Validate | a valid configuration is usable by what is built from it |
| Worker factory, object pool (`internal/factory`) | idle objects, limit | CreateWithID; NewPool, Get, Put | no object is shared or forgotten; the limit |
| Random numbers, facade, examples, test helpers | none | | |

### How the parts interact, and what is hard

* Two channels shared by all workers. Both ends are used concurrently; `select`
  takes any ready case, so a worker whose context is done may still take a task.
* Two contexts per worker: the pool's (given to `Start`, seen by the retry loop)
  and its own (seen only between tasks).
* Results are sent without blocking: a full result channel loses them.
* `Pool.Start`, `Stop` and `Scale` hold the pool's lock throughout, and wait for
  goroutines that run the user's code while they hold it.
* `Manager.Stop` releases the manager's lock between its check and its actions,
  `Submit` between its check, its send and its counting; `WaitForCompletion`
  reads two things at two moments.
* A manager can be started again after a Stop, with the same closed `shutdownCh`
  and the same cancelled pool.
* The resource controller reads its count under the lock, decides without it and
  changes the count under it again; it reads `scalingEnabled` without the lock,
  and its branches for the tests write the count without it. Monitor goroutines
  of two generations may overlap, and ForceScaleWorkers may be called at any time,
  before the first Start and after the last Stop included.
* The controller and the pool are not connected: nothing receives from
  `workerControl` or `pauseProcessing`, and nothing calls `Pool.Scale`.
* ResourceMonitor's loop reads `lastCleanup` without the lock it is written under,
  with a garbage collection between the two. (A manager never runs that loop.)
* The priority queue orders equals by the wall clock. (A manager does not use it:
  the comment on `Submit`, manager.go:173, promises priorities, and the queue is a
  channel.)
* Partial failure: the worker factory may fail half-way through a Start.

Nothing is persisted: there is no crash recovery to model. Sums of durations and
averages are the only arithmetic on large numbers, and nothing depends on them.
The hazards, each at its line, are the list `hazards` of PROJECT.json.

## 2. The modules

| module | models | extends |
|---|---|---|
| `SimpleWorker` | a worker's goroutine and the two channels | |
| `Pool` | the pool: Start, Stop, Scale, addWorker, removeWorker, its lock | `SimpleWorker` |
| `TaskFlow` | abstract: what a pool promises about tasks | |
| `Manager` | the manager over its pool | `Pool` |
| `ResourceController` | the adjustments of the worker count, and the monitor's marks and cooldowns | |
| `ManagedScaling` | the manager with its monitors and callers of ForceScaleWorkers on one controller | `Manager`, an instance of `ResourceController` |
| `TaskExecution` | one task: the worker's retries, its middleware, the timeout of a FunctionTask | |
| `PriorityQueue` | the heap of stamped tasks | |
| `PriorityOrder` | abstract: what a priority queue promises | |
| `ObjectPool` | the generic object pool of `internal/factory` | |
| `ResourceMonitor` | the sampling and cleanup loop of ResourceMonitor.Start | |
| `Configuration` | a configuration on its way into a manager | |
| `MCPool`, `MCManager`, `MCManaged`, `MCResource`, `MCTask`, `MCParts` | instances for TLC | |
| `PoolProofs`, `FlowProofs`, `OutcomeProofs` | proofs about the pool: its goroutines; its tasks and `TaskFlow`; results and statistics | `Pool`, each the one before |
| `ManagerProofs` | proofs about the manager and its controller, from those about its pool and the controller's | `ManagedScaling`, `FlowProofs`, an instance of `ResourceProofs` |
| `ResourceProofs`, `ExecutionProofs`, `QueueProofs` | proofs about one component | `ResourceController`, `TaskExecution`, `PriorityQueue` |
| `PartsProofs` | proofs about three components that stand alone | `ObjectPool`, `ResourceMonitor`, `Configuration` |

### SimpleWorker

`pc[i]` is where the goroutine of worker `i` is: `select` (the loop of
`SimpleWorker.Start`), `attempt` (the head of the loop of `executeWithRetries`),
`call` and `exec` (inside `task.Execute`), `backoff` (the select of
`waitForRetry`), `stats`, `send`, `exited`. `result[i]` is the Go variable
`result` of `ExecuteTask`. One action is what the goroutine does between two
points where another goroutine can interfere: receiving a task and validating
it, the attempt's check of the context, the return of `Execute`, the timer or
the cancellation of a backoff, the statistics (under the worker's lock), the
send. A task is one submission of it; its function's outcome is a choice at each
execution, its `Validate()` and `MaxRetries()` are constants (`Invalid`,
`MaxRetries`). `CallsPool` are the tasks whose function calls `Pool.Size()`.
`Wired` is FALSE when the factory gives workers nil channels, as the examples do.
`execs`, `succeeded`, `sent`, `dropped` and `taken` are history variables.

`MayDrop` and `RoomForResult` are the two cases of `sendResult`.

The operators `But...` are plausible mistakes in the decisions next to them; no
action uses them. PROJECT.json pairs each with the property that notices it.

### Pool

The lock is the variable `op`: "none" when it is free, else the operation its
holder is in. Start, Stop and Scale take it with their first step (`StartBegin`,
`StopBegin`, `ScaleUp`, `ScaleDown`, which make the decisions of the code
before its first loop), go on one worker at a time (`AddWorker`, `FactoryFails`,
`RemoveWorker` or `StopWorker`, then `WorkerStopped` once the goroutine has
returned), and release it (`GrownEnd`, `ShrunkEnd`, `StopEnd`). `abort` is the
stop of a Start whose factory failed. Calls that return without an effect (Start of a
started pool, a Scale that has nothing to do) are not steps. `Environment` is
whoever uses the other ends of the channels, and the owner of the parent context.

### TaskFlow, and what "implements" means

A queue, a set of tasks under way, a report buffer, the lost and the read ones.
`Flow` in Pool instantiates it with `queue <- taskChan`, `held <-` the tasks of
the results under construction, `reports <-` the tasks of the result channel.
`ImplementsTaskFlow` says that under every pool operation tasks are started in
the order they were sent, at most `MaxSize` at once, none twice, and that an
outcome is lost only when the result channel is full.

### Manager

`NewManager` cancels the context of its pool before it returns: `MgrInit` sets
`ctxDone`. `submitPc[t]` follows the call that submits `t` through its check of
`started`, its select and its counting; `stopPc[s]` follows each of the
concurrent calls of Stop; `proc[g]` is the g-th result processor, one for each
successful Start; `waitPc` is the one call of WaitForCompletion, whose tick is
two steps, because the counter is read before the queue's length. `mlock` is the
manager's lock while Start holds it; all other uses of it are single steps. A
second close of `shutdownCh` sets `panicked`, after which nothing moves.
The tasks in `Batched` are submitted by SubmitBatch, which looks at `started`
once more without the lock, so that it may refuse a task while Start holds the
lock; that it submits its tasks one after another is left open, which allows
more interleavings than the code has. The callback of a `*SimpleTask` is started
in a goroutine of its own and does nothing to the manager; WaitForCompletion
does not wait for it.

### ManagedScaling

Adds the controller to the manager. `Manage` is any step of Manager; a Start
that succeeds (`starts' > starts`) spawns the monitor of that number, and the
controller keeps its state through restarts, as `NewManager` makes it once.
`Ctl` instantiates ResourceController with the processors' numbers as its
monitors and the goroutines in `Hands` as callers of ForceScaleWorkers.
`MonitorTicks` and `MonitorAdjusts` are the controller's actions taken by a
running monitor, `MonitorEnds` the other case of its select, `SwitchScaling` the
two calls that switch dynamic scaling. ResourceController's `MemoryChanges`,
`TakeSignal` and `TakePause` do not occur: nothing in the program makes them happen.

### ResourceController

`pc[g]` follows goroutine `g`, a monitor in AdjustBasedOnResourceUsage or a
caller in AdjustWorkerCount. `Tick` is the first look at `scalingEnabled` and
the memory; `Shrink` reads the count under the lock and decides. A growth is
decided by three reads, `ReadCount` (the count, under the lock), `Weigh` (whether a
branch for the tests applies) and `Grow` (the limit on growths in a row), of which
the last two look at `consecutiveScaleUps` without the lock. `CheckEnabled`,
`Acquire`, `Apply`, `Record`, `Trim`, `Cut` and `Signal` are AdjustWorkerCount: the
unlocked look at `scalingEnabled`, the old count and the clamped change, the
addition; recordScalingEvent, whose append, look at the length and cut are three
steps; and the signals with the release of the lock. The `After...` actions are what
the monitor does once it returns. `ForceCount` and `ForceEnds` are the branches
written for the tests, which overwrite the count, go through the same
recordScalingEvent and count the growth, all without the lock. The data races this
makes are choices: `Apply` adds to the old or the new count; of two appends or cuts
that race, with a holder of the lock or with each other, one may be lost, and both of
two racers may cut or neither, so that the history may stay longer than its limit;
of two racing writes of `consecutiveScaleUps` either stays.
Memory is one of four levels, looked at once per tick; the cooldowns elapse at
any time, at the earliest at once. `signals` counts the signals in
`workerControl`; `net`, `lost`, `misled`, `rigged`, `grown` and `late` are history
variables.

In the program nothing reads `workerControl` or the pause channel, and nothing
calls `ResourceMonitor.Start`, so that the statistics stay at zero unless a
program that uses the controller by itself updates them. ResourceController
lets memory change and both channels be read, as such a program may;
ManagedScaling does not. `RecordScaleDown` is called nowhere, so the cooldown of
a scale-down runs out once and for good.

### TaskExecution

SimpleWorker sees an execution from outside: it succeeds or fails. TaskExecution
is its inside, for one task. The calls are a stack of frames: the worker's
loop (0), the wrappers of `chain`, the outermost first, and the task. `at` and
`pc` say which frame is called, waits or is returned to, `out` what was
returned; `cause[k]` is `Err()` of the context that frame `k` hands inwards.
`Enter` stands for each wrapper's way in, `LeaveTimeout`, `LeaveRecovery` and
`RetryReturned` for the ways out, `RetryElapses` and `RetryCanceled` for the
select of the backoff. With a timeout, `BeginRun` starts the goroutine; `fn` is
that goroutine or its answer in the channel; `TakeAnswer` and `GiveUp` are the
two cases of the select of `FunctionTask.Execute`, and `orphans` counts the
goroutines that `GiveUp` leaves behind. `RunPanics` ends the process.

### PriorityQueue and PriorityOrder

`heap` is the array of the heap, counted from 1. `Less`, `Swap` and `Placed` are
the methods of `taskHeap`; `Up` and `Down` are those of `container/heap`,
as recursive functions, and modelled as the library documents them. Each
operation holds the mutex throughout and is one step. The stamp of a push is any
of `Stamps`: the wall clock may stand still or be set back. PriorityOrder is a set
of stamped tasks from which a removal takes one that no other comes before.

### ObjectPool

`idle` is the slice of the pool, `held[u]` what user `u` has taken and not put
back, `discarded` what Put found no room for. Objects are numbered as they are made.
`Fill` and `FillFails` are NewPool. `BelowLimit` is the code's comparison with
`maxSize`, which counts idle objects. A user puts back only what it holds: the code
cannot tell, and a second Put of one object would share it.

### ResourceMonitor

`at[l]` is where loop `l` of ResourceMonitor.Start is: waiting for its ticker,
after UpdateMemStats (`Sample`), after its look at the usage (`Look`), or in
a collection (`cleaning`), which may take any time (`TimePasses`). `begun` is a
history variable. Several loops are allowed because nothing prevents a program
from calling Start twice.

### Configuration

A record of the nine fields that Validate or a branch looks at; factors in tenths.
Factors and marks are float64 in the code, and may be `NaN`: no comparison holds of it
(`Compares`, `Below`), so `ValidFactors` and `ValidMarks` are written as Validate is,
in what it refuses. `ApplyOption` is one option of ConfigWithOptions, `NewManager`
validates and makes the channels, `StartManager` stands for the ticker of
monitorResources. `make` and `time.NewTicker` panic as the Go language and library
document: `MostTasks` and `MostSignals` are the longest channels that can be made. A
factor that is NaN or too large for the conversion of `resource_control.go:390`
to an int gives a number that depends on the platform; it is outside
ResourceController, whose factor is a ratio of numbers.

## 3. The runs

| run | question |
|---|---|
| `pool_safety` | safety of workers and pool, and the refinement of TaskFlow |
| `pool_live` | progress of operations, queued tasks and received tasks |
| `pool_reentrant` | violation: a task that asks for the pool's size |
| `manager` | counters, WaitForCompletion, concurrent Stops and restarts, progress and quiescence |
| `managed` | the monitors of a manager that is restarted: how many decide, and that they end |
| `mgr_wait` | violation: WaitForCompletion returns early |
| `mgr_double_stop` | violation: two Stops panic |
| `scaling_ignored` | violation: the pool does not follow the controller |
| `resource` | count, history, signals, growth and disabling of the controller |
| `res_bounds` | violation: the count exceeds its maximum |
| `task` | one task under every chain of middleware |
| `parts` | the components that stand alone, one at a time |

### What they show

* `EachTaskInOnePlace` (with two workers, three tasks, growing, shrinking,
  stopping and a failing factory): a task that was sent is in exactly one place.
* `ResultTellsExecutions`: what `Attempt` and `Err` say fits what was executed.
  It is exact but for a cancelled task, whose `Attempt` may count an
  attempt that was refused, and for a negative retry budget, under which a
  task that never ran is reported as a success. Scaling down never turns a
  task into a cancellation.
* `StatsMatchResults`: a worker's counters agree with its results.
* `NoStrayWorker`, `SizeInBounds`: see section 5.
* `OperationsReturn`, `QueuedTaskIsReceived`, `ReceivedTaskIsReported`.
* `InProgressAccounts`: the manager's in-progress counter, plus the submissions
  between their send and their counting, is the number of tasks somewhere in
  the system, where a result that was thrown away counts for ever.
* `CountersBalance`, `WaitSound` (WaitForCompletion is right unless a result
  overtook the counting of its submission), `StoppedMeansQuiet`, `StopReturns`,
  `ShutdownReleasesSubmit`, `ShutdownEndsProcessors`.
* `NothingExecutes`: see the findings.
* `OneMonitorUntilShutdown`: generations of monitors overlap only after a shutdown,
  which all of them watch on one channel; until then one monitor decides, so the
  count grows at most once in a cooldown and `MaxConsecutiveScales` times in a row.
* `MonitorsEnd`: after a shutdown every monitor ends, that of a later Start too.
* `BoundsHold`: decisions on stale counts never take the count out of bounds, as
  long as no branch for the tests writes it (`~rigged`, also below).
* `HistoryTellsCount`: whenever the lock is free the history is within its limit and its
  events form a chain that ends at the count, until a branch for the tests is taken,
  in which appends and cuts race.
* `SignalsTellCount`: the signals sent add up to the change of the count, unless
  the channel was full, a decrease had another reason than high memory (see the
  findings), or the signals were made up for a test.
* `GrowthCoolsDown`, `GrowthIsLimited`: with monitors that overlap, each grows the count
  at most once per cooldown, and the limit on consecutive growths is exceeded by less
  than one per monitor.
* `DisabledSettles`: after DisableScaling a goroutine completes at most the
  adjustment it had begun.
* `RunsBounded`: the worker's and the middleware's retries multiply, nothing else
  does. It speaks of chains with at most one RetryMiddleware; a second one would
  multiply once more.
* `CancelStopsRuns`: one run at most begins once the worker's context is done.
* `SuccessIsFinal`, `ReportTells`, `PanicsAreContained`: see section 5. The last one
  speaks of tasks without a timeout; for the others see the findings.
* `TimedTaskIsReported`: a task with a timeout is reported even if its function
  never returns.
* `ImplementsPriorityOrder`, `HeapWellFormed`: whatever the clock says, Pop takes a
  task of the highest priority and of these an oldest by its stamp, none is lost,
  and every item knows its place. First in, first out it is only
  as far as the clock moves forward between two pushes: the comment at
  priority_queue.go:12 promises insertion order.
* `ObjectsAccounted`: no object is shared or forgotten, and the number of idle ones
  is bounded; also that only a limit of 0 ever refuses (see the findings).
* `CleanupIsRationed`: each loop leaves more than the minimum interval between two
  of its cleanups, and the samples are bounded and current. Two loops may
  clean up at the same time.
* `ValidConfigIsUsable`: a manager that is made from a valid configuration has the
  worker counts the other modules assume, and channels that can be made; a channel
  that cannot, and an interval that is not positive, end the process, and Validate
  refuses neither. Up to a high mark of 95% the critical mark is above both others.
  NaN passes as any mark and factor, and the property promises nothing of it.

### Bounds, and why they are enough

Two workers at once (`MaxSize = 2`), and up to three worker ids (`MaxId`, the one
bound of Pool: an operation that needs more ids is not called), so that a worker can
be added after another was removed and a factory can fail with one worker already
running. `InitialSize` is 5 in `pool_safety`, above the maximum, and 1 or 2
elsewhere. `TaskCap` 2 and `ResultCap` 1 in `pool_safety` (1 and 1 elsewhere) let
tasks queue behind each other and both channels fill up. Three kinds of task:
retried once, falling back on the workers' own limit (here negative, the boundary
case), and invalid; in `pool_live` the limit is 0. Deltas are -1 and 1: larger ones
only take more rounds of the same loops. In Manager, each task is submitted once,
`MaxStarts` bounds the successful Starts at two, so that two generations of
processors meet; WaitForCompletion is called once; of the two goroutines in
`Stoppers` the second stays out as soon as somebody waits (`Narrow` of MCManager):
concurrent Stops and a wait are each checked with everything else, but not both with
each other. Two tasks suffice for one to overtake and the other to be unfinished. In
ManagedScaling there are no tasks, one goroutine that stops, two starts, one worker
at a time and one caller of ForceScaleWorkers, with two adjustments: enough for the
monitors of two generations, or a monitor and a caller, to overlap. In
ResourceController, two monitors and one caller make three adjustments (`MaxJobs`),
enough for two to decide on one reading while a third is made, for a history of two
(`HistoryCap`, 100 in the code) to be trimmed, for the six places of the control
channel to run out, and to reach each branch for the tests; counts go from 1 to 6,
so that both clamps bite. A `MaxConsecutiveScales` of 1 lets three adjustments get
the count of growths to the two that overlapping monitors are allowed, and to three
if the limit were not looked at. In TaskExecution, every chain that holds each
wrapper at most once, in every order, with and without a timeout of the task; one
retry of the worker and two of the middleware, so that a first, a middle and a last
try differ. In PriorityQueue six tasks of two priorities and two stamps make a heap
of three levels, where a sift passes two places; in ObjectPool two users, two first
objects and at most four made (`MaxMade`), with limits -1, 0 and 1; in
ResourceMonitor two loops, four ticks of the clock (`MaxClock`), an interval of one
and a history of two; in Configuration up to three options (`MaxOptions`), each with
values on both sides of every boundary, the longest channels (1000 and 40, where the
numbers stand for the real ones) included, and NaN for factors and marks. Constants
are capped, no state constraint is used. A behaviour of `parts` moves one of its
components only: they share nothing. Deadlock checking is off in all runs: a system
that is idle, stopped or has spent its worker ids may stop. Where it must not, a
liveness property says so.

### Fairness

Weak fairness of each worker's goroutine, of the holder of the pool's lock, of
each submission in flight, each call of Stop, each processor and the polling of
WaitForCompletion: the Go scheduler runs every goroutine that can run, timers
fire, and task functions return. There is none for calls: nobody has to
start, stop or scale, to send a task, to close the channel, to cancel the
context, or (in Pool) to take a result. In TaskExecution the worker's goroutine and the
task's timeout are fair, and the function is not: it may never return.
In ManagedScaling a monitor that is in an adjustment, or could leave its
select, is treated with strong fairness: a Go mutex hands itself over to a goroutine
that has waited long enough, and a select chooses at random among the cases that
are ready, so neither a busy lock nor an endless run of ticks holds one back for
ever. Nowhere else is strong fairness assumed:
a `select` of a worker that always prefers one case is allowed, which is why a queued
task is promised only to a pool whose context is not done.

## 4. Findings

* `pool_reentrant`: Stop, a shrinking Scale and a failing Start wait, under
  the pool's lock, for a worker that may be running a task which asks for the
  pool's size: neither ever returns (`pool.go:144`, `155`, `249`).
* `mgr_wait`: a task is counted only after it was sent, so its result may be
  handled first; the counter is then one too low, and WaitForCompletion
  returns while another accepted task is unfinished (`manager.go:216`).
* `mgr_double_stop`: two concurrent calls of Stop close `shutdownCh` twice and
  panic (`manager.go:145-154`).
* `manager`, `NothingExecutes`: the workers of a manager run under a context that
  `NewManager` has cancelled: they leave, or report `context.Canceled` for a
  task before its first attempt (`manager.go:88-91`, `worker.go:137-142`).
* `res_bounds`: when memory is low, a count of 2, 4 or 5 is overwritten with 4, 8
  or 10 whatever the maximum is (`resource_control.go:406-455`).
* `resource`, `SignalsTellCount`: a decrease by ForceScaleWorkers is signalled with
  +1 (`resource_control.go:259`), while `docs/architecture.md:39` has negative values
  for it; the property has to leave such decreases out.
* `scaling_ignored`: the pool never follows the controller, while
  `docs/architecture.md:40` says that it does.
* `parts`, `ObjectsAccounted`: Get compares the limit with the number of idle objects,
  which is 0 where it looks, so a positive limit never refuses (`factory.go:118`).
* `parts`, `ValidConfigIsUsable`: Validate accepts a queue size that is negative or too
  large for a channel (`manager.go:84-85` panics), a number of workers too large for the
  control channel (`resource_control.go:70` panics), a monitor interval that is not
  positive (a goroutine that Start spawns panics, `manager.go:271`), and NaN as any mark
  or factor (`config.go:108-129`).
* `task`, `PanicsAreContained`: the function of a task with a timeout runs in a
  goroutine of its own (`task.go:197`), where its panic ends the process, although
  `middleware.go:57` says that RecoveryMiddleware recovers from panics during task
  execution; the property has to leave such tasks out.

## 5. What is proved

TLAPS checks these for every value of the constants under the modules'
assumptions (`WorkerAssumption`, `PoolAssumption`, `ManagerAssumption`,
`ManagedAssumption`, `ControllerAssumption`, `ExecutionAssumption`,
`QueueAssumption`, `ObjectPoolAssumption`, `MonitorAssumption`,
`ConfigAssumption`), which only
give the constants their types, demand of the worker counts what
`Config.Validate` does, and require channels with room for one element and a
maximum size above 0 (as `NewPool` does). Every safety property that a passing
run checks is a theorem, but for `OneMonitorUntilShutdown`.

`PoolProofs`:

* `PoolTypeCorrect`. `PoolTypeOK` is not inductive: that `AddWorker` starts a
  goroutine whose result is empty needs that the ids above `nextID` are unused
  and that resting goroutines hold no task, which `TypeInv` adds. One lemma
  types the worker's steps (`TypeWorker`), one frames them (`WorkerFrame`: a
  step of worker `i` moves only a live `i` and nothing of the pool), one each
  types the pool's and the environment's.
* `NoStrayWorkerHolds`. The inductive invariant `LockInv` says which goroutines
  the holder of the lock accounts for: the live ones are in the map or are
  `victim`; in a Stop or an aborted Start, those still to be stopped or
  `victim`; and how `started` and the map go with the operation. At the end of a
  Stop nothing is left to stop and there is no victim, so nothing is live. That
  the map holds only live workers needs `SeatInv`: a goroutine has left only for
  a reason, the shared context, its own or the closed channel, and its own
  context is done only once it has left the map or a Stop is under way.
* `SizeInBoundsHolds`. Counting goroutines needs that while a Scale waits for
  its victim, which has left the map but still runs, the map is one below the
  maximum (`SizeInv`); and that a shrinking Scale heads for at least 1.

`FlowProofs`:

* `EachTaskInOnePlaceHolds`. That a task is in one place is not inductive: a
  step that moves it must know that it is not elsewhere. `PlacedInv` says it of
  the five places as sets: no task is twice in a channel, with two workers or in
  two results (`Once`), no two places share one (`Apart`), and together they are
  what was sent. One lemma for each move (send, receive, report into the channel
  or nowhere, take) says which two places change.
* `TaskFlowImplemented`: `PoolSpec` implies `Flow!Spec`, step by step. Each move
  is a step of TaskFlow and all others are stutters. The bound on the tasks
  under way comes from the counting behind `SizeInBoundsHolds`, their order from
  lemmas on the tasks of a sequence of results.

`OutcomeProofs`:

* `ResultTellsExecutionsHolds`. `TellInv` says what the result under
  construction tells at each point of the worker's loop: between two attempts
  the executions are as many as the attempt's number, in an attempt one less;
  and a task no worker has received was not executed. `PlacedInv` is needed so
  that what one worker executes is not what another one's result, or one already
  sent, speaks of.
* `StatsMatchResultsHolds`. `StatsInv` adds that the results are finitely many
  and that a worker signs its own; that a result which is sent was not there
  before, so that each is counted once, is again `PlacedInv`.

`ManagerProofs`:

* `ManagersPoolHolds`: four of the theorems about the pool, of a manager's pool. The
  lemma it rests on, `ManagerUsesPool`, holds by the shape of the manager's actions,
  each of which is an action of Pool or leaves the pool alone.
* `NothingExecutesHolds`, from `NeverExecutes`, an invariant of every pool that
  starts with its context done: no worker gets past the check of an attempt.
* `StoppedMeansQuietHolds`. `LifeInv` relates the flag, the lock, the calls of
  Stop and the pool: `shutdownCh` is closed by one call only, which alone is
  later in `pool`, `waiting` or `unmark`; while it is, the flag is set, so no
  Start can come between. It also shows that this call always finds the pool
  started and its lock free. With `LockInv` it gives the property.
* `MgrTypeCorrect`: the types, and one result processor for each successful Start.
* `CountersBalanceHolds`, `InProgressAccountsHolds`. `CountInv` adds that a
  result is handled once (`HandledOnce`: the results that processors hold are of
  different tasks and of none handled before, which needs `PlacedInv`), and that
  the sets that are counted are finite, without which a cardinality is no
  number.
* `WaitSoundHolds`. `WaitInv` says that a calm read of zero has seen everything
  handled (`ZeroMeansHandled`, from the balance of the counters), and that
  nothing accepted or handled is taken back, so that it still holds when the
  call returns.

* `ManagersControllerHolds`: six theorems of `ResourceProofs`, all but the types, of
  a manager's controller. The lemma `ManagerUsesController` holds by the shape of
  the actions, as `ManagerUsesPool` does; the theorems are those of `CtlProofs`, an
  instance of ResourceProofs with the same values as `Ctl`, and two lemmas, whose
  proofs only unfold definitions, say that the two instances are one.

`ResourceProofs`:

* `BoundsAlwaysHold`: `BoundsHold` for any number of monitors, callers and
  requests. The count alone is not inductive: `BoundsInv` adds that only the
  holder of the lock is between its read and its event, and that, until a branch
  for the tests writes the count, the holder's old count is still the count,
  from which its clamped change stays within the bounds.

* `CtlTypeCorrect`: the types, races included, with the room of the control channel and
  `consecutiveScaleUps` never below zero. It says nothing of the length of the
  history, which the races of the branches for the tests may leave above its limit.
* `HistoryTellsCountHolds`, `SignalsTellCountHolds`, from one invariant,
  `StoryInv`: the history and the signals tell the count whenever nobody is
  between a change and its event, and then the one who is still has in `job` the
  count they tell. Both speak of states with the lock free; the invariant has to
  speak of the others, in which the history may be one event over its limit.
* `GrowthCoolsDownHolds`, `GrowthIsLimitedHolds`. `RationInv` counts what is on its
  way: the growths made in this cooldown and the monitors that are in one are
  together no more than the monitors, and the consecutive growths and those already
  allowed stay below the limit plus the monitors. A monitor enters only when no
  cooldown is running, which is when nothing was grown. That a goroutine which
  records without the lock is a growing monitor (`Forcing`) is part of it.
* `DisabledSettlesHolds`. `SettleInv`: who has made an adjustment since scaling
  was disabled is at a point from which the next look at `scalingEnabled` comes
  first.

`PartsProofs`:

* `ObjectsAccountedHolds`. `OnePlace` does for the objects what `PlacedInv` does
  for the tasks; `FillInv` keeps the limit while the pool is still being filled.
* `CleanupIsRationedHolds`, an action property. `MonitorInv`: a loop that is not
  in a cleanup began its last one no later than the last cleanup of any loop
  ended, so that a loop that finds the interval passed has waited for it itself.
* `ValidConfigIsUsableHolds`. `ConfigInv` remembers that what was made had been
  accepted and had channels; the rest is arithmetic on the critical mark, for the
  marks that are numbers.

`ExecutionProofs`, for every chain of wrappers, repeated ones included, and
every number of retries, from one inductive invariant, `ExecInv`:

* `ReportTellsHolds`. `HistoryTells` says the same of everything that is still
  on its way to the report: the value returned, the answer in the channel and
  the error of each context.
* `SuccessIsFinalHolds`. `SuccessRepeats` says where a success is until it is
  reported, unless a call was given up: in the channel, thrown away because the
  context is done, or being returned through the frames.
* `PanicsAreContainedHolds`. `PanicPath` says that a panic that is being
  returned has met no RecoveryMiddleware on its way.

* `ExecTypeCorrect`. `Counted` keeps the budgets: who is in a backoff has a try
  left.
* `CancelStopsRunsHolds`. `LateInv`: a run that began too late ends all
  retrying, as every frame finds its context done; that the end of the worker's
  context is the end of every one made from it is part of the invariant.
* `RunsBoundedHolds`. `RunsInv` reads the tries as an odometer: the worker's
  times the runs of one attempt, plus those of the retrying wrapper if the call
  has passed it, plus the run that is under way.

`QueueProofs`, for a heap of any size:

* `HeapWellFormedHolds`, `PriorityOrderImplemented`. The inductive invariant,
  `QueueInv`, is that the items know their places and are of different tasks
  (`Sound`) and that none comes before its parent (`Ordered`). Sifting is a loop: at
  each turn all items are in order but the one that moves, and what is below it comes
  after what is above it (`RisesAt`, `SinksAt`); a turn preserves that at the item's
  next place (`UpTurn`, `DownTurn`), and when the loop stops the whole is in order
  (`UpStops`, `DownStops`). What the recursive functions `Up` and `Down` make of a
  heap follows by induction (`UpOrders`, `DownOrders`). An exchange keeps the set of
  entries, so a push adds one and a pop takes one away; that it is one that no other
  comes before is `RootFirst`, an induction along the parents.
* The library's rules of induction take an operator, which the provers cannot
  instantiate. The inductions go through `LeastNatural` instead: a set of natural
  numbers that is not empty has a least member, here of counterexamples, which is
  what WellFoundedInduction says of a relation. That `Up` and `Down` satisfy the
  equations they are defined by (`UpEquation`, `DownEquation`) is proved the same
  way: below each number (for `Down`, above it) there is a function that does.
  Two-argument recursive functions are beyond the provers, so `Up` and `Down` take
  their arguments one by one.

Only model-checked: the liveness properties (`OperationsReturn`,
`QueuedTaskIsReceived`, `ReceivedTaskIsReported`, `StopReturns`,
`ShutdownReleasesSubmit`, `ShutdownEndsProcessors`, `MonitorsEnd`,
`TimedTaskIsReported`), as the installed prover can handle neither fairness nor
ENABLED, and `OneMonitorUntilShutdown`.

## 6. What is not modelled

* Durations, averages, idle times, output values, logging, the `available`
  flag, which nothing reads.
* A panic inside a task's function, which ends the process (but TaskExecution).
* LoggingMiddleware, which only logs; the lengths of backoffs, with their overflow
  for large attempts (`middleware.go:114`), which no behaviour depends on; a negative
  budget of RetryMiddleware, which fails the task before its first run.
* Unbuffered channels: `Config.Validate` lets a `MaxTasksInQueue` of 0 through, but
  the capacities of the models are at least 1.
* The garbage collection itself, reading the runtime's statistics, the time a memory
  level lasts; GetMemoryTrend and SuggestGC, which nothing in the program calls;
  getters that copy.
* A Get of the object pool under a done context, which changes nothing.
* Options of a configuration that no branch depends on.
* Random numbers, facade, examples, test helpers: no state of their own. The
  facade (`lemmings.go`) hands its arguments to the packages that are modelled, and
  the examples' nil channels are `Wired = FALSE` of SimpleWorker.

## 7. Plan

In the order of importance; the first nine are done.

1. `SimpleWorker`, `Pool`, `TaskFlow`, `MCPool`: the flow of tasks.
2. `Manager`, `MCManager`: submissions, counters, life cycle.
3. `PoolProofs`, `ManagerProofs`: types, goroutines, size, life cycle.
4. `ResourceController`, `MCResource`, `ResourceProofs`: the worker count, its history
   and its signals.
5. `TaskExecution`, `MCTask`, `ExecutionProofs`: what happens inside an execution.
6. `ManagedScaling`, `MCManaged`, `ManagerProofs`: the manager with its controller.
7. `PriorityQueue`, `PriorityOrder`, `QueueProofs`: the order of tasks.
8. `ObjectPool`, `ResourceMonitor`, `Configuration`, `MCParts`.
9. `FlowProofs`, `OutcomeProofs`, `PartsProofs` and the rest of `ManagerProofs`,
   `ResourceProofs` and `ExecutionProofs`: every safety property.
10. Left: a bound on the runs of a task under several RetryMiddlewares, which
    multiply.
