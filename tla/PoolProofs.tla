----------------------------- MODULE PoolProofs -----------------------------
(***************************************************************************)
(* What holds of a pool for every number of workers and tasks, every size  *)
(* of its channels and every sequence of calls: type correctness, that no  *)
(* worker goroutine outlives its place in the pool, and the bounds of its  *)
(* size.                                                                   *)
(***************************************************************************)
EXTENDS Pool, FiniteSetTheorems, SequenceTheorems, TLAPS

USE WorkerAssumption, PoolAssumption DEF WorkerAssumption, PoolAssumption

\* The points of a worker's goroutine, and those where it holds no task.
Points == {"absent", "select", "attempt", "call", "exec", "backoff", "stats",
           "send", "exited"}
Resting == {"absent", "select", "exited"}

\* A worker has a result under construction exactly while it has a task.
Goroutines ==
    /\ pc \in [WorkerIds -> Points]
    /\ result \in [WorkerIds -> Result \union {Idle(i) : i \in WorkerIds}]
    /\ \A i \in WorkerIds : pc[i] \in Resting => result[i] = Idle(i)
    /\ \A i \in WorkerIds : pc[i] \notin Resting => result[i] \in Result

\* Type correctness, strengthened: moreover the ids above nextID are unused, and
\* nothing is left to stop outside stopAllWorkers.
TypeInv ==
    /\ PoolTypeOK
    /\ Goroutines
    /\ \A i \in WorkerIds : i > nextID => pc[i] = "absent"
    /\ op \notin {"stop", "abort"} => toStop = {}

-----------------------------------------------------------------------------
\* The pool's map is finite, so its length is a number.
LEMMA WorkersFinite ==
    ASSUME PoolTypeOK
    PROVE  IsFiniteSet(workers) /\ Cardinality(workers) \in Nat
<1>1. nextID \in Nat
  BY DEF PoolTypeOK
<1>2. IsFiniteSet(1..nextID)
  BY <1>1, FS_Interval
<1>3. IsFiniteSet(workers)
  BY <1>2, FS_Subset DEF PoolTypeOK
<1> QED
  BY <1>3, FS_CardinalityType

\* Whatever delta Scale is given, calculateNewSize stays within its bounds.
LEMMA NewSizeInBounds ==
    ASSUME PoolTypeOK, NEW delta \in Deltas
    PROVE  CalculateNewSize(delta) \in 1..MaxSize
<1>1. Cardinality(workers) + delta \in Int
  BY WorkersFinite
<1> QED
  BY <1>1 DEF CalculateNewSize

\* The head and the tail of a non-empty channel.
LEMMA HeadAndTail ==
    ASSUME NEW S, NEW s \in Seq(S), s # <<>>
    PROVE  Head(s) \in S /\ Tail(s) \in Seq(S) /\ Len(Tail(s)) = Len(s) - 1
  BY HeadTailProperties

-----------------------------------------------------------------------------
\* A worker moves from a point to another: the types of the goroutines stay.
LEMMA Move ==
    ASSUME Goroutines, NEW i \in WorkerIds, NEW p \in Points, NEW r,
           pc' = [pc EXCEPT ![i] = p],
           result' = [result EXCEPT ![i] = r],
           IF p \in Resting THEN r = Idle(i) ELSE r \in Result
    PROVE  Goroutines'
  BY DEF Goroutines

\* The updates of a result under construction.
LEMMA ResultUpdates ==
    ASSUME NEW r \in Result
    PROVE  Numbered(r) \in Result /\ \A e \in Errs : WithErr(r, e) \in Result
  BY DEF Result, Numbered, WithErr

\* The result a worker begins with is one of its task.
LEMMA NewResult ==
    ASSUME NEW i \in WorkerIds, NEW t \in Tasks
    PROVE  Blank(i, t) \in Result
  BY DEF Blank, Result, Errs

-----------------------------------------------------------------------------
\* A pool starts well typed, with no goroutine.
LEMMA TypeInit == PoolInit => TypeInv
<1> SUFFICES ASSUME PoolInit PROVE TypeInv
  OBVIOUS
<1> USE DEF PoolInit, WorkerInit
<1>1. Goroutines
  BY DEF Goroutines, Points, Resting
<1>2. /\ taskChan \in Seq(Tasks) /\ Len(taskChan) <= TaskCap
      /\ resultChan \in Seq(Result) /\ Len(resultChan) <= ResultCap
  <2>1. <<>> \in Seq(Tasks) /\ <<>> \in Seq(Result) /\ Len(<<>>) = 0
    BY EmptySeq
  <2> QED
    BY <2>1
<1>3. /\ processed \in [WorkerIds -> Nat] /\ failed \in [WorkerIds -> Nat]
      /\ execs \in [Tasks -> Nat]
  OBVIOUS
<1>4. /\ workers \subseteq 1..nextID /\ nextID \in 0..MaxId
      /\ target \in 0..MaxSize /\ op \in Ops
      /\ victim \in WorkerIds \union {NoWorker}
  BY DEF Ops, NoWorker
<1>5. PoolTypeOK
  <2> HIDE DEF PoolInit, WorkerInit
  <2>1. /\ taskClosed = FALSE /\ ctxDone \in BOOLEAN /\ wDone = {}
        /\ succeeded = {} /\ sent = {} /\ dropped = {} /\ taken = {}
        /\ started = FALSE /\ toStop = {}
    BY DEF PoolInit, WorkerInit
  <2> QED
    BY <1>1, <1>2, <1>3, <1>4, <2>1 DEF PoolTypeOK, Goroutines, Points
<1> QED
  BY <1>1, <1>5 DEF TypeInv

\* What a worker's goroutine changes besides pc and result keeps its types.
WorkerTypes ==
    /\ taskChan \in Seq(Tasks)
    /\ Len(taskChan) <= TaskCap
    /\ resultChan \in Seq(Result)
    /\ Len(resultChan) <= ResultCap
    /\ processed \in [WorkerIds -> Nat]
    /\ failed \in [WorkerIds -> Nat]
    /\ execs \in [Tasks -> Nat]
    /\ succeeded \subseteq Tasks
    /\ dropped \subseteq Result

\* One more run of a task's function.
LEMMA RunCounted ==
    \A f \in [Tasks -> Nat] : \A t \in Tasks :
      [f EXCEPT ![t] = @ + 1] \in [Tasks -> Nat]
OBVIOUS

\* The goroutine of worker i keeps the types.
LEMMA TypeWorker ==
    ASSUME TypeInv, NEW i \in WorkerIds, RunWorker(i)
    PROVE  Goroutines' /\ WorkerTypes'
<1>0. Goroutines /\ WorkerTypes
  BY DEF TypeInv, PoolTypeOK, WorkerTypes
<1>1. CASE Receive(i)
  <2>1. NextTask \in Tasks /\ taskChan' \in Seq(Tasks)
        /\ Len(taskChan') <= TaskCap
    BY <1>0, <1>1, HeadAndTail, LenProperties
       DEF Receive, NextTask, WorkerTypes
  <2>2. WorkerTypes'
    BY <1>0, <1>1, <2>1 DEF Receive, WorkerTypes, statVars, ranVars
  <2>3. Blank(i, NextTask) \in Result
        /\ WithErr(Blank(i, NextTask), "invalid") \in Result
    BY <2>1, NewResult, ResultUpdates DEF Errs
  <2>4. Goroutines'
    <3>1. CASE NextTask \in Invalid
      BY <1>0, <1>1, <2>3, <3>1, Move DEF Receive, Points, Resting
    <3>2. CASE NextTask \notin Invalid
      BY <1>0, <1>1, <2>3, <3>2, Move DEF Receive, Points, Resting
    <3> QED
      BY <3>1, <3>2
  <2> QED
    BY <2>2, <2>4
<1>2. CASE Exit(i)
  BY <1>0, <1>2 DEF Exit, Goroutines, Points, Resting, WorkerTypes, chanVars,
     statVars, ranVars
<1> DEFINE Busy == result[i] \in Result
<1>3. CASE BeginAttempt(i)
  <2>1. Busy
    BY <1>0, <1>3 DEF BeginAttempt, Goroutines, Resting
  <2>2. Numbered(result[i]) \in Result
        /\ WithErr(Numbered(result[i]), "canceled") \in Result
    BY <2>1, ResultUpdates DEF Errs
  <2> QED
    BY <1>0, <1>3, <2>2 DEF BeginAttempt, Points, Resting, WorkerTypes,
       chanVars, statVars, ranVars, Goroutines
<1>4. CASE ExecSucceeds(i)
  <2>1. Busy /\ result[i].task \in Tasks
    BY <1>0, <1>4 DEF ExecSucceeds, Goroutines, Resting, Result
  <2>2. WorkerTypes'
    <3>1. execs \in [Tasks -> Nat] /\ succeeded \subseteq Tasks
      BY <1>0 DEF WorkerTypes
    <3>2. execs' = [execs EXCEPT ![result[i].task] = @ + 1]
          /\ succeeded' = succeeded \union {result[i].task}
      BY <1>4 DEF ExecSucceeds
    <3>3. execs' \in [Tasks -> Nat] /\ succeeded' \subseteq Tasks
      BY ONLY <2>1, <3>1, <3>2, RunCounted
    <3> QED
      BY <1>0, <1>4, <3>3 DEF ExecSucceeds, WorkerTypes, chanVars, statVars
  <2> QED
    BY <1>0, <1>4, <2>1, <2>2 DEF ExecSucceeds, Goroutines, Points, Resting
<1>5. CASE ExecFails(i)
  <2>1. Busy /\ result[i].task \in Tasks
    BY <1>0, <1>5 DEF ExecFails, Goroutines, Resting, Result
  <2>2. WorkerTypes'
    <3>1. execs \in [Tasks -> Nat]
      BY <1>0 DEF WorkerTypes
    <3>2. execs' = [execs EXCEPT ![result[i].task] = @ + 1]
      BY <1>5 DEF ExecFails
    <3>3. execs' \in [Tasks -> Nat]
      BY ONLY <2>1, <3>1, <3>2, RunCounted
    <3> QED
      BY <1>0, <1>5, <3>3 DEF ExecFails, WorkerTypes, chanVars, statVars
  <2>3. WithErr(result[i], "failed") \in Result
    BY <2>1, ResultUpdates DEF Errs
  <2> QED
    BY <1>0, <1>5, <2>2, <2>3 DEF ExecFails, Goroutines, Points, Resting
<1>6. CASE BackoffElapses(i)
  BY <1>0, <1>6 DEF BackoffElapses, Goroutines, Points, Resting, WorkerTypes,
     chanVars, statVars, ranVars
<1>7. CASE BackoffCanceled(i)
  <2>1. Busy
    BY <1>0, <1>7 DEF BackoffCanceled, Goroutines, Resting
  <2>2. WithErr(result[i], "canceled") \in Result
    BY <2>1, ResultUpdates DEF Errs
  <2> QED
    BY <1>0, <1>7, <2>2
       DEF BackoffCanceled, AfterCancel, Goroutines, Points, Resting,
       WorkerTypes, chanVars, statVars, ranVars
<1>8. CASE UpdateStats(i)
  <2>1. WorkerTypes'
    <3>1. processed[i] + 1 \in Nat /\ failed[i] + 1 \in Nat
      BY <1>0 DEF WorkerTypes
    <3>2. processed' \in [WorkerIds -> Nat] /\ failed' \in [WorkerIds -> Nat]
      BY <1>0, <1>8, <3>1 DEF UpdateStats, WorkerTypes
    <3> QED
      BY <1>0, <1>8, <3>2 DEF UpdateStats, WorkerTypes, chanVars, ranVars
  <2> QED
    BY <1>0, <1>8, <2>1 DEF UpdateStats, Goroutines, Points, Resting
<1>9. CASE SendResult(i)
  <2>1. Busy
    BY <1>0, <1>9 DEF SendResult, Goroutines, Resting
  <2>2. WorkerTypes'
    <3>1. CASE RoomForResult
      <4>1. /\ Append(resultChan, result[i]) \in Seq(Result)
            /\ Len(Append(resultChan, result[i])) = Len(resultChan) + 1
        BY <1>0, <2>1, AppendProperties DEF WorkerTypes
      <4>2. Len(resultChan) < ResultCap /\ Len(resultChan) \in Nat
        BY <1>0, <3>1, LenProperties DEF RoomForResult, WorkerTypes
      <4>3. resultChan' = Append(resultChan, result[i]) /\ dropped' = dropped
        BY <1>9, <3>1 DEF SendResult, MayDrop
      <4>4. resultChan' \in Seq(Result) /\ Len(resultChan') <= ResultCap
        BY <4>1, <4>2, <4>3
      <4> QED
        BY <1>0, <1>9, <4>3, <4>4
           DEF SendResult, WorkerTypes, statVars, ranVars
    <3>2. CASE ~RoomForResult
      BY <1>0, <1>9, <2>1, <3>2
         DEF SendResult, MayDrop, WorkerTypes, statVars, ranVars
    <3> QED
      BY <3>1, <3>2
  <2>3. Goroutines'
    BY <1>0, <1>9 DEF SendResult, Goroutines, Points, Resting
  <2> QED
    BY <2>2, <2>3
<1>10. CASE CallReturns(i)
  BY <1>0, <1>10 DEF CallReturns, Goroutines, Points, Resting, WorkerTypes,
     chanVars, statVars, ranVars
<1> QED
  BY <1>1, <1>2, <1>3, <1>4, <1>5, <1>6, <1>7, <1>8, <1>9, <1>10
     DEF RunWorker, WorkerStep

\* A worker's goroutine moves only itself, and only while it is live; what the
\* pool and the channels' users own stays as it is.
LEMMA WorkerFrame ==
    ASSUME TypeInv, NEW i \in WorkerIds, RunWorker(i)
    PROVE  /\ Live(i)
           /\ pc'[i] # "absent"
           /\ \A j \in WorkerIds : j # i => pc'[j] = pc[j]
           /\ UNCHANGED <<taskClosed, ctxDone, wDone, sent, taken, poolVars>>
<1>0. pc \in [WorkerIds -> Points]
  BY DEF TypeInv, Goroutines
<1>1. CASE Receive(i) /\ UNCHANGED poolVars
  BY <1>0, <1>1 DEF Receive, Live
<1>2. CASE Exit(i) /\ UNCHANGED poolVars
  BY <1>0, <1>2 DEF Exit, Live, chanVars
<1>3. CASE BeginAttempt(i) /\ UNCHANGED poolVars
  BY <1>0, <1>3 DEF BeginAttempt, Live, chanVars
<1>4. CASE ExecSucceeds(i) /\ UNCHANGED poolVars
  BY <1>0, <1>4 DEF ExecSucceeds, Live, chanVars
<1>5. CASE ExecFails(i) /\ UNCHANGED poolVars
  BY <1>0, <1>5 DEF ExecFails, Live, chanVars
<1>6. CASE BackoffElapses(i) /\ UNCHANGED poolVars
  BY <1>0, <1>6 DEF BackoffElapses, Live, chanVars
<1>7. CASE BackoffCanceled(i) /\ UNCHANGED poolVars
  BY <1>0, <1>7 DEF BackoffCanceled, AfterCancel, Live, chanVars
<1>8. CASE UpdateStats(i) /\ UNCHANGED poolVars
  BY <1>0, <1>8 DEF UpdateStats, Live, chanVars
<1>9. CASE SendResult(i) /\ UNCHANGED poolVars
  BY <1>0, <1>9 DEF SendResult, Live
<1>10. CASE CallReturns(i)
  BY <1>0, <1>10 DEF CallReturns, Live, chanVars
<1> QED
  BY <1>1, <1>2, <1>3, <1>4, <1>5, <1>6, <1>7, <1>8, <1>9, <1>10
     DEF RunWorker, WorkerStep

-----------------------------------------------------------------------------
\* The holder of the lock, and whoever takes it, keep the types.
LEMMA TypePool ==
    ASSUME TypeInv, Begin \/ Proceed
    PROVE  TypeInv'
<1> USE DEF TypeInv, PoolTypeOK, workerVars, chanVars, statVars, ranVars
<1>0. Cardinality(workers) \in Nat
  BY WorkersFinite
<1>1. ASSUME UNCHANGED workerVars PROVE Goroutines'
  BY <1>1 DEF Goroutines
<1>2. CASE StartBegin
  <2>1. StartSize \in 0..MaxSize
    BY DEF StartSize
  <2> QED
    BY <1>1, <1>2, <2>1 DEF StartBegin, Ops
<1>3. CASE StopBegin
  <2>1. Goroutines'
    BY <1>3 DEF StopBegin, Goroutines
  <2> QED
    BY <1>3, <2>1 DEF StopBegin, Ops
<1>4. CASE \E delta \in Deltas : ScaleUp(delta) \/ ScaleDown(delta)
  <2>1. PICK delta \in Deltas : ScaleUp(delta) \/ ScaleDown(delta)
    BY <1>4
  <2>2. CalculateNewSize(delta) \in 1..MaxSize
    BY NewSizeInBounds
  <2>3. /\ op' \in Ops /\ op' \notin {"stop", "abort"} /\ op = "none"
        /\ target' \in 0..MaxSize
    BY <2>1, <2>2 DEF ScaleUp, ScaleDown, Ops
  <2>4. UNCHANGED <<workerVars, started, workers, nextID, victim, toStop>>
    BY <2>1 DEF ScaleUp, ScaleDown
  <2> QED
    BY <1>1, <2>3, <2>4
<1>5. CASE AddWorker
  <2>1. nextID + 1 \in WorkerIds
    BY <1>5 DEF AddWorker, IdsLeft, WorkerIds
  <2>2. Goroutines'
    <3>1. result[nextID + 1] = Idle(nextID + 1)
      BY <2>1 DEF Goroutines, Resting, WorkerIds
    <3>2. pc' = [pc EXCEPT ![nextID + 1] = "select"] /\ result' = result
      BY <1>5 DEF AddWorker
    <3>3. Goroutines
      BY <1>1
    <3> QED
      BY ONLY <2>1, <3>1, <3>2, <3>3 DEF Goroutines, Points, Resting
  <2>3. workers' \subseteq 1..nextID' /\ nextID' \in 0..MaxId
    <3>1. workers' = workers \union {nextID + 1} /\ nextID' = nextID + 1
      BY <1>5 DEF AddWorker
    <3>2. 1..nextID \subseteq 1..(nextID + 1) /\ nextID + 1 \in 1..(nextID + 1)
      BY <2>1
    <3> QED
      BY <2>1, <3>1, <3>2 DEF WorkerIds
  <2>4. \A i \in WorkerIds : i > nextID' => pc'[i] = "absent"
    BY <1>5, <2>1 DEF AddWorker, WorkerIds
  <2> QED
    BY <1>5, <2>2, <2>3, <2>4 DEF AddWorker, Goroutines, Points
<1>6. CASE FactoryFails
  <2>1. /\ nextID' = nextID + 1 /\ nextID' \in 0..MaxId
        /\ workers' \subseteq 1..nextID'
    BY <1>6 DEF FactoryFails, IdsLeft
  <2>2. \A i \in WorkerIds : i > nextID' => pc'[i] = "absent"
    BY <1>6, <2>1 DEF FactoryFails, WorkerIds
  <2>3. /\ op' \in Ops /\ target' = 0 /\ toStop' \subseteq workers'
        /\ op' \notin {"stop", "abort"} => toStop' = {}
    BY <1>6 DEF FactoryFails, Ops
  <2>4. UNCHANGED <<workerVars, started, workers, victim>>
    BY <1>6 DEF FactoryFails
  <2> QED
    BY <1>1, <2>1, <2>2, <2>3, <2>4
<1>7. CASE GrownEnd
  <2>1. /\ started' = TRUE /\ op' = "none" /\ target' = 0
        /\ op \in {"start", "up"} /\ toStop = {}
        /\ UNCHANGED <<workerVars, workers, nextID, victim, toStop>>
    BY <1>7 DEF GrownEnd, Unlock
  <2>2. "none" \in Ops /\ 0 \in 0..MaxSize
    BY DEF Ops
  <2> QED
    BY <1>1, <2>1, <2>2
<1>8. CASE \E i \in WorkerIds : RemoveWorker(i) \/ StopWorker(i)
  <2>1. PICK i \in WorkerIds : RemoveWorker(i) \/ StopWorker(i)
    BY <1>8
  <2>2. Goroutines'
    BY <2>1 DEF RemoveWorker, StopWorker, Goroutines
  <2> QED
    BY <2>1, <2>2 DEF RemoveWorker, StopWorker
<1>9. CASE WorkerStopped
  BY <1>1, <1>9 DEF WorkerStopped
<1>10. CASE ShrunkEnd
  <2>1. /\ op = "down" /\ op' = "none" /\ target' = 0
        /\ UNCHANGED <<workerVars, started, workers, nextID, victim, toStop>>
    BY <1>10 DEF ShrunkEnd, Unlock
  <2>2. op' \in Ops /\ target' \in 0..MaxSize
    BY <2>1 DEF Ops
  <2> QED
    BY <1>1, <2>1, <2>2
<1>11. CASE StopEnd
  <2>0. started' \in BOOLEAN
    BY <1>11, Zenon DEF StopEnd
  <2>1. /\ workers' = {} /\ toStop' = {}
        /\ op' \in Ops /\ target' \in 0..MaxSize
    BY <1>11 DEF StopEnd, Unlock, Ops
  <2>2. UNCHANGED <<workerVars, nextID, victim>>
    BY <1>11 DEF StopEnd
  <2>3. Goroutines'
    BY <1>1, <2>2
  <2>4. \A i \in WorkerIds : i > nextID' => pc'[i] = "absent"
    BY <2>2
  <2>5. workers' \subseteq 1..nextID' /\ toStop' \subseteq workers'
    BY <2>1
  <2> QED
    BY <2>0, <2>1, <2>2, <2>3, <2>4, <2>5
<1> QED
  BY <1>2, <1>3, <1>4, <1>5, <1>6, <1>7, <1>8, <1>9, <1>10, <1>11
     DEF Begin, Proceed

\* So do the users of the channels and of the context.
LEMMA TypeEnvironment ==
    ASSUME TypeInv, Environment
    PROVE  TypeInv'
<1> USE DEF TypeInv, PoolTypeOK, poolVars, chanVars, statVars, ranVars
<1>1. ASSUME UNCHANGED <<pc, result>> PROVE Goroutines'
  BY <1>1 DEF Goroutines
<1>2. CASE \E t \in Tasks : SendTask(t)
  <2>1. PICK t \in Tasks : SendTask(t)
    BY <1>2
  <2>2. /\ Append(taskChan, t) \in Seq(Tasks)
        /\ Len(Append(taskChan, t)) = Len(taskChan) + 1
    BY AppendProperties
  <2>3. Len(taskChan) \in Nat
    BY LenProperties
  <2>4. taskChan' \in Seq(Tasks) /\ Len(taskChan') <= TaskCap
    BY <2>1, <2>2, <2>3 DEF SendTask
  <2> QED
    BY <1>1, <2>1, <2>4 DEF SendTask, Environment
<1>3. CASE CloseTasks
  BY <1>1, <1>3 DEF CloseTasks, Environment
<1>4. CASE TakeResult
  <2>1. /\ Head(resultChan) \in Result
        /\ Tail(resultChan) \in Seq(Result)
        /\ Len(Tail(resultChan)) = Len(resultChan) - 1
    BY <1>4, HeadAndTail DEF TakeResult
  <2>2. Len(resultChan) \in Nat
    BY LenProperties
  <2>3. resultChan' \in Seq(Result) /\ Len(resultChan') <= ResultCap
    BY <1>4, <2>1, <2>2 DEF TakeResult
  <2> QED
    BY <1>1, <1>4, <2>1, <2>3 DEF TakeResult, Environment
<1>5. CASE CancelContext
  BY <1>1, <1>5 DEF CancelContext, Environment
<1> QED
  BY <1>2, <1>3, <1>4, <1>5 DEF Environment

-----------------------------------------------------------------------------
\* Every step of the pool keeps the strengthened type invariant.
LEMMA TypeNext == TypeInv /\ [PoolNext]_vars => TypeInv'
<1> SUFFICES ASSUME TypeInv, [PoolNext]_vars PROVE TypeInv'
  OBVIOUS
<1>1. CASE \E i \in WorkerIds : RunWorker(i)
  <2>1. PICK i \in WorkerIds : RunWorker(i)
    BY <1>1
  <2>2. Goroutines' /\ WorkerTypes'
    BY <2>1, TypeWorker
  <2>3. /\ Live(i) /\ \A j \in WorkerIds : j # i => pc'[j] = pc[j]
        /\ UNCHANGED <<taskClosed, ctxDone, wDone, sent, taken, poolVars>>
    BY <2>1, WorkerFrame
  <2>4. \A j \in WorkerIds : j > nextID' => pc'[j] = "absent"
    BY <2>3 DEF TypeInv, Live, poolVars
  <2> QED
    BY <2>2, <2>3, <2>4
       DEF TypeInv, PoolTypeOK, WorkerTypes, Goroutines, Points, poolVars
<1>2. CASE UNCHANGED vars
  BY <1>2 DEF TypeInv, PoolTypeOK, Goroutines, vars, workerVars, poolVars,
     chanVars, statVars, ranVars
<1> QED
  BY <1>1, <1>2, TypePool, TypeEnvironment DEF PoolNext

\* In every behaviour of the pool, whoever calls it and whatever its workers do
\* meanwhile, the state has the type of the program's: no channel holds more
\* than its capacity, every worker of the map has an id that was handed out,
\* and Stop has only the map's workers left to stop (pool.go, worker.go).
THEOREM PoolTypeCorrect == PoolSpec => []PoolTypeOK
<1>1. TypeInv => PoolTypeOK
  BY DEF TypeInv
<1> QED
  BY <1>1, TypeInit, TypeNext, PTL DEF PoolSpec

-----------------------------------------------------------------------------
(***************************************************************************)
(* Who is inside the critical section, and which goroutines it accounts    *)
(* for: the inductive invariant behind NoStrayWorker.                      *)
(***************************************************************************)
Starting == op \in {"start", "abort"}
Stopping == op \in {"stop", "abort"}

LockInv ==
    /\ \A i \in WorkerIds : Live(i) => i \in workers \union {victim}
    /\ Stopping => \A i \in WorkerIds : Live(i) => i \in toStop \union {victim}
    /\ op \in {"none", "start", "up"} => victim = NoWorker
    /\ Starting => ~started
    /\ op \in {"up", "down", "stop"} => started
    /\ op = "none" /\ ~started => workers = {}

\* Nothing is live before Start.
LEMMA LockInit == PoolInit => LockInv
  BY DEF PoolInit, WorkerInit, LockInv, Live, Starting, Stopping

\* The holder of the lock keeps account of every goroutine.
LEMMA LockPool ==
    ASSUME TypeInv, LockInv, Begin \/ Proceed
    PROVE  LockInv'
<1> USE DEF LockInv, Starting, Stopping, workerVars
<1>0. NoWorker \notin WorkerIds /\ pc \in [WorkerIds -> Points]
  BY DEF NoWorker, WorkerIds, TypeInv, Goroutines
<1>1. CASE StartBegin
  BY <1>1 DEF StartBegin, Live
<1>2. CASE StopBegin
  BY <1>0, <1>2 DEF StopBegin, Live
<1>3. CASE \E delta \in Deltas : ScaleUp(delta) \/ ScaleDown(delta)
  BY <1>3 DEF ScaleUp, ScaleDown, Live
<1>4. CASE AddWorker
  <2>1. \A i \in WorkerIds : i # nextID + 1 => pc'[i] = pc[i]
    BY <1>0, <1>4 DEF AddWorker
  <2> QED
    BY <1>0, <1>4, <2>1 DEF AddWorker, Live
<1>5. CASE FactoryFails
  BY <1>0, <1>5 DEF FactoryFails, Live
<1>6. CASE GrownEnd
  BY <1>6 DEF GrownEnd, Unlock, Live
<1>7. CASE \E i \in WorkerIds : RemoveWorker(i) \/ StopWorker(i)
  <2>1. PICK i \in WorkerIds : RemoveWorker(i) \/ StopWorker(i)
    BY <1>7
  <2> QED
    BY <1>0, <2>1 DEF RemoveWorker, StopWorker, Live
<1>8. CASE WorkerStopped
  BY <1>0, <1>8 DEF WorkerStopped, VictimGone, Live
<1>9. CASE ShrunkEnd
  BY <1>9 DEF ShrunkEnd, Unlock, Live
<1>10. CASE StopEnd
  BY <1>0, <1>10 DEF StopEnd, Unlock, Live
<1> QED
  BY <1>1, <1>2, <1>3, <1>4, <1>5, <1>6, <1>7, <1>8, <1>9, <1>10
     DEF Begin, Proceed

\* A step of a worker or of the environment makes no worker live.
LEMMA NoNewWorker ==
    ASSUME TypeInv,
           \/ \E i \in WorkerIds : RunWorker(i)
           \/ Environment
           \/ UNCHANGED vars
    PROVE  UNCHANGED poolVars /\ \A i \in WorkerIds : Live(i)' => Live(i)
<1>1. CASE \E i \in WorkerIds : RunWorker(i)
  BY <1>1, WorkerFrame DEF Live
<1>2. CASE Environment
  BY <1>2 DEF Environment, SendTask, CloseTasks, TakeResult, CancelContext,
     Live
<1>3. CASE UNCHANGED vars
  BY <1>3 DEF vars, workerVars, Live
<1> QED
  BY <1>1, <1>2, <1>3

\* Every step keeps the account.
LEMMA LockNext == TypeInv /\ LockInv /\ [PoolNext]_vars => LockInv'
<1> SUFFICES ASSUME TypeInv, LockInv, [PoolNext]_vars PROVE LockInv'
  OBVIOUS
<1>1. CASE Begin \/ Proceed
  BY <1>1, LockPool
<1>2. CASE ~(Begin \/ Proceed)
  <2>1. UNCHANGED poolVars /\ \A i \in WorkerIds : Live(i)' => Live(i)
    BY <1>2, NoNewWorker DEF PoolNext
  <2> QED
    BY <2>1 DEF LockInv, poolVars, Starting, Stopping
<1> QED
  BY <1>1, <1>2

-----------------------------------------------------------------------------
(***************************************************************************)
(* Why a worker of the map runs: the only ways out of its loop are the     *)
(* pool's context, the closed channel, and its own context, which is done  *)
(* for a worker of the map only while Stop or a failing Start is at work.  *)
(***************************************************************************)
SeatInv ==
    /\ wDone \subseteq 1..nextID
    /\ workers \intersect wDone # {} => Stopping
    /\ \A i \in workers : Live(i) \/ i \in wDone \/ ctxDone \/ taskClosed

\* At first there is no worker.
LEMMA SeatInit == PoolInit => SeatInv
  BY DEF PoolInit, WorkerInit, SeatInv

\* The operations of the pool.
LEMMA SeatPool ==
    ASSUME TypeInv, SeatInv, Begin \/ Proceed
    PROVE  SeatInv'
<1> USE DEF SeatInv, Stopping, workerVars, chanVars
<1>0. /\ NoWorker \notin WorkerIds /\ pc \in [WorkerIds -> Points]
      /\ nextID \in Nat /\ nextID <= MaxId /\ workers \subseteq 1..nextID
      /\ WorkerIds = 1..MaxId
  BY DEF NoWorker, WorkerIds, TypeInv, PoolTypeOK, Goroutines
<1>1. CASE StartBegin
  BY <1>1 DEF StartBegin, Live
<1>2. CASE StopBegin
  BY <1>0, <1>2 DEF StopBegin, Live
<1>3. CASE \E delta \in Deltas : ScaleUp(delta) \/ ScaleDown(delta)
  <2>1. /\ UNCHANGED <<pc, wDone, ctxDone, taskClosed, workers, nextID>>
        /\ op = "none"
    BY <1>3 DEF ScaleUp, ScaleDown
  <2> QED
    BY <2>1 DEF Live
<1>4. CASE AddWorker
  <2>1. /\ nextID' = nextID + 1 /\ workers' = workers \union {nextID'}
        /\ nextID' \in WorkerIds
        /\ UNCHANGED <<wDone, ctxDone, taskClosed, op>>
    BY <1>0, <1>4 DEF AddWorker, IdsLeft
  <2>2. nextID' \notin wDone \union workers
    BY <1>0, <2>1
  <2>3. pc' = [pc EXCEPT ![nextID'] = "select"]
    BY <1>4 DEF AddWorker
  <2>4. \A i \in WorkerIds : Live(i)' = (Live(i) \/ i = nextID')
    BY <1>0, <2>1, <2>3 DEF Live
  <2>5. 1..nextID \subseteq 1..nextID' /\ 1..nextID' \subseteq WorkerIds
    BY <1>0, <2>1
  <2>6. /\ wDone' \subseteq 1..nextID'
        /\ workers' \intersect wDone' # {} => Stopping'
    BY <2>1, <2>2, <2>5
  <2>7. \A i \in workers' : (Live(i) \/ i \in wDone \/ ctxDone \/ taskClosed)'
    BY <1>0, <2>1, <2>4, <2>5
  <2> QED
    BY <2>6, <2>7
<1>5. CASE FactoryFails
  <2>1. 1..nextID \subseteq 1..nextID'
    BY <1>0, <1>5 DEF FactoryFails
  <2>2. workers \intersect wDone = {}
    BY <1>5 DEF FactoryFails
  <2> QED
    BY <1>5, <2>1, <2>2 DEF FactoryFails, Live
<1>6. CASE GrownEnd
  BY <1>6 DEF GrownEnd, Unlock, Live
<1>7. CASE \E i \in WorkerIds : RemoveWorker(i) \/ StopWorker(i)
  <2>1. PICK i \in WorkerIds : RemoveWorker(i) \/ StopWorker(i)
    BY <1>7
  <2>2. CASE RemoveWorker(i)
    BY <1>0, <2>2 DEF RemoveWorker, Live
  <2>3. CASE StopWorker(i)
    <3>1. i \in 1..nextID
      BY <2>3 DEF StopWorker, TypeInv, PoolTypeOK
    <3> QED
      BY <1>0, <2>3, <3>1 DEF StopWorker, Live
  <2> QED
    BY <2>1, <2>2, <2>3
<1>8. CASE WorkerStopped
  BY <1>0, <1>8 DEF WorkerStopped, VictimGone, Live
<1>9. CASE ShrunkEnd
  BY <1>9 DEF ShrunkEnd, Unlock, Live
<1>10. CASE StopEnd
  BY <1>0, <1>10 DEF StopEnd, Unlock, Live
<1> QED
  BY <1>1, <1>2, <1>3, <1>4, <1>5, <1>6, <1>7, <1>8, <1>9, <1>10
     DEF Begin, Proceed

\* A worker ends only by Exit, and Exit has its reasons.
LEMMA EndsForAReason ==
    ASSUME TypeInv, NEW i \in WorkerIds, RunWorker(i)
    PROVE  Live(i)' \/ i \in wDone \/ ctxDone \/ taskClosed
<1>0. pc \in [WorkerIds -> Points]
  BY DEF TypeInv, Goroutines
<1>1. CASE Exit(i)
  BY <1>1 DEF Exit, MayLeave
<1>2. CASE ~Exit(i)
  BY <1>0, <1>2 DEF RunWorker, WorkerStep, Receive, BeginAttempt,
     ExecSucceeds, ExecFails, BackoffElapses, BackoffCanceled, AfterCancel,
     UpdateStats, SendResult, CallReturns, Live
<1> QED
  BY <1>1, <1>2

\* A worker leaves its seat only for a reason.
LEMMA SeatNext == TypeInv /\ SeatInv /\ [PoolNext]_vars => SeatInv'
<1> SUFFICES ASSUME TypeInv, SeatInv, [PoolNext]_vars PROVE SeatInv'
  OBVIOUS
<1> USE DEF SeatInv, Stopping
<1>1. CASE Begin \/ Proceed
  BY <1>1, SeatPool
<1>2. CASE \E i \in WorkerIds : RunWorker(i)
  <2>1. PICK i \in WorkerIds : RunWorker(i)
    BY <1>2
  <2>2. /\ \A j \in WorkerIds : j # i => Live(j)' = Live(j)
        /\ UNCHANGED <<taskClosed, ctxDone, wDone, poolVars>>
    BY <2>1, WorkerFrame DEF Live
  <2>3. workers \subseteq WorkerIds
    BY DEF TypeInv, PoolTypeOK, WorkerIds
  <2> QED
    BY <2>1, <2>2, <2>3, EndsForAReason DEF poolVars
<1>3. CASE Environment
  <2>1. UNCHANGED <<pc, wDone, workers, nextID, op>>
    BY <1>3 DEF Environment, SendTask, CloseTasks, TakeResult, CancelContext,
       poolVars
  <2>2. (ctxDone => ctxDone') /\ (taskClosed => taskClosed')
    BY <1>3 DEF Environment, SendTask, CloseTasks, TakeResult, CancelContext,
       chanVars
  <2> QED
    BY <2>1, <2>2 DEF Live
<1>4. CASE UNCHANGED vars
  BY <1>4 DEF vars, workerVars, chanVars, poolVars, Live
<1> QED
  BY <1>1, <1>2, <1>3, <1>4 DEF PoolNext

\* The accounts imply the property: with the lock free no worker is being
\* waited for, and a pool that is not started has no workers.
LEMMA LockSuffices == LockInv /\ SeatInv => NoStrayWorker
  BY DEF LockInv, SeatInv, NoStrayWorker, NoWorker, WorkerIds, Stopping

\* Whoever starts, scales and stops the pool in whatever order, however many
\* workers it has and wherever they are when Stop begins: no goroutine
\* outlives its place in the pool, none runs once Stop, or a Start that
\* failed, has returned, and until the context is done or the channel closed
\* Size counts workers that run (stopAllWorkers, removeWorker, Size).
THEOREM NoStrayWorkerHolds == PoolSpec => []NoStrayWorker
  BY TypeInit, TypeNext, LockInit, LockNext, SeatInit, SeatNext, LockSuffices,
     PTL DEF PoolSpec

-----------------------------------------------------------------------------
(***************************************************************************)
(* The size of the pool: the map together with the worker being stopped    *)
(* never exceeds the maximum.                                              *)
(***************************************************************************)
SizeInv ==
    /\ Cardinality(workers) <= MaxSize
    /\ op \in {"stop", "abort"} => victim \in workers \union {NoWorker}
    /\ op = "down" /\ victim # NoWorker => Cardinality(workers) + 1 <= MaxSize
    /\ op = "down" => target >= 1 /\ Cardinality(workers) >= target
    /\ op = "start" => target = StartSize
    /\ started /\ StartSize >= 1 => workers # {}

\* A pool that was not started is empty.
LEMMA SizeInit == PoolInit => SizeInv
<1>1. Cardinality({}) = 0
  BY FS_EmptySet
<1> QED
  BY <1>1 DEF PoolInit, SizeInv

\* A worker more or less.
LEMMA OneMore ==
    ASSUME TypeInv
    PROVE  /\ Cardinality(workers \union {nextID + 1})
                = Cardinality(workers) + 1
           /\ \A i \in workers :
                Cardinality(workers \ {i}) = Cardinality(workers) - 1
<1>1. IsFiniteSet(workers) /\ nextID + 1 \notin workers
  BY WorkersFinite DEF TypeInv, PoolTypeOK
<1> QED
  BY <1>1, FS_AddElement, FS_RemoveElement

\* A set of workers that is not empty has at least one element.
LEMMA EmptyMap ==
    ASSUME PoolTypeOK
    PROVE  workers = {} <=> Cardinality(workers) = 0
  BY WorkersFinite, FS_EmptySet

\* The holder of the lock keeps the size within its bounds.
LEMMA SizePool ==
    ASSUME TypeInv, LockInv, SizeInv, Begin \/ Proceed
    PROVE  SizeInv'
<1> USE DEF SizeInv
<1>0. /\ Cardinality(workers) \in Nat /\ target \in 0..MaxSize
      /\ NoWorker \notin WorkerIds
  <2>1. Cardinality(workers) \in Nat
    BY WorkersFinite DEF TypeInv
  <2>2. target \in 0..MaxSize
    BY DEF TypeInv, PoolTypeOK
  <2> QED
    BY <2>1, <2>2 DEF WorkerIds, NoWorker
<1>1. CASE StartBegin
  BY <1>1 DEF StartBegin
<1>2. CASE StopBegin
  BY <1>2 DEF StopBegin, LockInv
<1>3. CASE \E delta \in Deltas : ScaleUp(delta) \/ ScaleDown(delta)
  <2>1. PICK delta \in Deltas : ScaleUp(delta) \/ ScaleDown(delta)
    BY <1>3
  <2>2. CalculateNewSize(delta) \in 1..MaxSize
    BY NewSizeInBounds DEF TypeInv
  <2>3. victim = NoWorker
    BY <2>1 DEF ScaleUp, ScaleDown, LockInv
  <2> QED
    BY <1>0, <2>1, <2>2, <2>3 DEF ScaleUp, ScaleDown
<1>4. CASE AddWorker
  <2>1. Cardinality(workers') = Cardinality(workers) + 1 /\ workers' # {}
    BY <1>4, OneMore DEF AddWorker
  <2> QED
    BY <1>0, <1>4, <2>1 DEF AddWorker
<1>5. CASE FactoryFails
  BY <1>5 DEF FactoryFails, LockInv
<1>6. CASE GrownEnd
  <2>1. StartSize >= 1 => workers # {}
    <3>1. CASE op = "start"
      BY <1>0, <1>6, <3>1, EmptyMap DEF GrownEnd, TypeInv
    <3>2. CASE op = "up"
      BY <1>6, <3>2 DEF GrownEnd, LockInv
    <3> QED
      BY <1>6, <3>1, <3>2 DEF GrownEnd
  <2> QED
    BY <1>6, <2>1 DEF GrownEnd, Unlock
<1>7. CASE \E i \in WorkerIds : RemoveWorker(i)
  <2>1. PICK i \in WorkerIds : RemoveWorker(i)
    BY <1>7
  <2>2. Cardinality(workers') = Cardinality(workers) - 1
    BY <2>1, OneMore DEF RemoveWorker
  <2>3. workers' # {}
    BY <1>0, <2>1, <2>2, FS_EmptySet DEF RemoveWorker
  <2> QED
    BY <1>0, <2>1, <2>2, <2>3 DEF RemoveWorker
<1>8. CASE \E i \in WorkerIds : StopWorker(i)
  BY <1>8 DEF StopWorker, TypeInv, PoolTypeOK
<1>9. CASE WorkerStopped
  BY <1>9 DEF WorkerStopped
<1>10. CASE ShrunkEnd
  BY <1>10 DEF ShrunkEnd, Unlock
<1>11. CASE StopEnd
  BY <1>11, FS_EmptySet DEF StopEnd, Unlock
<1> QED
  BY <1>1, <1>2, <1>3, <1>4, <1>5, <1>6, <1>7, <1>8, <1>9, <1>10, <1>11
     DEF Begin, Proceed

\* Every step keeps the size within its bounds.
LEMMA SizeNext == TypeInv /\ LockInv /\ SizeInv /\ [PoolNext]_vars => SizeInv'
<1> SUFFICES ASSUME TypeInv, LockInv, SizeInv, [PoolNext]_vars PROVE SizeInv'
  OBVIOUS
<1>1. CASE Begin \/ Proceed
  BY <1>1, SizePool
<1>2. CASE ~(Begin \/ Proceed)
  <2>1. UNCHANGED poolVars
    BY <1>2, NoNewWorker DEF PoolNext
  <2> QED
    BY <2>1 DEF SizeInv, poolVars
<1> QED
  BY <1>1, <1>2

\* The goroutines that run are those of the map and the one being stopped.
LEMMA SizeSuffices ==
    ASSUME TypeInv, LockInv, SizeInv
    PROVE  SizeInBounds
<1> DEFINE Running == {i \in WorkerIds : Live(i)}
           Accounted == IF victim = NoWorker THEN workers
                        ELSE workers \union {victim}
<1>1. IsFiniteSet(workers) /\ Cardinality(workers) \in Nat
  BY WorkersFinite DEF TypeInv
<1>2. Running \subseteq Accounted
  BY DEF LockInv, NoWorker, WorkerIds
<1>3. IsFiniteSet(Accounted)
  BY <1>1, FS_AddElement
<1>4. Cardinality(Accounted) <= MaxSize
  <2>1. CASE victim \in workers \union {NoWorker}
    <3>1. Accounted = workers
      BY <2>1
    <3> QED
      BY <3>1 DEF SizeInv
  <2>2. CASE victim \notin workers \union {NoWorker}
    <3>1. op = "down"
      BY <2>2 DEF SizeInv, LockInv, TypeInv, PoolTypeOK, Ops
    <3>2. Cardinality(workers \union {victim}) = Cardinality(workers) + 1
      BY <1>1, <2>2, FS_AddElement
    <3> QED
      BY <2>2, <3>1, <3>2 DEF SizeInv
  <2> QED
    BY <2>1, <2>2
<1>5. Cardinality(Running) <= Cardinality(Accounted)
  BY <1>2, <1>3, FS_Subset
<1>6. Cardinality(Running) \in Nat /\ Cardinality(Accounted) \in Nat
  BY <1>2, <1>3, FS_Subset, FS_CardinalityType
<1>7. Cardinality(Running) <= MaxSize
  BY <1>4, <1>5, <1>6
<1> QED
  BY <1>7 DEF SizeInBounds, SizeInv

\* For every initial size, maximum and sequence of deltas: at most MaxSize
\* goroutines run, even while a worker being removed is no longer in the map,
\* and a pool started with workers always has one (calculateNewSize,
\* removeWorker, addWorker).
THEOREM SizeInBoundsHolds == PoolSpec => []SizeInBounds
<1>1. TypeInv /\ LockInv /\ SizeInv => SizeInBounds
  BY SizeSuffices
<1> QED
  BY <1>1, TypeInit, TypeNext, LockInit, LockNext, SizeInit, SizeNext, PTL
     DEF PoolSpec

-----------------------------------------------------------------------------
(***************************************************************************)
(* A pool whose context is done from the start.                            *)
(***************************************************************************)
NeverExecutes ==
    /\ ctxDone
    /\ \A i \in WorkerIds : pc[i] \notin {"call", "exec", "backoff"}
    /\ \A t \in Tasks : execs[t] = 0

\* Its workers may still receive tasks, and never reach an execution.
LEMMA NeverExecutesNext ==
    TypeInv /\ NeverExecutes /\ [PoolNext]_vars => NeverExecutes'
<1> SUFFICES ASSUME TypeInv, NeverExecutes, [PoolNext]_vars
             PROVE  NeverExecutes'
  OBVIOUS
<1> USE DEF NeverExecutes, chanVars, statVars, ranVars, workerVars
<1>0. pc \in [WorkerIds -> Points]
  BY DEF TypeInv, Goroutines
<1>1. CASE \E i \in WorkerIds : RunWorker(i)
  <2>1. PICK i \in WorkerIds : RunWorker(i)
    BY <1>1
  <2>2. ~ExecSucceeds(i) /\ ~ExecFails(i) /\ ~BackoffElapses(i)
        /\ ~BackoffCanceled(i) /\ ~CallReturns(i)
    BY DEF ExecSucceeds, ExecFails, BackoffElapses, BackoffCanceled,
       CallReturns
  <2>3. CASE Receive(i)
    BY <1>0, <2>3 DEF Receive
  <2>4. CASE Exit(i)
    BY <1>0, <2>4 DEF Exit
  <2>5. CASE BeginAttempt(i)
    BY <1>0, <2>5 DEF BeginAttempt, Refused
  <2>6. CASE UpdateStats(i)
    BY <1>0, <2>6 DEF UpdateStats
  <2>7. CASE SendResult(i)
    BY <1>0, <2>7 DEF SendResult
  <2> QED
    BY <2>1, <2>2, <2>3, <2>4, <2>5, <2>6, <2>7 DEF RunWorker, WorkerStep
<1>2. CASE Environment
  BY <1>2 DEF Environment, SendTask, CloseTasks, TakeResult, CancelContext
<1>3. CASE Begin
  BY <1>3 DEF Begin, StartBegin, StopBegin, ScaleUp, ScaleDown
<1>4. CASE AddWorker
  BY <1>0, <1>4 DEF AddWorker
<1>5. CASE Proceed /\ ~AddWorker
  BY <1>5 DEF Proceed, FactoryFails, GrownEnd, RemoveWorker, StopWorker,
     WorkerStopped, ShrunkEnd, StopEnd
<1>6. CASE UNCHANGED vars
  BY <1>6 DEF vars
<1> QED
  BY <1>1, <1>2, <1>3, <1>4, <1>5, <1>6 DEF PoolNext
=============================================================================
