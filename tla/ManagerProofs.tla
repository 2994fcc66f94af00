--------------------------- MODULE ManagerProofs ----------------------------
(***************************************************************************)
(* What holds of a manager for every pool size, every capacity of its      *)
(* queues, every number of tasks and of goroutines that stop it: it uses   *)
(* its pool as the pool is specified, so what is proved of the pool holds  *)
(* of the manager's; nothing it accepts is executed; a manager that is     *)
(* stopped has stopped its workers; its counters account for every task;   *)
(* WaitForCompletion is right when no result overtakes its submission; and *)
(* its resource controller behaves as ResourceController specifies, so     *)
(* what is proved of the controller holds of the manager's.                *)
(***************************************************************************)
EXTENDS ManagedScaling, FlowProofs

USE ManagerAssumption DEF ManagerAssumption

-----------------------------------------------------------------------------
\* Every step of the manager is a step of its pool or leaves the pool alone.
LEMMA MgrStepOfPool == [MgrNext]_allVars => [PoolNext]_vars
<1> SUFFICES ASSUME [MgrNext]_allVars, ~UNCHANGED vars PROVE PoolNext
  OBVIOUS
<1>1. CASE Call
  BY <1>1 DEF Call, SubmitCheck, MgrStartBegin, StopCheck, WaitCall,
     WaitCanceled, PoolNext, Begin
<1>2. CASE \E t \in Tasks : SubmitStep(t)
  BY <1>2 DEF SubmitStep, SubmitSend, SubmitGivesUp,
     SubmitCount, PoolNext, Environment
<1>3. CASE \E s \in Stoppers : StopStep(s)
  BY <1>3 DEF StopStep, StopClose, StopPool, StopPoolReturns, StopUnmark,
     PoolNext, Begin, Proceed
<1>4. CASE \E g \in Processors : ProcStep(g)
  BY <1>4 DEF ProcStep, ProcReceive, ProcHandle, ProcExit, PoolNext,
     Environment
<1>5. CASE StartStep
  BY <1>5 DEF StartStep, PoolStep, MgrStarted, MgrStartFails, PoolNext,
     Proceed
<1>6. CASE WaitStep
  BY <1>6 DEF WaitStep, WaitRead, WaitDecide
<1>7. CASE \E i \in WorkerIds : MgrWorker(i)
  BY <1>7 DEF MgrWorker, PoolNext
<1>8. ~UNCHANGED allVars
  BY DEF allVars
<1> QED
  BY <1>1, <1>2, <1>3, <1>4, <1>5, <1>6, <1>7, <1>8 DEF MgrNext, Running

\* A behaviour of a manager is one of its pool: by the shape of the manager's
\* actions, which adds nothing but lets what is proved of Pool be cited (the
\* manager's goroutines call Start and Stop of the pool).
LEMMA ManagerUsesPool == MgrSpec => PoolSpec
<1>1. MgrInit => PoolInit
  BY DEF MgrInit
<1> QED
  BY <1>1, MgrStepOfPool, PTL DEF MgrSpec, PoolSpec

\* A manager's pool keeps what every pool promises, through all submissions,
\* stops and restarts (Manager.Start, Stop, Submit on Pool.Start and Stop).
THEOREM ManagersPoolHolds ==
    MgrSpec => /\ []NoStrayWorker
               /\ []SizeInBounds
               /\ []EachTaskInOnePlace
               /\ ImplementsTaskFlow
  BY ManagerUsesPool, NoStrayWorkerHolds, SizeInBoundsHolds,
     EachTaskInOnePlaceHolds, TaskFlowImplemented, PTL

-----------------------------------------------------------------------------
\* The pool of a manager starts under a context that is done, so it never
\* executes a task, whatever is submitted to it and however often the manager
\* is started (the deferred cancel of NewManager, manager.go:88-91).
THEOREM NothingExecutesHolds == MgrSpec => []NothingExecutes
<1>1. MgrInit => TypeInv /\ NeverExecutes
  <2> SUFFICES ASSUME MgrInit PROVE TypeInv /\ NeverExecutes
    OBVIOUS
  <2>1. TypeInv
    BY TypeInit DEF MgrInit
  <2> QED
    BY <2>1 DEF MgrInit, ContextOfNewManager, PoolInit, WorkerInit,
       NeverExecutes
<1>2. NeverExecutes => NothingExecutes
  BY DEF NeverExecutes, NothingExecutes
<1> QED
  BY <1>1, <1>2, MgrStepOfPool, TypeNext, NeverExecutesNext, PTL DEF MgrSpec

-----------------------------------------------------------------------------
(***************************************************************************)
(* The manager's own critical sections: how its started flag, the lock     *)
(* that Start holds, the calls of Stop and the state of the pool go        *)
(* together.  Only one call of Stop ever closes shutdownCh; it alone goes  *)
(* on to stop the pool and to clear the flag.                              *)
(***************************************************************************)
Closer(s) == stopPc[s] \in {"pool", "waiting", "unmark"}

LifeInv ==
    /\ stopPc \in [Stoppers -> {"idle", "closing", "pool", "waiting",
                                "unmark", "done"}]
    /\ mstarted \in BOOLEAN /\ started \in BOOLEAN
    /\ op \in {"none", "start", "abort", "stop"}
    /\ mlock <=> op \in {"start", "abort"}
    /\ mlock => ~mstarted
    /\ started => mstarted
    /\ mstarted => started \/ \E s \in Stoppers : stopPc[s] = "unmark"
    /\ op = "stop" => \E s \in Stoppers : stopPc[s] = "waiting"
    /\ \A s \in Stoppers :
         /\ stopPc[s] = "closing" /\ ~shutdown
              => mstarted /\ started /\ op = "none"
         /\ Closer(s) => shutdown /\ mstarted
         /\ stopPc[s] = "pool" => started /\ op = "none"
         /\ stopPc[s] = "waiting" => op = "stop"
         /\ stopPc[s] = "unmark" => ~started /\ op = "none"
    /\ \A r, s \in Stoppers : Closer(r) /\ Closer(s) => r = s

\* A new manager is not started, and nobody is stopping it.
LEMMA LifeInit == MgrInit => LifeInv
  BY DEF MgrInit, PoolInit, WorkerInit, LifeInv, Closer

\* Start and its pool.
LEMMA LifeStart ==
    ASSUME TypeInv, LockInv, LifeInv, MgrStartBegin \/ StartStep
    PROVE  LifeInv'
<1> USE DEF LifeInv, Closer
<1>1. CASE MgrStartBegin
  BY <1>1 DEF MgrStartBegin, StartBegin
<1>2. CASE MgrStarted
  BY <1>2 DEF MgrStarted, SameShutdownCh, GrownEnd, Unlock
<1>3. CASE MgrStartFails
  BY <1>3 DEF MgrStartFails, StopEnd, Unlock, LockInv, Starting
<1>4. CASE PoolStep
  <2>1. UNCHANGED mgrVars /\ UNCHANGED started
    BY <1>4 DEF PoolStep, AddWorker, FactoryFails, StopWorker, WorkerStopped
  <2>2. op' = op \/ (op = "start" /\ op' = "abort")
    BY <1>4 DEF PoolStep, AddWorker, FactoryFails, StopWorker, WorkerStopped
  <2> QED
    BY <2>1, <2>2 DEF mgrVars, lifeVars
<1> QED
  BY <1>1, <1>2, <1>3, <1>4 DEF StartStep

\* The calls of Stop.
LEMMA LifeStop ==
    ASSUME LifeInv, NEW s \in Stoppers, StopCheck(s) \/ StopStep(s)
    PROVE  LifeInv'
<1> USE DEF LifeInv, Closer
<1>1. CASE StopCheck(s)
  <2>1. UNCHANGED <<started, op, mstarted, mlock, shutdown>>
    BY <1>1 DEF StopCheck, vars, poolVars, lifeVars
  <2>2. ~mlock /\ stopPc[s] = "idle"
        /\ stopPc' = [stopPc EXCEPT ![s] =
                        IF mstarted THEN "closing" ELSE "done"]
    BY <1>1 DEF StopCheck
  <2>3. mstarted /\ ~shutdown => started /\ op = "none"
    BY <2>2
  <2> QED
    BY <2>1, <2>2, <2>3
<1>2. CASE StopClose(s)
  <2>1. UNCHANGED <<started, op, mstarted, mlock>>
    BY <1>2 DEF StopClose, vars, poolVars
  <2>2. CASE shutdown
    BY <1>2, <2>1, <2>2 DEF StopClose
  <2>3. CASE ~shutdown
    <3>1. /\ stopPc[s] = "closing" /\ shutdown'
          /\ stopPc' = [stopPc EXCEPT ![s] = "pool"]
      BY <1>2, <2>3 DEF StopClose
    <3> QED
      BY <2>1, <2>3, <3>1
  <2> QED
    BY <2>2, <2>3
<1>3. CASE StopPool(s)
  <2>1. UNCHANGED <<started, mstarted, mlock, shutdown>>
    BY <1>3 DEF StopPool, StopBegin, lifeVars
  <2>2. /\ stopPc[s] = "pool" /\ op' = "stop"
        /\ stopPc' = [stopPc EXCEPT ![s] = "waiting"]
    BY <1>3 DEF StopPool, StopBegin
  <2> QED
    BY <2>1, <2>2
<1>4. CASE StopPoolReturns(s)
  <2>1. UNCHANGED <<mstarted, mlock, shutdown>>
    BY <1>4 DEF StopPoolReturns, lifeVars
  <2>2. /\ stopPc[s] = "waiting" /\ op' = "none" /\ started' = FALSE
        /\ stopPc' = [stopPc EXCEPT ![s] = "unmark"]
    BY <1>4 DEF StopPoolReturns, StopEnd, Unlock
  <2> QED
    BY <2>1, <2>2
<1>5. CASE StopUnmark(s)
  <2>1. UNCHANGED <<started, op, mlock, shutdown>>
    BY <1>5 DEF StopUnmark, vars, poolVars
  <2>2. /\ stopPc[s] = "unmark" /\ mstarted' = FALSE
        /\ stopPc' = [stopPc EXCEPT ![s] = "done"]
    BY <1>5 DEF StopUnmark
  <2> QED
    BY <2>1, <2>2
<1> QED
  BY <1>1, <1>2, <1>3, <1>4, <1>5 DEF StopStep

\* Every step keeps the manager's account of who starts and stops what.
LEMMA LifeNext ==
    TypeInv /\ LockInv /\ LifeInv /\ [MgrNext]_allVars => LifeInv'
<1> SUFFICES ASSUME TypeInv, LockInv, LifeInv, [MgrNext]_allVars
             PROVE  LifeInv'
  OBVIOUS
<1>1. CASE MgrStartBegin \/ StartStep
  BY <1>1, LifeStart
<1>2. CASE \E s \in Stoppers : StopCheck(s) \/ StopStep(s)
  BY <1>2, LifeStop
<1>3. ASSUME UNCHANGED <<started, op, lifeVars, stopPc>> PROVE LifeInv'
  BY <1>3 DEF LifeInv, Closer, lifeVars
<1> USE DEF vars, poolVars
<1>4. CASE \/ \E t \in Tasks : SubmitCheck(t) \/ SubmitStep(t)
           \/ WaitCall \/ WaitCanceled \/ WaitStep
  BY <1>3, <1>4 DEF SubmitCheck, SubmitStep, SubmitSend,
     SendTask, SubmitGivesUp, SubmitCount, WaitCall, WaitCanceled, WaitStep,
     WaitRead, WaitDecide
<1>5. CASE \E g \in Processors : ProcStep(g)
  BY <1>3, <1>5 DEF ProcStep, ProcReceive, ProcHandle, ProcExit
<1>6. CASE \E i \in WorkerIds : MgrWorker(i)
  BY <1>3, <1>6, WorkerFrame DEF MgrWorker, mgrVars
<1>7. CASE UNCHANGED allVars
  BY <1>3, <1>7 DEF allVars, mgrVars
<1> QED
  BY <1>1, <1>2, <1>4, <1>5, <1>6, <1>7 DEF MgrNext, Call, Running

\* The account implies the property.
LEMMA LifeSuffices == LockInv /\ LifeInv => StoppedMeansQuiet
<1> SUFFICES ASSUME LockInv, LifeInv PROVE StoppedMeansQuiet
  OBVIOUS
<1>1. ASSUME ~mlock, \A s \in Stoppers : stopPc[s] \in {"idle", "done"}
      PROVE  mstarted = started
  BY <1>1 DEF LifeInv
<1>2. ASSUME ~mlock, ~mstarted, NEW i \in WorkerIds PROVE ~Live(i)
  <2>1. op = "none" /\ ~started
    BY <1>2 DEF LifeInv, Closer
  <2> QED
    BY <2>1 DEF LockInv, NoWorker, WorkerIds
<1> QED
  BY <1>1, <1>2 DEF StoppedMeansQuiet

\* However many goroutines start and stop a manager, in whatever order: between
\* those calls the manager and its pool agree on whether they run, and a manager
\* that is not started has no worker running (Manager.Start, Manager.Stop).
THEOREM StoppedMeansQuietHolds == MgrSpec => []StoppedMeansQuiet
<1>1. MgrInit => TypeInv /\ LockInv
  BY TypeInit, LockInit DEF MgrInit
<1> QED
  BY <1>1, MgrStepOfPool, TypeNext, LockNext, LifeInit, LifeNext, LifeSuffices,
     PTL DEF MgrSpec

-----------------------------------------------------------------------------
(***************************************************************************)
(* The counters.  Only six steps move a task or a counter: a submission    *)
(* that is sent and one that is counted, a result that is received and one *)
(* that is handled, and the pool's Receive and SendResult.                 *)
(***************************************************************************)
Counting == {t \in Tasks : submitPc[t] = "counting"}

\* A step that moves no task, counts none and handles no result; a submission
\* may go on, and the call of WaitForCompletion.
Uncounted ==
    /\ Stays
    /\ UNCHANGED <<countVars, handling, handled>>
    /\ Counting' = Counting /\ Accepted' = Accepted

\* Every step is one of the six, or moves and counts nothing.
LEMMA WhatCounts ==
    ASSUME TypeInv, MgrTypeOK, [MgrNext]_allVars
    PROVE  \/ Uncounted
           \/ \E t \in Tasks : SubmitSend(t)
           \/ \E t \in Tasks : SubmitCount(t)
           \/ \E g \in Processors : ProcReceive(g)
           \/ \E g \in Processors : ProcHandle(g)
           \/ \E i \in WorkerIds : Receive(i) /\ UNCHANGED mgrVars
           \/ \E i \in WorkerIds : SendResult(i) /\ UNCHANGED mgrVars
<1> USE DEF Uncounted, Counting, Accepted
<1>0. submitPc \in [Tasks -> {"idle", "sending", "counting", "accepted",
                              "rejected"}]
  BY DEF MgrTypeOK
<1>1. ASSUME UNCHANGED vars PROVE Stays
  BY <1>1 DEF vars, workerVars, chanVars, Stays
<1>2. ASSUME NEW t \in Tasks, SubmitCheck(t) \/ SubmitGivesUp(t)
      PROVE  Uncounted
  BY <1>0, <1>1, <1>2 DEF SubmitCheck, SubmitGivesUp, procVars
<1>3. CASE MgrStartBegin \/ MgrStarted \/ MgrStartFails
  <2>1. Stays
    BY <1>3 DEF MgrStartBegin, MgrStarted, MgrStartFails, StartBegin,
       GrownEnd, StopEnd, workerVars, chanVars, Stays
  <2> QED
    BY <1>3, <2>1 DEF MgrStartBegin, MgrStarted, MgrStartFails, SpawnsNone,
       procVars
<1>4. ASSUME NEW s \in Stoppers, StopCheck(s) \/ StopStep(s)
      PROVE  Uncounted
  <2>1. Stays
    BY <1>1, <1>4 DEF StopCheck, StopStep, StopClose, StopPool,
       StopPoolReturns, StopUnmark, StopBegin, StopEnd, workerVars, chanVars,
       Stays
  <2> QED
    BY <1>4, <2>1 DEF StopCheck, StopStep, StopClose, StopPool,
       StopPoolReturns, StopUnmark, procVars
<1>5. CASE WaitCall \/ WaitCanceled \/ WaitStep
  BY <1>1, <1>5 DEF WaitCall, WaitCanceled, WaitStep, WaitRead, WaitDecide,
     procVars
<1>6. CASE PoolStep
  <2>1. Stays
    BY <1>6 DEF PoolStep, AddWorker, FactoryFails, StopWorker, WorkerStopped,
       workerVars, chanVars, Stays
  <2> QED
    BY <1>6, <2>1 DEF PoolStep, mgrVars, procVars
<1>7. CASE \E g \in Processors : ProcExit(g)
  BY <1>1, <1>7 DEF ProcExit
<1>8. ASSUME NEW i \in WorkerIds, MgrWorker(i), ~Receive(i), ~SendResult(i)
      PROVE  Uncounted
  <2>1. Stays
    BY <1>8, WorkerStays DEF MgrWorker
  <2> QED
    BY <1>8, <2>1 DEF MgrWorker, mgrVars, procVars
<1>9. CASE UNCHANGED allVars
  BY <1>1, <1>9 DEF allVars, mgrVars, procVars
<1> HIDE DEF Uncounted, Counting, Accepted
<1>10. CASE Call
  BY <1>2, <1>3, <1>4, <1>5, <1>10 DEF Call
<1>11. CASE Running
  BY <1>2, <1>3, <1>4, <1>5, <1>6, <1>7, <1>8, <1>11
     DEF Running, SubmitStep, ProcStep, StartStep, MgrWorker
<1> QED
  BY <1>9, <1>10, <1>11 DEF MgrNext

\* The type of a manager's state, strengthened: a Start under way may still
\* spawn its result processor.
MgrTypeInv ==
    /\ MgrTypeOK
    /\ mlock => starts < MaxStarts

\* A new manager has the type.
LEMMA MgrTypeInit == MgrInit => MgrTypeInv
<1> SUFFICES ASSUME MgrInit PROVE MgrTypeInv
  OBVIOUS
<1>1. PoolTypeOK
  BY TypeInit DEF MgrInit, TypeInv
<1>2. /\ mstarted = FALSE /\ mlock = FALSE /\ shutdown = FALSE
      /\ panicked = FALSE /\ submitted = 0 /\ completed = 0 /\ failures = 0
      /\ inProgress = 0 /\ starts = 0 /\ handling = {} /\ waitPc = "idle"
      /\ seen = 0 /\ mustWait = {} /\ calm = TRUE /\ handled = {}
  BY DEF MgrInit
<1>3. /\ submitPc = [t \in Tasks |-> "idle"]
      /\ proc = [g \in Processors |-> "absent"]
      /\ stopPc = [s \in Stoppers |-> "idle"]
  BY DEF MgrInit
<1>4. /\ submitPc \in [Tasks -> {"idle", "sending", "counting", "accepted",
                                 "rejected"}]
      /\ proc \in [Processors -> {"absent", "select", "handle", "exited"}]
      /\ stopPc \in [Stoppers -> {"idle", "closing", "pool", "waiting",
                                  "unmark", "done"}]
  BY <1>3
<1>5. /\ submitted \in Nat /\ completed \in Nat /\ failures \in Nat
      /\ inProgress \in Int /\ starts \in 0..MaxStarts /\ seen \in Int
      /\ handling \subseteq Processors \X Result /\ handled \subseteq Tasks
      /\ mustWait \subseteq Tasks
      /\ waitPc \in {"idle", "waiting", "read", "returned", "canceled"}
  BY <1>2
<1>6. /\ mstarted \in BOOLEAN /\ mlock \in BOOLEAN /\ shutdown \in BOOLEAN
      /\ panicked \in BOOLEAN /\ calm \in BOOLEAN /\ ~mlock
  BY <1>2, Zenon
<1>7. \A g \in Processors : proc[g] = "absent" <=> g > starts
  BY <1>2, <1>3 DEF Processors
<1> QED
  BY <1>1, <1>4, <1>5, <1>6, <1>7 DEF MgrTypeInv, MgrTypeOK

\* Every step keeps the type; only MgrStarted spawns a result processor.
LEMMA MgrTypeNext ==
    TypeInv /\ TypeInv' /\ MgrTypeInv /\ [MgrNext]_allVars => MgrTypeInv'
<1> SUFFICES ASSUME TypeInv, TypeInv', MgrTypeInv, [MgrNext]_allVars
             PROVE  MgrTypeInv'
  OBVIOUS
<1> USE DEF MgrTypeInv, MgrTypeOK, lifeVars, countVars, procVars, waitVars
<1>0. PoolTypeOK'
  BY DEF TypeInv
<1>1. ASSUME NEW t \in Tasks, SubmitCheck(t) \/ SubmitStep(t)
      PROVE  MgrTypeInv'
  <2>1. CASE SubmitCheck(t)
    BY <1>0, <2>1 DEF SubmitCheck
  <2>2. CASE SubmitSend(t)
    BY <1>0, <2>2 DEF SubmitSend
  <2>3. CASE SubmitGivesUp(t)
    BY <1>0, <2>3 DEF SubmitGivesUp
  <2>4. CASE SubmitCount(t)
    BY <1>0, <2>4 DEF SubmitCount, Raised
  <2> QED
    BY <1>1, <2>1, <2>2, <2>3, <2>4 DEF SubmitStep
<1>2. CASE MgrStartBegin
  BY <1>0, <1>2 DEF MgrStartBegin
<1>3. CASE StartStep
  <2>1. CASE PoolStep
    BY <1>0, <2>1 DEF PoolStep, mgrVars
  <2>2. CASE MgrStarted
    <3>1. starts + 1 \in Processors /\ starts + 1 \in 0..MaxStarts
      BY <2>2 DEF MgrStarted, Processors
    <3>2. /\ starts' = starts + 1
          /\ proc' = [proc EXCEPT ![starts + 1] = "select"]
      BY <2>2 DEF MgrStarted
    <3>3. \A g \in Processors : proc'[g] = "absent" <=> g > starts'
      BY <3>1, <3>2 DEF Processors
    <3> QED
      BY <1>0, <2>2, <3>1, <3>3 DEF MgrStarted, SameShutdownCh
  <2>3. CASE MgrStartFails
    BY <1>0, <2>3 DEF MgrStartFails, SpawnsNone
  <2> QED
    BY <1>3, <2>1, <2>2, <2>3 DEF StartStep
<1>4. ASSUME NEW s \in Stoppers, StopCheck(s) \/ StopStep(s)
      PROVE  MgrTypeInv'
  <2>1. CASE StopCheck(s)
    BY <1>0, <2>1 DEF StopCheck
  <2>2. CASE StopClose(s)
    BY <1>0, <2>2 DEF StopClose
  <2>3. CASE StopPool(s)
    BY <1>0, <2>3 DEF StopPool
  <2>4. CASE StopPoolReturns(s)
    BY <1>0, <2>4 DEF StopPoolReturns
  <2>5. CASE StopUnmark(s)
    BY <1>0, <2>5 DEF StopUnmark
  <2> QED
    BY <1>4, <2>1, <2>2, <2>3, <2>4, <2>5 DEF StopStep
<1>5. ASSUME NEW g \in Processors, ProcReceive(g) PROVE MgrTypeInv'
  <2>1. <<g, Head(resultChan)>> \in Processors \X Result
    BY <1>5, TakeMoves DEF ProcReceive
  <2> QED
    BY <1>0, <1>5, <2>1 DEF ProcReceive
<1>6. ASSUME NEW g \in Processors, ProcHandle(g) PROVE MgrTypeInv'
  <2>1. PICK h \in handling :
          /\ IF h[2].err = "nil"
             THEN completed' = completed + 1 /\ UNCHANGED failures
             ELSE failures' = failures + 1 /\ UNCHANGED completed
          /\ handling' = handling \ {h}
          /\ handled' = handled \union {h[2].task}
    BY <1>6 DEF ProcHandle
  <2>2. h[2].task \in Tasks
    BY <2>1 DEF Result
  <2>3. completed' \in Nat /\ failures' \in Nat
    BY <2>1
  <2> QED
    BY <1>0, <1>6, <2>1, <2>2, <2>3 DEF ProcHandle
<1>7. ASSUME NEW g \in Processors, ProcExit(g) PROVE MgrTypeInv'
  BY <1>0, <1>7 DEF ProcExit
<1>8. CASE WaitCall \/ WaitCanceled \/ WaitStep
  <2>1. CASE WaitCall
    BY <1>0, <2>1 DEF WaitCall, Accepted
  <2>2. CASE WaitRead
    <3>1. calm' \in BOOLEAN
      BY <2>2, Zenon DEF WaitRead
    <3> QED
      BY <1>0, <2>2, <3>1 DEF WaitRead
  <2>3. CASE WaitDecide
    BY <1>0, <2>3 DEF WaitDecide
  <2>4. CASE WaitCanceled
    BY <1>0, <2>4 DEF WaitCanceled
  <2> QED
    BY <1>8, <2>1, <2>2, <2>3, <2>4 DEF WaitStep
<1>9. CASE \E i \in WorkerIds : MgrWorker(i)
  BY <1>0, <1>9 DEF MgrWorker, mgrVars
<1>10. CASE UNCHANGED allVars
  BY <1>0, <1>10 DEF allVars, mgrVars
<1> QED
  BY <1>1, <1>2, <1>3, <1>4, <1>5, <1>6, <1>7, <1>8, <1>9, <1>10
     DEF MgrNext, Call, Running, ProcStep

\* Whoever submits, starts, stops and waits, the state of a manager has the
\* type of the program's; only tasksInProgress may be negative, for it counts
\* a task after it was sent (Manager.SubmitWithTimeout, handleResult).
THEOREM MgrTypeCorrect == MgrSpec => []MgrTypeOK
<1>1. MgrInit => TypeInv
  BY TypeInit DEF MgrInit
<1>2. MgrTypeInv => MgrTypeOK
  BY DEF MgrTypeInv
<1> QED
  BY <1>1, <1>2, MgrStepOfPool, TypeNext, MgrTypeInit, MgrTypeNext, PTL
     DEF MgrSpec

-----------------------------------------------------------------------------
(***************************************************************************)
(* A result is handled once: those a processor has received and not yet    *)
(* handled are of different tasks, and of none that was handled before.    *)
(***************************************************************************)
HandledOnce ==
    /\ \A h \in handling : h[2] \in taken
    /\ \A h, k \in handling : h[2].task = k[2].task => h = k
    /\ \A h \in handling : h[2].task \notin handled
    /\ handled \subseteq Done

\* What is counted is finite, so that its cardinality is a number.
Finitely ==
    /\ IsFiniteSet(Accepted) /\ IsFiniteSet(Counting)
    /\ IsFiniteSet(handled) /\ IsFiniteSet(handling) /\ IsFiniteSet(dropped)

\* The workers that have a task.
Holders == {i \in WorkerIds : result[i].task # NoTask}

CountInv ==
    /\ HandledOnce
    /\ Finitely
    /\ CountersBalance
    /\ InProgressAccounts

\* There are finitely many workers.
LEMMA HoldersFinite == IsFiniteSet(Holders) /\ Cardinality(Holders) \in Nat
<1>1. IsFiniteSet(WorkerIds)
  BY FS_Interval, WorkerAssumption DEF WorkerIds, WorkerAssumption
<1> QED
  BY <1>1, FS_Subset, FS_CardinalityType DEF Holders

\* A worker that receives a task becomes a holder, one that reports it ceases
\* to be one.
LEMMA HoldersChange ==
    ASSUME TypeInv, NEW i \in WorkerIds
    PROVE  /\ Receive(i) => Cardinality(Holders') = Cardinality(Holders) + 1
           /\ SendResult(i) => Cardinality(Holders') = Cardinality(Holders) - 1
<1>1. NoTask \notin Tasks
  BY WorkerAssumption DEF WorkerAssumption
<1>2. ASSUME Receive(i)
      PROVE  Cardinality(Holders') = Cardinality(Holders) + 1
  <2>1. /\ result[i].task = NoTask /\ result'[i].task \in Tasks
        /\ \A j \in WorkerIds : j # i => result'[j] = result[j]
    BY <1>2, ReceiveMoves
  <2>2. Holders' = Holders \union {i} /\ i \notin Holders
    BY <1>1, <2>1 DEF Holders
  <2> QED
    BY <2>2, HoldersFinite, FS_AddElement
<1>3. ASSUME SendResult(i)
      PROVE  Cardinality(Holders') = Cardinality(Holders) - 1
  <2>1. /\ result[i].task \in Tasks /\ result'[i].task = NoTask
        /\ \A j \in WorkerIds : j # i => result'[j] = result[j]
    BY <1>3, ReportMoves
  <2>2. Holders' = Holders \ {i} /\ i \in Holders
    BY <1>1, <2>1 DEF Holders
  <2> QED
    BY <2>2, HoldersFinite, FS_RemoveElement
<1> QED
  BY <1>2, <1>3

\* A new manager has counted nothing.
LEMMA CountInit == MgrInit => CountInv
<1> SUFFICES ASSUME MgrInit PROVE CountInv
  OBVIOUS
<1>1. /\ taskChan = <<>> /\ resultChan = <<>> /\ dropped = {}
      /\ \A i \in WorkerIds : result[i] = Idle(i)
  BY DEF MgrInit, PoolInit, WorkerInit
<1>2. /\ \A t \in Tasks : submitPc[t] = "idle"
      /\ submitted = 0 /\ completed = 0 /\ failures = 0 /\ inProgress = 0
      /\ handling = {} /\ handled = {}
  BY DEF MgrInit
<1>3. Accepted = {} /\ Counting = {} /\ Holders = {}
  <2>1. ASSUME NEW i \in WorkerIds PROVE result[i].task = NoTask
    <3>1. result[i] = Idle(i)
      BY <1>1
    <3> QED
      BY <3>1 DEF Idle
  <2>2. Holders = {}
    BY <2>1 DEF Holders
  <2>3. Accepted = {} /\ Counting = {}
    BY <1>2 DEF Accepted, Counting
  <2> QED
    BY <2>2, <2>3
<1>4. Cardinality({}) = 0 /\ IsFiniteSet({})
  BY FS_EmptySet
<1>5. Len(taskChan) = 0 /\ Len(resultChan) = 0
  BY <1>1
<1>6. HandledOnce
  BY <1>2 DEF HandledOnce
<1>7. Finitely
  BY <1>1, <1>2, <1>3, <1>4 DEF Finitely
<1>8. CountersBalance
  BY <1>2, <1>3, <1>4 DEF CountersBalance
<1>9. InProgressAccounts
  <2>1. inProgress + Cardinality(Counting)
          = Len(taskChan) + Cardinality(Holders) + Len(resultChan)
            + Cardinality(handling) + Cardinality(dropped)
    BY <1>1, <1>2, <1>3, <1>4, <1>5
  <2> QED
    BY <2>1 DEF InProgressAccounts, Counting, Holders
<1> QED
  BY <1>6, <1>7, <1>8, <1>9 DEF CountInv

\* The account of InProgressAccounts: what tasksInProgress says and the calls
\* that have sent a task without counting it, against the tasks in the queue,
\* at a worker, in the results, being handled and dropped.
Balanced(progress, counting, queue, held, results, inHand, gone) ==
  progress + counting = queue + held + results + inHand + gone

\* The seven ways a step moves one task or counts one keep the account.
LEMMA BalanceMoves ==
  \A p, c, q, h, r, d, l \in Int :
    Balanced(p, c, q, h, r, d, l)
      => /\ Balanced(p, c + 1, q + 1, h, r, d, l)
         /\ Balanced(p + 1, c - 1, q, h, r, d, l)
         /\ Balanced(p, c, q, h, r - 1, d + 1, l)
         /\ Balanced(p - 1, c, q, h, r, d - 1, l)
         /\ Balanced(p, c, q - 1, h + 1, r, d, l)
         /\ Balanced(p, c, q, h - 1, r + 1, d, l)
         /\ Balanced(p, c, q, h - 1, r, d, l + 1)
BY DEF Balanced

\* tasksInProgress as the difference of the other counters.
Difference(progress, counted, well, ill) == progress = counted - well - ill

\* It stays that difference when a task is counted, completed or failed.
LEMMA DifferenceMoves ==
  \A p, n, c, f \in Int :
    Difference(p, n, c, f)
      => /\ Difference(p + 1, n + 1, c, f)
         /\ Difference(p - 1, n, c + 1, f)
         /\ Difference(p - 1, n, c, f + 1)
BY DEF Difference

\* Each of the six steps moves the counters by as much as it moves the tasks.
LEMMA CountNext ==
    TypeInv /\ PlacedInv /\ MgrTypeOK /\ CountInv /\ [MgrNext]_allVars
      => CountInv'
<1> SUFFICES ASSUME TypeInv, PlacedInv, MgrTypeOK, CountInv,
                    [MgrNext]_allVars
             PROVE  CountInv'
  OBVIOUS
<1>0. Balanced(inProgress, Cardinality(Counting), Len(taskChan),
               Cardinality(Holders), Len(resultChan), Cardinality(handling),
               Cardinality(dropped))
  BY DEF CountInv, InProgressAccounts, Counting, Holders, Balanced
<1>1. Balanced(inProgress', Cardinality(Counting'), Len(taskChan'),
               Cardinality(Holders'), Len(resultChan'), Cardinality(handling'),
               Cardinality(dropped'))
        => InProgressAccounts'
  BY DEF InProgressAccounts, Counting, Holders, Balanced
<1>2. /\ Cardinality(Accepted) \in Nat /\ Cardinality(Counting) \in Nat
      /\ Cardinality(handled) \in Nat /\ Cardinality(handling) \in Nat
      /\ Cardinality(dropped) \in Nat
  BY FS_CardinalityType DEF CountInv, Finitely
<1>3. /\ taskChan \in Seq(Tasks) /\ resultChan \in Seq(Result)
      /\ Len(taskChan) \in Nat /\ Len(resultChan) \in Nat
      /\ submitted \in Nat /\ completed \in Nat /\ failures \in Nat
      /\ inProgress \in Int
  BY LenProperties DEF MgrTypeOK, TypeInv, PoolTypeOK
<1>4. Cardinality(Holders) \in Nat
  BY HoldersFinite
<1> DEFINE Numbers ==
             /\ Len(taskChan) \in Nat /\ Len(resultChan) \in Nat
             /\ submitted \in Nat /\ completed \in Nat /\ failures \in Nat
             /\ inProgress \in Int
             /\ Cardinality(Accepted) \in Nat
             /\ Cardinality(Counting) \in Nat
             /\ Cardinality(handled) \in Nat
             /\ Cardinality(handling) \in Nat
             /\ Cardinality(dropped) \in Nat
             /\ Cardinality(Holders) \in Nat
<1>N. Numbers
  BY <1>2, <1>3, <1>4
<1>B. /\ inProgress \in Int /\ Cardinality(Counting) \in Int
      /\ Len(taskChan) \in Int /\ Cardinality(Holders) \in Int
      /\ Len(resultChan) \in Int /\ Cardinality(handling) \in Int
      /\ Cardinality(dropped) \in Int
  BY <1>N
<1>C. submitted \in Int /\ completed \in Int /\ failures \in Int
      /\ inProgress \in Int
  BY <1>N
<1>D. Difference(inProgress, submitted, completed, failures)
  BY DEF CountInv, CountersBalance, Difference
<1>5. CASE Uncounted
  <2>1. /\ UNCHANGED <<taskChan, resultChan, dropped, taken, submitted,
                       completed, failures, inProgress, handling, handled>>
        /\ Counting' = Counting /\ Accepted' = Accepted
    BY <1>5 DEF Uncounted, Stays, countVars
  <2>2. Holders' = Holders
    BY <1>5 DEF Uncounted, Stays, Holders
  <2> QED
    BY <2>1, <2>2, <1>0, <1>1
       DEF CountInv, HandledOnce, Finitely, CountersBalance, Done
<1>6. ASSUME NEW t \in Tasks, SubmitSend(t) PROVE CountInv'
  <2>1. /\ taskChan' = Append(taskChan, t)
        /\ UNCHANGED <<result, resultChan, dropped, taken>>
        /\ UNCHANGED <<submitted, completed, failures, inProgress, handling,
                       handled>>
    BY <1>6, SendMoves DEF SubmitSend, countVars, procVars
  <2>2. submitPc[t] = "sending"
        /\ submitPc' = [submitPc EXCEPT ![t] = "counting"]
    BY <1>6 DEF SubmitSend
  <2>3. /\ Counting' = Counting \union {t} /\ t \notin Counting
        /\ Accepted' = Accepted
    BY <2>2 DEF Counting, Accepted, MgrTypeOK
  <2>4. /\ IsFiniteSet(Counting')
        /\ Cardinality(Counting') = Cardinality(Counting) + 1
    BY <2>3, FS_AddElement DEF CountInv, Finitely
  <2>5. Len(taskChan') = Len(taskChan) + 1 /\ Holders' = Holders
    BY <1>3, <2>1, AppendProperties DEF Holders
  <2>6. InProgressAccounts'
    <3>1. Balanced(inProgress, Cardinality(Counting) + 1, Len(taskChan) + 1,
                   Cardinality(Holders), Len(resultChan), Cardinality(handling),
                   Cardinality(dropped))
      BY <1>0, <1>B, BalanceMoves
    <3>2. Balanced(inProgress', Cardinality(Counting'), Len(taskChan'),
                   Cardinality(Holders'), Len(resultChan'),
                   Cardinality(handling'), Cardinality(dropped'))
      BY <2>1, <2>4, <2>5, <3>1
    <3> QED
      BY <1>1, <3>2
  <2> QED
    BY <1>1, <2>1, <2>3, <2>4, <2>6
       DEF CountInv, HandledOnce, Finitely, CountersBalance, Done
<1>7. ASSUME NEW t \in Tasks, SubmitCount(t) PROVE CountInv'
  <2>1. /\ UNCHANGED <<taskChan, result, resultChan, dropped, taken>>
        /\ UNCHANGED <<completed, failures, handling, handled>>
        /\ submitted' = submitted + 1 /\ inProgress' = inProgress + 1
    BY <1>7 DEF SubmitCount, Raised, procVars, vars, workerVars, chanVars
  <2>2. submitPc[t] = "counting"
        /\ submitPc' = [submitPc EXCEPT ![t] = "accepted"]
    BY <1>7 DEF SubmitCount
  <2>3. /\ Counting' = Counting \ {t} /\ t \in Counting
        /\ Accepted' = Accepted \union {t} /\ t \notin Accepted
    BY <2>2 DEF Counting, Accepted, MgrTypeOK
  <2>4. /\ IsFiniteSet(Counting') /\ IsFiniteSet(Accepted')
        /\ Cardinality(Counting') = Cardinality(Counting) - 1
        /\ Cardinality(Accepted') = Cardinality(Accepted) + 1
    BY <2>3, FS_AddElement, FS_RemoveElement DEF CountInv, Finitely
  <2>5. Holders' = Holders
    BY <2>1 DEF Holders
  <2>6. InProgressAccounts'
    <3>1. Balanced(inProgress + 1, Cardinality(Counting) - 1, Len(taskChan),
                   Cardinality(Holders), Len(resultChan), Cardinality(handling),
                   Cardinality(dropped))
      BY <1>0, <1>B, BalanceMoves
    <3>2. Balanced(inProgress', Cardinality(Counting'), Len(taskChan'),
                   Cardinality(Holders'), Len(resultChan'),
                   Cardinality(handling'), Cardinality(dropped'))
      BY <2>1, <2>4, <2>5, <3>1
    <3> QED
      BY <1>1, <3>2
  <2>7. CountersBalance'
    <3>1. /\ submitted' = Cardinality(Accepted')
          /\ completed' + failures' = Cardinality(handled')
      BY <2>1, <2>4 DEF CountInv, CountersBalance
    <3>2. Difference(inProgress + 1, submitted + 1, completed, failures)
      BY <1>C, <1>D, DifferenceMoves
    <3>3. inProgress' = submitted' - completed' - failures'
      BY <2>1, <3>2 DEF Difference
    <3> QED
      BY <3>1, <3>3 DEF CountersBalance
  <2> QED
    BY <1>1, <2>1, <2>4, <2>6, <2>7 DEF CountInv, HandledOnce, Finitely, Done
<1>8. ASSUME NEW g \in Processors, ProcReceive(g) PROVE CountInv'
  <2> DEFINE r == Head(resultChan)
             h == <<g, r>>
  <2>1. /\ resultChan # <<>> /\ r \in Result
        /\ resultChan' = Tail(resultChan) /\ taken' = taken \union {r}
        /\ UNCHANGED <<taskChan, result, dropped>>
    BY <1>8, TakeMoves DEF ProcReceive
  <2>2. /\ handling' = handling \union {h}
        /\ UNCHANGED <<submitted, completed, failures, inProgress, handled,
                       submitPc>>
    BY <1>8 DEF ProcReceive, countVars
  <2>3. r.task \in Reported
    <3>1. /\ TasksOf(resultChan) \in Seq(Tasks) /\ TasksOf(resultChan) # <<>>
          /\ Head(TasksOf(resultChan)) = r.task
      BY <1>3, <2>1, TasksOfResults, TasksOfTail
    <3> QED
      BY <3>1, TailOnce DEF Reported
  <2> HIDE DEF r
  <2>4. r.task \notin Done
    BY <2>3 DEF PlacedInv, Apart
  <2>5. /\ \A k \in handling : k[2].task # r.task
        /\ h \notin handling /\ r.task \notin handled /\ h[2] = r
    BY <2>4 DEF CountInv, HandledOnce, Done
  <2> HIDE DEF h
  <2>6. HandledOnce'
    <3>1. handled \subseteq Done'
      BY <2>1 DEF CountInv, HandledOnce, Done
    <3> QED
      BY <2>1, <2>2, <2>5, <3>1 DEF CountInv, HandledOnce
  <2>7. /\ IsFiniteSet(handling')
        /\ Cardinality(handling') = Cardinality(handling) + 1
    BY <2>2, <2>5, FS_AddElement DEF CountInv, Finitely
  <2>8. /\ Counting' = Counting /\ Accepted' = Accepted
        /\ Holders' = Holders /\ Len(resultChan') = Len(resultChan) - 1
    BY <1>3, <2>1, <2>2, HeadAndTail DEF Counting, Accepted, Holders
  <2>9. InProgressAccounts'
    <3>1. Balanced(inProgress, Cardinality(Counting), Len(taskChan),
                   Cardinality(Holders), Len(resultChan) - 1,
                   Cardinality(handling) + 1, Cardinality(dropped))
      BY <1>0, <1>B, BalanceMoves
    <3>2. Balanced(inProgress', Cardinality(Counting'), Len(taskChan'),
                   Cardinality(Holders'), Len(resultChan'),
                   Cardinality(handling'), Cardinality(dropped'))
      BY <2>1, <2>2, <2>7, <2>8, <3>1
    <3> QED
      BY <1>1, <3>2
  <2> QED
    BY <1>1, <2>1, <2>2, <2>6, <2>7, <2>8, <2>9
       DEF CountInv, Finitely, CountersBalance
<1>9. ASSUME NEW g \in Processors, ProcHandle(g) PROVE CountInv'
  <2>1. PICK h \in handling :
          /\ IF h[2].err = "nil"
             THEN completed' = completed + 1 /\ UNCHANGED failures
             ELSE failures' = failures + 1 /\ UNCHANGED completed
          /\ handling' = handling \ {h}
          /\ handled' = handled \union {h[2].task}
    BY <1>9 DEF ProcHandle
  <2>2. /\ inProgress' = inProgress - 1
        /\ UNCHANGED <<submitPc, submitted, taskChan, result, resultChan,
                       dropped, taken>>
    BY <1>9 DEF ProcHandle, vars, workerVars, chanVars
  <2>3. /\ h[2].task \notin handled /\ h[2].task \in Done
        /\ \A k \in handling \ {h} : k[2].task # h[2].task
    BY <2>1 DEF CountInv, HandledOnce, Done
  <2>4. HandledOnce'
    <3>1. Done' = Done
      BY <2>2 DEF Done
    <3> QED
      BY <2>1, <2>2, <2>3, <3>1 DEF CountInv, HandledOnce
  <2>5. /\ IsFiniteSet(handling') /\ IsFiniteSet(handled')
        /\ Cardinality(handling') = Cardinality(handling) - 1
        /\ Cardinality(handled') = Cardinality(handled) + 1
    BY <2>1, <2>3, FS_AddElement, FS_RemoveElement DEF CountInv, Finitely
  <2>6. /\ Counting' = Counting /\ Accepted' = Accepted /\ Holders' = Holders
    BY <2>2 DEF Counting, Accepted, Holders
  <2>7. InProgressAccounts'
    <3>1. Balanced(inProgress - 1, Cardinality(Counting), Len(taskChan),
                   Cardinality(Holders), Len(resultChan),
                   Cardinality(handling) - 1, Cardinality(dropped))
      BY <1>0, <1>B, BalanceMoves
    <3>2. Balanced(inProgress', Cardinality(Counting'), Len(taskChan'),
                   Cardinality(Holders'), Len(resultChan'),
                   Cardinality(handling'), Cardinality(dropped'))
      BY <2>2, <2>5, <2>6, <3>1
    <3> QED
      BY <1>1, <3>2
  <2>8. completed' + failures' = completed + failures + 1
    BY <1>3, <2>1
  <2>9. completed' \in Nat /\ failures' \in Nat
    BY <1>3, <2>1
  <2>10. CountersBalance'
    <3>1. /\ submitted' = Cardinality(Accepted')
          /\ completed + failures = Cardinality(handled)
          /\ inProgress = submitted - completed - failures
          /\ submitted' = submitted /\ inProgress' = inProgress - 1
      BY <2>2, <2>6 DEF CountInv, CountersBalance
    <3>2. Cardinality(handled') = Cardinality(handled) + 1
      BY <2>5
    <3>3. completed' + failures' = Cardinality(handled')
      <4>1. completed + failures = Cardinality(handled)
        BY <3>1
      <4>2. completed' + failures' = Cardinality(handled) + 1
        BY ONLY <2>8, <4>1
      <4> QED
        BY ONLY <3>2, <4>2
    <3>4. Difference(inProgress - 1, submitted, completed', failures')
      <4>1. /\ Difference(inProgress - 1, submitted, completed + 1, failures)
            /\ Difference(inProgress - 1, submitted, completed, failures + 1)
        BY <1>C, <1>D, DifferenceMoves
      <4> QED
        BY <2>1, <4>1
    <3>5. inProgress' = submitted' - completed' - failures'
      BY <3>1, <3>4 DEF Difference
    <3> QED
      BY <3>1, <3>3, <3>5 DEF CountersBalance
  <2> QED
    BY <1>1, <2>2, <2>4, <2>5, <2>6, <2>7, <2>10 DEF CountInv, Finitely
<1>10. ASSUME NEW i \in WorkerIds, Receive(i) \/ SendResult(i),
              UNCHANGED mgrVars
       PROVE  CountInv'
  <2>1. /\ UNCHANGED <<submitted, completed, failures, inProgress, handling,
                       handled, taken>>
        /\ Counting' = Counting /\ Accepted' = Accepted
    BY <1>10, ReceiveMoves, ReportMoves
       DEF mgrVars, countVars, procVars, Counting, Accepted
  <2>2. CASE Receive(i)
    <3>1. /\ taskChan # <<>> /\ taskChan' = Tail(taskChan)
          /\ UNCHANGED <<resultChan, dropped>>
      BY <2>2, ReceiveMoves
    <3>2. Len(taskChan') = Len(taskChan) - 1
      BY <1>3, <3>1, HeadAndTail
    <3>3. Cardinality(Holders') = Cardinality(Holders) + 1
      BY <2>2, HoldersChange
    <3>4. InProgressAccounts'
      <4>1. Balanced(inProgress, Cardinality(Counting), Len(taskChan) - 1,
                     Cardinality(Holders) + 1, Len(resultChan),
                     Cardinality(handling), Cardinality(dropped))
        BY <1>0, <1>B, BalanceMoves
      <4>2. Balanced(inProgress', Cardinality(Counting'), Len(taskChan'),
                     Cardinality(Holders'), Len(resultChan'),
                     Cardinality(handling'), Cardinality(dropped'))
        BY <2>1, <3>1, <3>2, <3>3, <4>1
      <4> QED
        BY <1>1, <4>2
    <3> QED
      BY <1>1, <2>1, <3>1, <3>4
         DEF CountInv, HandledOnce, Finitely, CountersBalance, Done
  <2>3. CASE SendResult(i)
    <3>1. Cardinality(Holders') = Cardinality(Holders) - 1
      BY <2>3, HoldersChange
    <3>2. /\ taskChan' = taskChan /\ result[i] \in Result
          /\ \/ /\ dropped' = dropped
                /\ resultChan' = Append(resultChan, result[i])
             \/ /\ resultChan' = resultChan
                /\ dropped' = dropped \union {result[i]}
      BY <2>3, ReportMoves
    <3>3. result[i] \notin dropped
      BY <2>3, HeldLoses DEF PlacedInv, Apart, Lost
    <3>4. CASE dropped' = dropped
               /\ resultChan' = Append(resultChan, result[i])
      <4>1. Len(resultChan') = Len(resultChan) + 1
        BY <1>3, <3>2, <3>4, AppendProperties
      <4>2. InProgressAccounts'
        <5>1. Balanced(inProgress, Cardinality(Counting), Len(taskChan),
                       Cardinality(Holders) - 1, Len(resultChan) + 1,
                       Cardinality(handling), Cardinality(dropped))
          BY <1>0, <1>B, BalanceMoves
        <5>2. Balanced(inProgress', Cardinality(Counting'), Len(taskChan'),
                       Cardinality(Holders'), Len(resultChan'),
                       Cardinality(handling'), Cardinality(dropped'))
          BY <2>1, <3>1, <3>2, <3>4, <4>1, <5>1
        <5> QED
          BY <1>1, <5>2
      <4> QED
        BY <1>1, <2>1, <3>4, <4>2
           DEF CountInv, HandledOnce, Finitely, CountersBalance, Done
    <3>5. CASE resultChan' = resultChan /\ dropped' = dropped \union {result[i]}
      <4>1. /\ IsFiniteSet(dropped')
            /\ Cardinality(dropped') = Cardinality(dropped) + 1
        BY <3>3, <3>5, FS_AddElement DEF CountInv, Finitely
      <4>2. InProgressAccounts'
        <5>1. Balanced(inProgress, Cardinality(Counting), Len(taskChan),
                       Cardinality(Holders) - 1, Len(resultChan),
                       Cardinality(handling), Cardinality(dropped) + 1)
          BY <1>0, <1>B, BalanceMoves
        <5>2. Balanced(inProgress', Cardinality(Counting'), Len(taskChan'),
                       Cardinality(Holders'), Len(resultChan'),
                       Cardinality(handling'), Cardinality(dropped'))
          BY <2>1, <3>1, <3>2, <3>5, <4>1, <5>1
        <5> QED
          BY <1>1, <5>2
      <4> QED
        BY <1>1, <2>1, <4>1, <4>2
           DEF CountInv, HandledOnce, Finitely, CountersBalance, Done
    <3> QED
      BY <3>2, <3>4, <3>5
  <2> QED
    BY <1>10, <2>2, <2>3
<1> QED
  BY <1>5, <1>6, <1>7, <1>8, <1>9, <1>10, WhatCounts

\* Every manager's run keeps the invariants of its pool and its own type.
LEMMA MgrPlaced == MgrSpec => [](TypeInv /\ PlacedInv /\ MgrTypeOK)
<1>1. MgrInit => TypeInv /\ PlacedInv
  BY TypeInit, PlacedInit DEF MgrInit
<1>2. MgrTypeInv => MgrTypeOK
  BY DEF MgrTypeInv
<1> QED
  BY <1>1, <1>2, MgrStepOfPool, TypeNext, PlacedNext, MgrTypeInit, MgrTypeNext,
     PTL DEF MgrSpec

\* However many goroutines submit and however often the manager is restarted,
\* tasksSubmitted counts the accepted tasks, tasksCompleted and tasksFailed
\* those whose result was handled, once each, and tasksInProgress is their
\* difference (SubmitWithTimeout, handleResult).
THEOREM CountersBalanceHolds == MgrSpec => []CountersBalance
<1>1. CountInv => CountersBalance
  BY DEF CountInv
<1> QED
  BY <1>1, MgrPlaced, CountInit, CountNext, PTL DEF MgrSpec

\* Where the tasks are that tasksInProgress counts: with those that are sent
\* and not yet counted it accounts for every task in the queues, with a worker
\* or a processor, and for ever for those whose result was thrown away
\* (SubmitWithTimeout, handleResult, SimpleWorker.sendResult).
THEOREM InProgressAccountsHolds == MgrSpec => []InProgressAccounts
<1>1. CountInv => InProgressAccounts
  BY DEF CountInv
<1> QED
  BY <1>1, MgrPlaced, CountInit, CountNext, PTL DEF MgrSpec

-----------------------------------------------------------------------------
(***************************************************************************)
(* WaitForCompletion.  Accepted tasks stay accepted and handled results    *)
(* stay handled, so what held when the counter was read still holds when   *)
(* the call returns.  At a calm read of zero the counters say that as many *)
(* results were handled as tasks accepted, hence all of them.              *)
(***************************************************************************)
WaitInv ==
    /\ mustWait \subseteq Accepted
    /\ waitPc = "read" /\ calm /\ seen = 0 => mustWait \subseteq handled
    /\ WaitSound

\* Nothing is taken back.
LEMMA NothingTakenBack ==
    ASSUME TypeInv, MgrTypeOK, [MgrNext]_allVars
    PROVE  Accepted \subseteq Accepted' /\ handled \subseteq handled'
<1>1. CASE Uncounted
  BY <1>1 DEF Uncounted
<1>2. ASSUME NEW t \in Tasks, SubmitSend(t)
      PROVE  Accepted \subseteq Accepted' /\ handled \subseteq handled'
  BY <1>2 DEF SubmitSend, procVars, Accepted, MgrTypeOK
<1>3. ASSUME NEW t \in Tasks, SubmitCount(t)
      PROVE  Accepted \subseteq Accepted' /\ handled \subseteq handled'
  BY <1>3 DEF SubmitCount, procVars, Accepted, MgrTypeOK
<1>4. ASSUME NEW g \in Processors, ProcReceive(g) \/ ProcHandle(g)
      PROVE  Accepted \subseteq Accepted' /\ handled \subseteq handled'
  BY <1>4 DEF ProcReceive, ProcHandle, Accepted
<1>5. ASSUME UNCHANGED mgrVars
      PROVE  Accepted \subseteq Accepted' /\ handled \subseteq handled'
  BY <1>5 DEF mgrVars, procVars, Accepted
<1> QED
  BY <1>1, <1>2, <1>3, <1>4, <1>5, WhatCounts

\* At a read of zero with no handled result of a task that is not accepted,
\* every accepted task was handled.
LEMMA ZeroMeansHandled ==
    ASSUME CountInv, MgrTypeOK, inProgress = 0, handled \subseteq Accepted
    PROVE  handled = Accepted
<1>1. /\ IsFiniteSet(Accepted)
      /\ Cardinality(Accepted) \in Nat /\ Cardinality(handled) \in Nat
  BY FS_CardinalityType DEF CountInv, Finitely
<1>2. /\ submitted \in Nat /\ completed \in Nat /\ failures \in Nat
      /\ submitted = Cardinality(Accepted)
      /\ completed + failures = Cardinality(handled)
      /\ submitted - completed - failures = 0
  BY DEF CountInv, CountersBalance, MgrTypeOK
<1>3. PICK a, b, c \in Int : a = submitted /\ b = completed /\ c = failures
  BY <1>2
<1>4. a - b - c = 0
  BY <1>2, <1>3
<1>5. a = b + c
  BY <1>4
<1>6. Cardinality(Accepted) = Cardinality(handled)
  BY <1>2, <1>3, <1>5
<1> QED
  BY <1>1, <1>6, FS_Subset

\* Nobody has called it yet.
LEMMA WaitInit == MgrInit => WaitInv
  BY DEF MgrInit, WaitInv, WaitSound

\* Only the call, the read, the decision and the giving up change the account.
LEMMA WaitNext ==
    TypeInv /\ MgrTypeOK /\ CountInv /\ WaitInv /\ [MgrNext]_allVars
      => WaitInv'
<1> SUFFICES ASSUME TypeInv, MgrTypeOK, CountInv, WaitInv, [MgrNext]_allVars
             PROVE  WaitInv'
  OBVIOUS
<1>1. Accepted \subseteq Accepted' /\ handled \subseteq handled'
  BY NothingTakenBack
<1>2. CASE WaitCall
  <2>1. waitPc' = "waiting" /\ mustWait' = Accepted
    BY <1>2 DEF WaitCall
  <2> QED
    BY <1>1, <2>1 DEF WaitInv, WaitSound
<1>3. CASE WaitRead
  <2>1. /\ waitPc' = "read" /\ seen' = inProgress /\ mustWait' = mustWait
        /\ calm' => handled \subseteq Accepted
    BY <1>3 DEF WaitRead
  <2>2. calm' /\ seen' = 0 => mustWait \subseteq handled
    BY <2>1, ZeroMeansHandled DEF WaitInv
  <2> QED
    BY <1>1, <2>1, <2>2 DEF WaitInv, WaitSound
<1>4. CASE WaitDecide
  <2>1. /\ waitPc = "read" /\ waitPc' \in {"returned", "waiting"}
        /\ waitPc' = "returned" => seen = 0
        /\ UNCHANGED <<mustWait, calm>>
    BY <1>4 DEF WaitDecide, NothingLeft
  <2> QED
    BY <1>1, <2>1 DEF WaitInv, WaitSound
<1>5. CASE WaitCanceled
  <2>1. waitPc' = "canceled" /\ mustWait' = mustWait
    BY <1>5 DEF WaitCanceled
  <2> QED
    BY <1>1, <2>1 DEF WaitInv, WaitSound
<1>6. ASSUME UNCHANGED waitVars PROVE WaitInv'
  BY <1>1, <1>6 DEF waitVars, WaitInv, WaitSound
<1>7. ASSUME NEW t \in Tasks, SubmitCheck(t) \/ SubmitStep(t)
      PROVE  UNCHANGED waitVars
  BY <1>7 DEF SubmitCheck, SubmitStep, SubmitSend, SubmitGivesUp, SubmitCount
<1>8. ASSUME NEW s \in Stoppers, StopCheck(s) \/ StopStep(s)
      PROVE  UNCHANGED waitVars
  BY <1>8 DEF StopCheck, StopStep, StopClose, StopPool, StopPoolReturns,
     StopUnmark
<1>9. ASSUME NEW g \in Processors, ProcStep(g) PROVE UNCHANGED waitVars
  BY <1>9 DEF ProcStep, ProcReceive, ProcHandle, ProcExit
<1>10. CASE MgrStartBegin \/ StartStep
  BY <1>6, <1>10 DEF MgrStartBegin, StartStep, PoolStep, MgrStarted,
     MgrStartFails, mgrVars
<1>11. CASE \/ \E i \in WorkerIds : MgrWorker(i)
            \/ UNCHANGED allVars
  BY <1>6, <1>11 DEF MgrWorker, allVars, mgrVars
<1> QED
  BY <1>2, <1>3, <1>4, <1>5, <1>6, <1>7, <1>8, <1>9, <1>10, <1>11
     DEF MgrNext, Call, Running, WaitStep

\* WaitForCompletion returns with every task handled that was accepted before
\* the call, whoever submits, stops and restarts meanwhile, if no result had
\* overtaken the counting of its own submission when it read the counter; the
\* hypothesis is needed, as the run mgr_wait shows.
THEOREM WaitSoundHolds == MgrSpec => []WaitSound
<1>1. WaitInv => WaitSound
  BY DEF WaitInv
<1> QED
  BY <1>1, MgrPlaced, CountInit, CountNext, WaitInit, WaitNext, PTL
     DEF MgrSpec

-----------------------------------------------------------------------------
\* The goroutines of the manager that adjust the count are the controller's.
LEMMA ControlledIsCtl ==
    Controlled => Ctl!CtlNext \/ UNCHANGED Ctl!ctlVars
<1>. SUFFICES ASSUME Controlled
              PROVE  Ctl!CtlNext \/ UNCHANGED Ctl!ctlVars
  OBVIOUS
<1>1. ASSUME NEW g \in Processors, MonitorTicks(g)
      PROVE  Ctl!CtlNext
  BY <1>1 DEF MonitorTicks, Ctl!Monitor, Ctl!CtlNext
<1>2. ASSUME NEW g \in Processors, MonitorAdjusts(g)
      PROVE  Ctl!CtlNext
  BY <1>2 DEF MonitorAdjusts, Ctl!CtlNext, Ctl!Actors
<1>3. ASSUME NEW g \in Processors, MonitorEnds(g)
      PROVE  UNCHANGED Ctl!ctlVars
  BY <1>3 DEF MonitorEnds, ctlVars, Ctl!ctlVars, Ctl!countVars,
     Ctl!signalVars, Ctl!rationVars, Ctl!worldVars, Ctl!workVars
<1>4. ASSUME NEW c \in Hands, HandCalls(c)
      PROVE  Ctl!CtlNext
  BY <1>4 DEF HandCalls, Ctl!CtlNext
<1>5. ASSUME NEW c \in Hands, HandAdjusts(c)
      PROVE  Ctl!CtlNext
  BY <1>5 DEF HandAdjusts, Ctl!CtlNext, Ctl!Actors
<1>6. CASE SwitchScaling
  BY <1>6 DEF SwitchScaling, Ctl!CtlNext, Ctl!World
<1>7. ASSUME NEW c \in {"scale down", "scale up"}, CooldownElapses(c)
      PROVE  Ctl!CtlNext
  BY <1>7 DEF CooldownElapses, Ctl!CtlNext, Ctl!World
<1>8. QED
  BY <1>1, <1>2, <1>3, <1>4, <1>5, <1>6, <1>7 DEF Controlled

\* The manager's own steps, and none at all, leave the controller alone.
LEMMA ManageLeavesCtl ==
    Manage \/ UNCHANGED managedVars => UNCHANGED Ctl!ctlVars
  BY DEF Manage, managedVars, ctlVars, Ctl!ctlVars,
     Ctl!countVars, Ctl!signalVars, Ctl!rationVars, Ctl!worldVars,
     Ctl!workVars

\* In the same way a behaviour of a manager with its controller is one of the
\* controller, so that what is proved of ResourceController can be cited (the
\* manager's goroutines call its methods).
LEMMA ManagerUsesController == ManagedSpec => Ctl!CtlSpec
<1>1. ManagedInit => Ctl!CtlInit
  BY DEF ManagedInit
<1>2. [ManagedNext]_managedVars => [Ctl!CtlNext]_(Ctl!ctlVars)
  BY ControlledIsCtl, ManageLeavesCtl DEF ManagedNext
<1>3. QED
  BY <1>1, <1>2, PTL DEF ManagedSpec, Ctl!CtlSpec

-----------------------------------------------------------------------------
\* What is proved of ResourceController, of the manager's instance of it.
CtlProofs == INSTANCE ResourceProofs WITH
    Monitors <- Processors,
    Callers <- Hands,
    Requests <- {[delta |-> d, why |-> "manual scaling"] : d \in Wishes},
    MaxWorkers <- MaxSize,
    InitialWorkers <- InitialSize,
    pc <- ctlPc

\* The two instances are of one module with the same values.
LEMMA SameController ==
    /\ Ctl!ControllerAssumption <=> CtlProofs!ControllerAssumption
    /\ Ctl!CtlInit <=> CtlProofs!CtlInit
    /\ [Ctl!CtlNext]_(Ctl!ctlVars) <=> [CtlProofs!CtlNext]_(CtlProofs!ctlVars)
<1>1. Ctl!ControllerAssumption <=> CtlProofs!ControllerAssumption
  BY DEF Ctl!ControllerAssumption, CtlProofs!ControllerAssumption,
     Ctl!Validate, CtlProofs!Validate, Ctl!Reasons, CtlProofs!Reasons,
     Ctl!TestReasons, CtlProofs!TestReasons, Ctl!Actors, CtlProofs!Actors,
     Ctl!IsFiniteSet, CtlProofs!IsFiniteSet
<1>2. /\ Ctl!CtlInit <=> CtlProofs!CtlInit
      /\ [Ctl!CtlNext]_(Ctl!ctlVars)
           <=> [CtlProofs!CtlNext]_(CtlProofs!ctlVars)
  BY DEF
     Ctl!Actors, Ctl!TestReasons, Ctl!Reasons, Ctl!countVars,
     Ctl!signalVars, Ctl!rationVars, Ctl!worldVars, Ctl!workVars,
     Ctl!ctlVars, Ctl!NoJob, Ctl!Levels, Ctl!Reason, Ctl!Larger,
     Ctl!Halved, Ctl!Growth, Ctl!Rigged, Ctl!SpecialDelta, Ctl!Clamped,
     Ctl!SpecialSignals, Ctl!SignalSign, Ctl!SignalsOf, Ctl!Send,
     Ctl!TooLong, Ctl!WithoutTheOldest, Ctl!CtlInit, Ctl!Counts,
     Ctl!AtLimit, Ctl!AfterDecrease, Ctl!Cooled, Ctl!GoTo, Ctl!Late,
     Ctl!Return, Ctl!Tick, Ctl!Shrink, Ctl!ReadCount, Ctl!Weigh,
     Ctl!Grow, Ctl!ForceCount, Ctl!ForceEnds, Ctl!AfterGrowth,
     Ctl!AfterShrinking, Ctl!AfterCritical, Ctl!Call, Ctl!Leave,
     Ctl!ScalingIsOn, Ctl!CheckEnabled, Ctl!Acquire, Ctl!Apply,
     Ctl!Raced, Ctl!Histories, Ctl!Recorded, Ctl!Record, Ctl!Trim,
     Ctl!Cut, Ctl!Signal, Ctl!SetScaling, Ctl!MemoryChanges,
     Ctl!CooldownElapses, Ctl!TakeSignal, Ctl!TakePause, Ctl!Adjust,
     Ctl!Monitor, Ctl!World, Ctl!CtlNext, CtlProofs!Actors,
     CtlProofs!TestReasons, CtlProofs!Reasons, CtlProofs!countVars,
     CtlProofs!signalVars, CtlProofs!rationVars, CtlProofs!worldVars,
     CtlProofs!workVars, CtlProofs!ctlVars, CtlProofs!NoJob,
     CtlProofs!Levels, CtlProofs!Reason, CtlProofs!Larger,
     CtlProofs!Halved, CtlProofs!Growth, CtlProofs!Rigged,
     CtlProofs!SpecialDelta, CtlProofs!Clamped,
     CtlProofs!SpecialSignals, CtlProofs!SignalSign,
     CtlProofs!SignalsOf, CtlProofs!Send, CtlProofs!TooLong,
     CtlProofs!WithoutTheOldest, CtlProofs!CtlInit, CtlProofs!Counts,
     CtlProofs!AtLimit, CtlProofs!AfterDecrease, CtlProofs!Cooled,
     CtlProofs!GoTo, CtlProofs!Late, CtlProofs!Return, CtlProofs!Tick,
     CtlProofs!Shrink, CtlProofs!ReadCount, CtlProofs!Weigh,
     CtlProofs!Grow, CtlProofs!ForceCount, CtlProofs!ForceEnds,
     CtlProofs!AfterGrowth, CtlProofs!AfterShrinking,
     CtlProofs!AfterCritical, CtlProofs!Call, CtlProofs!Leave,
     CtlProofs!ScalingIsOn, CtlProofs!CheckEnabled, CtlProofs!Acquire,
     CtlProofs!Apply, CtlProofs!Raced, CtlProofs!Histories,
     CtlProofs!Recorded, CtlProofs!Record, CtlProofs!Trim,
     CtlProofs!Cut, CtlProofs!Signal, CtlProofs!SetScaling,
     CtlProofs!MemoryChanges, CtlProofs!CooldownElapses,
     CtlProofs!TakeSignal, CtlProofs!TakePause, CtlProofs!Adjust,
     CtlProofs!Monitor, CtlProofs!World, CtlProofs!CtlNext
<1> QED
  BY <1>1, <1>2, Zenon

\* They have the same properties.
LEMMA SameProperties ==
    /\ Ctl!BoundsHold <=> CtlProofs!BoundsHold
    /\ Ctl!HistoryTellsCount <=> CtlProofs!HistoryTellsCount
    /\ Ctl!SignalsTellCount <=> CtlProofs!SignalsTellCount
    /\ Ctl!GrowthCoolsDown <=> CtlProofs!GrowthCoolsDown
    /\ Ctl!GrowthIsLimited <=> CtlProofs!GrowthIsLimited
    /\ Ctl!DisabledSettles <=> CtlProofs!DisabledSettles
<1>1. Ctl!BoundsHold <=> CtlProofs!BoundsHold
  BY DEF Ctl!BoundsHold, CtlProofs!BoundsHold
<1>2. Ctl!HistoryTellsCount <=> CtlProofs!HistoryTellsCount
  BY DEF Ctl!HistoryTellsCount, CtlProofs!HistoryTellsCount
<1>3. Ctl!SignalsTellCount <=> CtlProofs!SignalsTellCount
  BY DEF Ctl!SignalsTellCount, CtlProofs!SignalsTellCount
<1>4. Ctl!GrowthCoolsDown <=> CtlProofs!GrowthCoolsDown
  BY DEF Ctl!GrowthCoolsDown, CtlProofs!GrowthCoolsDown,
     Ctl!Cardinality, CtlProofs!Cardinality
<1>5. Ctl!GrowthIsLimited <=> CtlProofs!GrowthIsLimited
  BY DEF Ctl!GrowthIsLimited, CtlProofs!GrowthIsLimited,
     Ctl!Cardinality, CtlProofs!Cardinality
<1>6. Ctl!DisabledSettles <=> CtlProofs!DisabledSettles
  BY DEF Ctl!DisabledSettles, CtlProofs!DisabledSettles,
     Ctl!Actors, CtlProofs!Actors
<1> QED
  BY <1>1, <1>2, <1>3, <1>4, <1>5, <1>6

\* A manager's controller keeps what every controller promises, through all
\* starts, stops and generations of monitors (Manager.Start, monitorResources,
\* ForceScaleWorkers on the methods of ResourceController).
THEOREM ManagersControllerHolds ==
    ManagedSpec => /\ []Ctl!BoundsHold
                   /\ []Ctl!HistoryTellsCount
                   /\ []Ctl!SignalsTellCount
                   /\ []Ctl!GrowthCoolsDown
                   /\ []Ctl!GrowthIsLimited
                   /\ []Ctl!DisabledSettles
<1>1. CtlProofs!ControllerAssumption
  BY ManagedAssumption, SameController, Zenon
<1>2. ManagedSpec => CtlProofs!CtlSpec
  BY ManagerUsesController, SameController, PTL
     DEF Ctl!CtlSpec, CtlProofs!CtlSpec
<1>3. CtlProofs!CtlSpec => []CtlProofs!BoundsHold
  BY <1>1, CtlProofs!BoundsAlwaysHold, PTL
<1>4. CtlProofs!CtlSpec => []CtlProofs!HistoryTellsCount
  BY <1>1, CtlProofs!HistoryTellsCountHolds, PTL
<1>5. CtlProofs!CtlSpec => []CtlProofs!SignalsTellCount
  BY <1>1, CtlProofs!SignalsTellCountHolds, PTL
<1>6. CtlProofs!CtlSpec => []CtlProofs!GrowthCoolsDown
  BY <1>1, CtlProofs!GrowthCoolsDownHolds, PTL
<1>7. CtlProofs!CtlSpec => []CtlProofs!GrowthIsLimited
  BY <1>1, CtlProofs!GrowthIsLimitedHolds, PTL
<1>8. CtlProofs!CtlSpec => []CtlProofs!DisabledSettles
  BY <1>1, CtlProofs!DisabledSettlesHolds, PTL
<1> QED
  BY <1>2, <1>3, <1>4, <1>5, <1>6, <1>7, <1>8, SameProperties, PTL
=============================================================================
