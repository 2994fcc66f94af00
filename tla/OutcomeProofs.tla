---------------------------- MODULE OutcomeProofs ----------------------------
(***************************************************************************)
(* What the results of a pool's workers and their statistics say, for      *)
(* every number of tasks and workers and every retry limit: a result tells *)
(* how often its task was executed and how that ended, and the statistics  *)
(* of a worker count the results it sent.                                  *)
(***************************************************************************)
EXTENDS FlowProofs

USE WorkerAssumption, PoolAssumption DEF WorkerAssumption, PoolAssumption

-----------------------------------------------------------------------------
(***************************************************************************)
(* What is true of a task before its result is reported: nothing was       *)
(* executed of a task no worker has received, and a worker that works on   *)
(* one has counted its executions in the result under construction.        *)
(***************************************************************************)
Unstarted == (Tasks \ sent) \union Queued

Untouched(t) == execs[t] = 0 /\ t \notin succeeded

\* In "call" and "exec" the attempt is numbered and not yet made.
Trying(i) ==
    LET r == result[i]
        begun == pc[i] \in {"call", "exec"}
    IN  /\ r.err = "nil"
        /\ r.task \notin succeeded
        /\ execs[r.task] = IF begun THEN r.attempt - 1 ELSE r.attempt
        /\ r.attempt <= IF begun THEN Limit(r.task) + 1 ELSE Limit(r.task)
        /\ pc[i] # "attempt" => r.attempt > 0

WorkerTells(i) ==
    /\ pc[i] \in {"attempt", "call", "exec", "backoff"} => Trying(i)
    /\ pc[i] \in {"stats", "send"} => TellsExecutions(result[i])
    /\ pc[i] = "stats" => result[i].err \in {"nil", "failed"}

TellInv ==
    /\ \A t \in Unstarted : Untouched(t)
    /\ \A i \in WorkerIds : WorkerTells(i)
    /\ \A r \in Reports : TellsExecutions(r)

\* The limit of a task is a number.
LEMMA LimitIsInt == \A t \in Tasks : Limit(t) \in Int
  BY DEF Limit

\* Only tasks that were never sent, or not yet received, are not started.
LEMMA UnstartedShrinks ==
    ASSUME TypeInv, [PoolNext]_vars
    PROVE  Unstarted' \subseteq Unstarted
<1> USE DEF Unstarted
<1>1. CASE Stays
  BY <1>1 DEF Stays, Queued
<1>2. ASSUME NEW t \in Tasks, SendTask(t) PROVE Unstarted' \subseteq Unstarted
  <2>1. /\ t \notin sent /\ sent' = sent \union {t}
        /\ taskChan \in Seq(Tasks) /\ taskChan' = Append(taskChan, t)
    BY <1>2, SendMoves
  <2>2. Queued' = Queued \union {t}
    BY <2>1, AppendOnce DEF Queued
  <2> QED
    BY <2>1, <2>2
<1>3. ASSUME NEW i \in WorkerIds, Receive(i)
      PROVE  Unstarted' \subseteq Unstarted
  <2>1. /\ taskChan \in Seq(Tasks) /\ taskChan # <<>>
        /\ taskChan' = Tail(taskChan) /\ sent' = sent
    BY <1>3, ReceiveMoves
  <2>2. Queued' \subseteq Queued
    BY <2>1, TailOnce DEF Queued
  <2> QED
    BY <2>1, <2>2
<1>4. ASSUME \/ \E i \in WorkerIds : SendResult(i)
             \/ TakeResult
      PROVE  Unstarted' \subseteq Unstarted
  BY <1>4, ReportMoves, TakeMoves DEF Queued
<1> QED
  BY <1>1, <1>2, <1>3, <1>4, WhatMoves

\* A worker that sends a result reports it, whatever becomes of it.
LEMMA SendReports ==
    ASSUME TypeInv, NEW i \in WorkerIds, SendResult(i)
    PROVE  Reports' = Reports \union {result[i]}
<1> USE DEF Reports
<1>1. /\ resultChan \in Seq(Result) /\ result[i] \in Result /\ taken' = taken
      /\ \/ /\ dropped' = dropped
            /\ resultChan' = Append(resultChan, result[i])
         \/ /\ resultChan' = resultChan
            /\ dropped' = dropped \union {result[i]}
  BY ReportMoves
<1>2. CASE dropped' = dropped /\ resultChan' = Append(resultChan, result[i])
  <2>1. Range(resultChan') = Range(resultChan) \union {result[i]}
    BY <1>1, <1>2, AppendOnce
  <2> QED
    BY <1>1, <1>2, <2>1
<1> QED
  BY <1>1, <1>2

\* A result is reported once, by the worker that made it, and is never altered.
LEMMA ReportsGrow ==
    ASSUME TypeInv, [PoolNext]_vars
    PROVE  \/ Reports' = Reports
           \/ \E i \in WorkerIds :
                SendResult(i) /\ Reports' = Reports \union {result[i]}
<1> USE DEF Reports
<1>1. CASE Stays \/ \E t \in Tasks : SendTask(t)
  BY <1>1, SendMoves DEF Stays
<1>2. CASE \E i \in WorkerIds : Receive(i)
  BY <1>2, ReceiveMoves
<1>3. ASSUME NEW i \in WorkerIds, SendResult(i)
      PROVE  Reports' = Reports \union {result[i]}
  BY <1>3, SendReports
<1>4. CASE TakeResult
  <2>1. /\ resultChan \in Seq(Result) /\ resultChan # <<>>
        /\ resultChan' = Tail(resultChan) /\ dropped' = dropped
        /\ taken' = taken \union {Head(resultChan)}
    BY <1>4, TakeMoves
  <2>2. Range(resultChan) = Range(resultChan') \union {Head(resultChan)}
    BY <2>1, TailOnce
  <2> QED
    BY <2>1, <2>2
<1> QED
  BY <1>1, <1>2, <1>3, <1>4, WhatMoves

\* Every result that was reported is of a task that is in its place.
LEMMA ReportsPlaced ==
    ASSUME TypeInv, NEW r \in Reports
    PROVE  r \in Result /\ r.task \in UNION {Reported, Lost, Done}
<1>1. CASE r \in Range(resultChan)
  <2>1. resultChan \in Seq(Result)
    BY DEF TypeInv, PoolTypeOK
  <2>2. PICK k \in DOMAIN resultChan : resultChan[k] = r
    BY <1>1 DEF Range
  <2>3. r \in Result
    BY <1>1, <2>1, Elements
  <2>4. TasksOf(resultChan)[k] = r.task /\ k \in DOMAIN TasksOf(resultChan)
    BY <2>2 DEF TasksOf
  <2> QED
    BY <2>3, <2>4 DEF Reported, Range
<1>2. CASE r \in dropped \union taken
  BY <1>2 DEF TypeInv, PoolTypeOK, Lost, Done
<1> QED
  BY <1>1, <1>2 DEF Reports

-----------------------------------------------------------------------------
\* What is told of a task stays true while only other tasks are executed, even
\* when the context is done meanwhile.
LEMMA TellingStays ==
    ASSUME NEW r, r' = r, execs'[r.task] = execs[r.task],
           r.task \in succeeded' <=> r.task \in succeeded,
           ctxDone => ctxDone', TellsExecutions(r)
    PROVE  TellsExecutions(r)'
  BY DEF TellsExecutions, Limit

\* So what a step tells of the tasks it does not execute is what was told.
Aside(t) ==
    /\ \A u \in Tasks \ {t} : execs'[u] = execs[u]
    /\ \A u \in Tasks \ {t} : u \in succeeded' <=> u \in succeeded
    /\ ctxDone => ctxDone'

\* A step that is about task t leaves what tells of the other tasks true.
LEMMA BystandersTell ==
    ASSUME TypeInv, PlacedInv, TellInv, [PoolNext]_vars,
           NEW t, t \in Held \union {NoTask}, Aside(t)
    PROVE  /\ \A u \in Unstarted' : Untouched(u)'
           /\ \A r \in Reports : TellsExecutions(r)'
           /\ \A j \in WorkerIds :
                pc'[j] = pc[j] /\ result'[j] = result[j]
                  /\ (result[j].task # t \/ t = NoTask) => WorkerTells(j)'
<1>1. ASSUME NEW u \in Unstarted' PROVE Untouched(u)'
  <2>1. u \in Unstarted /\ u \in Tasks
    <3>1. u \in Unstarted
      BY <1>1, UnstartedShrinks
    <3>2. taskChan \in Seq(Tasks)
      BY DEF TypeInv, PoolTypeOK
    <3> QED
      BY <3>1, <3>2, Elements DEF Unstarted, Queued
  <2>2. u # t
    BY <2>1 DEF PlacedInv, Apart, Unstarted
  <2> QED
    BY <2>1, <2>2 DEF TellInv, Untouched, Aside
<1>2. ASSUME NEW r \in Reports PROVE TellsExecutions(r)'
  <2>1. r.task \in Tasks /\ r.task # t
    BY <1>2, ReportsPlaced DEF PlacedInv, Apart, Result
  <2> QED
    BY <1>2, <2>1, TellingStays DEF TellInv, Aside
<1>3. ASSUME NEW j \in WorkerIds, pc'[j] = pc[j], result'[j] = result[j],
             result[j].task # t \/ t = NoTask
      PROVE  WorkerTells(j)'
  <2> USE DEF WorkerTells
  <2>1. CASE pc[j] \in Resting
    BY <1>3, <2>1 DEF Resting
  <2>2. CASE pc[j] \notin Resting
    <3>1. result[j].task \in Tasks
      BY <2>2 DEF TypeInv, Goroutines, Result
    <3>2. /\ execs'[result[j].task] = execs[result[j].task]
          /\ result[j].task \in succeeded' <=> result[j].task \in succeeded
          /\ ctxDone => ctxDone'
      BY <1>3, <3>1 DEF Aside
    <3>3. WorkerTells(j)
      BY DEF TellInv
    <3>4. Trying(j) => Trying(j)'
      BY <1>3, <3>2 DEF Trying, Limit
    <3>5. TellsExecutions(result[j]) => TellsExecutions(result[j])'
      BY <1>3, <3>2 DEF TellsExecutions, Limit
    <3> QED
      BY <1>3, <3>3, <3>4, <3>5
  <2> QED
    BY <2>1, <2>2
<1> QED
  BY <1>1, <1>2, <1>3

-----------------------------------------------------------------------------
\* No task was executed before the pool is used.
LEMMA TellInit == PoolInit => TellInv
<1> SUFFICES ASSUME PoolInit PROVE TellInv
  OBVIOUS
<1>1. /\ \A t \in Tasks : execs[t] = 0
      /\ succeeded = {} /\ sent = {} /\ taskChan = <<>> /\ resultChan = <<>>
      /\ dropped = {} /\ taken = {} /\ \A i \in WorkerIds : pc[i] = "absent"
  BY DEF PoolInit, WorkerInit
<1>2. Queued = {} /\ Range(resultChan) = {}
  BY <1>1 DEF Queued, Range
<1>3. Reports = {} /\ Unstarted = Tasks
  BY <1>1, <1>2 DEF Reports, Unstarted
<1> QED
  BY <1>1, <1>3 DEF TellInv, Untouched, WorkerTells

\* A worker that takes a task tells what is true of a task not yet started.
LEMMA ReceiveTells ==
    ASSUME TypeInv, TellInv, NEW i \in WorkerIds, Receive(i)
    PROVE  WorkerTells(i)'
<1> DEFINE t == NextTask
<1>1. t \in Tasks /\ t \in Queued
  <2>1. taskChan \in Seq(Tasks) /\ taskChan # <<>>
    BY ReceiveMoves
  <2> QED
    BY <2>1, TailOnce, HeadAndTail DEF NextTask, Queued
<1>2. execs[t] = 0 /\ t \notin succeeded /\ Limit(t) \in Int
  BY <1>1, LimitIsInt DEF TellInv, Untouched, Unstarted
<1>3. UNCHANGED <<execs, succeeded>> /\ DOMAIN pc = WorkerIds
      /\ DOMAIN result = WorkerIds
  BY DEF Receive, ranVars, TypeInv, Goroutines
<1>4. CASE t \in Invalid
  <2>1. pc'[i] = "send" /\ result'[i] = WithErr(Blank(i, t), "invalid")
    BY <1>3, <1>4 DEF Receive
  <2> QED
    BY <1>2, <1>3, <2>1
       DEF WorkerTells, TellsExecutions, Limit, WithErr, Blank
<1>5. CASE t \notin Invalid
  <2>1. /\ pc'[i] = IF Limit(t) < 0 THEN "stats" ELSE "attempt"
        /\ result'[i] = Blank(i, t)
    BY <1>3, <1>5 DEF Receive
  <2> HIDE DEF t
  <2>2. CASE Limit(t) < 0
    BY <1>2, <1>3, <2>1, <2>2
       DEF WorkerTells, TellsExecutions, Limit, Blank
  <2>3. CASE ~(Limit(t) < 0)
    BY <1>2, <1>3, <2>1, <2>3 DEF WorkerTells, Trying, Limit, Blank
  <2> QED
    BY <2>2, <2>3
<1> QED
  BY <1>4, <1>5

\* So does a worker that goes on with its task.
LEMMA ProgressTells ==
    ASSUME TypeInv, TellInv, NEW i \in WorkerIds, RunWorker(i), ~Receive(i)
    PROVE  WorkerTells(i)'
<1> DEFINE r == result[i]
           t == r.task
<1>0. DOMAIN pc = WorkerIds /\ DOMAIN result = WorkerIds
  BY DEF TypeInv, Goroutines
<1>1. WorkerTells(i)
  BY DEF TellInv
<1>2. CASE Exit(i)
  BY <1>0, <1>2 DEF Exit, WorkerTells
<1>3. CASE BeginAttempt(i)
  <2>1. /\ pc[i] = "attempt" /\ UNCHANGED <<execs, succeeded, ctxDone>>
        /\ result'[i] = IF ctxDone THEN WithErr(Numbered(r), "canceled")
                        ELSE Numbered(r)
        /\ pc'[i] = IF ctxDone THEN "send"
                    ELSE IF t \in CallsPool THEN "call" ELSE "exec"
    BY <1>0, <1>3 DEF BeginAttempt, Refused, ranVars
  <2>2. /\ r \in Result /\ t \in Tasks /\ Limit(t) \in Int /\ r.attempt \in Nat
        /\ Numbered(r).task = t /\ Numbered(r).attempt = r.attempt + 1
        /\ Numbered(r).err = r.err
    BY <2>1, LimitIsInt DEF TypeInv, Goroutines, Resting, Result, Numbered
  <2>3. Trying(i)
    BY <1>1, <2>1 DEF WorkerTells
  <2>4. CASE ctxDone
    <3>1. /\ result'[i].task = t /\ result'[i].attempt = r.attempt + 1
          /\ result'[i].err = "canceled"
      BY <2>1, <2>2, <2>4 DEF WithErr, Numbered, Result
    <3>2. /\ execs'[t] = r.attempt /\ t \notin succeeded'
          /\ r.attempt <= Limit(t) /\ ctxDone' /\ pc'[i] = "send"
      BY <2>1, <2>3, <2>4 DEF Trying
    <3>3. TellsExecutions(result[i])'
      BY <2>2, <3>1, <3>2 DEF TellsExecutions, Limit
    <3> QED
      BY <3>2, <3>3 DEF WorkerTells
  <2>5. CASE ~ctxDone
    BY <2>1, <2>2, <2>3, <2>5 DEF WorkerTells, Trying, Limit
  <2> QED
    BY <2>4, <2>5
<1>4. CASE ExecSucceeds(i)
  <2>1. /\ pc[i] = "exec" /\ pc'[i] = "stats" /\ result' = result
        /\ execs' = [execs EXCEPT ![t] = @ + 1]
        /\ succeeded' = succeeded \union {t}
    BY <1>0, <1>4 DEF ExecSucceeds
  <2>2. t \in Tasks /\ Limit(t) \in Int /\ r.attempt \in Nat
        /\ execs \in [Tasks -> Nat]
    BY <2>1, LimitIsInt
       DEF TypeInv, PoolTypeOK, Goroutines, Resting, Result
  <2>3. Trying(i)
    BY <1>1, <2>1 DEF WorkerTells
  <2>4. execs'[t] = r.attempt
    BY <2>1, <2>2, <2>3 DEF Trying
  <2> QED
    BY <2>1, <2>2, <2>3, <2>4 DEF WorkerTells, Trying, TellsExecutions, Limit
<1>5. CASE ExecFails(i)
  <2>1. /\ pc[i] = "exec" /\ succeeded' = succeeded
        /\ pc'[i] = IF LastAttempt(i) THEN "stats" ELSE "backoff"
        /\ result'[i] = IF LastAttempt(i) THEN WithErr(r, "failed") ELSE r
        /\ execs' = [execs EXCEPT ![t] = @ + 1]
    BY <1>0, <1>5 DEF ExecFails
  <2>2. r \in Result /\ t \in Tasks /\ Limit(t) \in Int /\ r.attempt \in Nat
        /\ execs \in [Tasks -> Nat]
    BY <2>1, LimitIsInt
       DEF TypeInv, PoolTypeOK, Goroutines, Resting, Result
  <2>3. Trying(i)
    BY <1>1, <2>1 DEF WorkerTells
  <2>4. execs'[t] = r.attempt
    BY <2>1, <2>2, <2>3 DEF Trying
  <2>5. CASE LastAttempt(i)
    <3>1. result'[i].task = t /\ result'[i].attempt = r.attempt
          /\ result'[i].err = "failed"
      BY <2>1, <2>2, <2>5 DEF WithErr, Result
    <3>2. r.attempt = Limit(t) + 1 /\ t \notin succeeded'
      BY <2>1, <2>2, <2>3, <2>5 DEF Trying, LastAttempt, Limit
    <3>3. pc'[i] = "stats"
      BY <2>1, <2>5
    <3>4. TellsExecutions(result[i])'
      BY <2>2, <2>4, <3>1, <3>2 DEF TellsExecutions, Limit
    <3> QED
      BY <3>1, <3>3, <3>4 DEF WorkerTells
  <2>6. CASE ~LastAttempt(i)
    BY <2>1, <2>2, <2>3, <2>4, <2>6 DEF WorkerTells, Trying, LastAttempt, Limit
  <2> QED
    BY <2>5, <2>6
<1>6. CASE BackoffElapses(i)
  <2>1. /\ pc[i] = "backoff" /\ pc'[i] = "attempt"
        /\ UNCHANGED <<result, execs, succeeded>>
    BY <1>0, <1>6 DEF BackoffElapses, ranVars
  <2> QED
    BY <1>1, <2>1 DEF WorkerTells, Trying, Limit
<1>7. CASE BackoffCanceled(i)
  <2>1. /\ pc[i] = "backoff" /\ pc'[i] = "send" /\ ctxDone
        /\ result'[i] = WithErr(r, "canceled")
        /\ UNCHANGED <<execs, succeeded, ctxDone>>
    BY <1>0, <1>7 DEF BackoffCanceled, AfterCancel, ranVars
  <2>2. r \in Result /\ Limit(t) \in Int /\ r.attempt \in Nat
    BY <2>1, LimitIsInt DEF TypeInv, Goroutines, Resting, Result
  <2>3. result'[i].task = t /\ result'[i].attempt = r.attempt
        /\ result'[i].err = "canceled"
    BY <2>1, <2>2 DEF WithErr, Result
  <2> QED
    BY <1>1, <2>1, <2>2, <2>3 DEF WorkerTells, Trying, TellsExecutions, Limit
<1>8. CASE UpdateStats(i)
  <2>1. /\ pc[i] = "stats" /\ pc'[i] = "send"
        /\ UNCHANGED <<result, execs, succeeded, ctxDone>>
    BY <1>0, <1>8 DEF UpdateStats, ranVars
  <2> QED
    BY <1>1, <2>1 DEF WorkerTells, TellsExecutions, Limit
<1>9. CASE SendResult(i)
  BY <1>0, <1>9 DEF SendResult, WorkerTells
<1>10. CASE CallReturns(i)
  <2>1. /\ pc[i] = "call" /\ pc'[i] = "exec"
        /\ UNCHANGED <<result, execs, succeeded>>
    BY <1>0, <1>10 DEF CallReturns, ranVars
  <2> QED
    BY <1>1, <2>1 DEF WorkerTells, Trying, Limit
<1> QED
  BY <1>2, <1>3, <1>4, <1>5, <1>6, <1>7, <1>8, <1>9, <1>10
     DEF RunWorker, WorkerStep

\* What is not the step of a worker leaves every task as it is, and puts a
\* worker nowhere but at the start of its loop.
LEMMA OthersLeaveTasks ==
    ASSUME TypeInv,
           Begin \/ Proceed \/ Environment \/ UNCHANGED vars
    PROVE  /\ UNCHANGED <<result, statVars, ranVars>>
           /\ ctxDone => ctxDone'
           /\ \A j \in WorkerIds :
                pc'[j] = pc[j] \/ (pc[j] = "absent" /\ pc'[j] = "select")
<1> USE DEF workerVars, chanVars, statVars, ranVars
<1>0. DOMAIN pc = WorkerIds
  BY DEF TypeInv, Goroutines
<1>1. CASE Begin
  BY <1>1 DEF Begin, StartBegin, StopBegin, ScaleUp, ScaleDown
<1>2. CASE AddWorker
  <2>1. nextID + 1 \in WorkerIds => pc[nextID + 1] = "absent"
    BY DEF TypeInv, PoolTypeOK
  <2> QED
    BY <1>0, <1>2, <2>1 DEF AddWorker
<1>3. CASE Proceed /\ ~AddWorker
  BY <1>3 DEF Proceed, FactoryFails, GrownEnd, RemoveWorker, StopWorker,
     WorkerStopped, ShrunkEnd, StopEnd
<1>4. CASE Environment
  BY <1>4 DEF Environment, SendTask, CloseTasks, TakeResult, CancelContext
<1>5. CASE UNCHANGED vars
  BY <1>5 DEF vars
<1> QED
  BY <1>1, <1>2, <1>3, <1>4, <1>5

\* The step of a worker is about its own task, if it has one.
LEMMA WorkerAside ==
    ASSUME TypeInv, NEW i \in WorkerIds, RunWorker(i)
    PROVE  /\ Aside(result[i].task)
           /\ result[i].task \in Held \union {NoTask}
           /\ \A j \in WorkerIds :
                j # i => pc'[j] = pc[j] /\ result'[j] = result[j]
<1>0. DOMAIN pc = WorkerIds /\ DOMAIN result = WorkerIds
      /\ DOMAIN execs = Tasks
  BY DEF TypeInv, Goroutines, PoolTypeOK
<1>1. UNCHANGED ctxDone
  BY WorkerFrame
<1>2. CASE ExecSucceeds(i)
  BY <1>0, <1>1, <1>2 DEF ExecSucceeds, Aside, Held
<1>3. CASE ExecFails(i)
  BY <1>0, <1>1, <1>3 DEF ExecFails, Aside, Held
<1>4. CASE ~ExecSucceeds(i) /\ ~ExecFails(i)
  <2>1. UNCHANGED <<execs, succeeded>>
    BY <1>4 DEF RunWorker, WorkerStep, Receive, Exit, BeginAttempt,
       BackoffElapses, BackoffCanceled, UpdateStats, SendResult, CallReturns,
       ranVars
  <2>2. \A j \in WorkerIds : j # i => pc'[j] = pc[j] /\ result'[j] = result[j]
    BY <1>0, <1>4 DEF RunWorker, WorkerStep, Receive, Exit, BeginAttempt,
       BackoffElapses, BackoffCanceled, UpdateStats, SendResult, CallReturns
  <2> QED
    BY <1>1, <2>1, <2>2 DEF Aside, Held
<1> QED
  BY <1>2, <1>3, <1>4

\* Every step of the pool keeps what is told of its tasks.
LEMMA TellNext ==
    TypeInv /\ PlacedInv /\ TellInv /\ [PoolNext]_vars => TellInv'
<1> SUFFICES ASSUME TypeInv, PlacedInv, TellInv, [PoolNext]_vars PROVE TellInv'
  OBVIOUS
<1>1. ASSUME \A r \in Reports : TellsExecutions(r)'
      PROVE  \A r \in Reports' : TellsExecutions(r)'
  <2>1. ASSUME NEW i \in WorkerIds, SendResult(i), NEW r, r = result[i]
        PROVE  TellsExecutions(r)'
    <3>1. TellsExecutions(r)
      BY <2>1 DEF TellInv, WorkerTells, SendResult
    <3>2. UNCHANGED <<execs, succeeded, ctxDone>>
      BY <2>1 DEF SendResult, ranVars
    <3> QED
      BY <3>1, <3>2, TellingStays
  <2> QED
    BY <1>1, <2>1, ReportsGrow
<1>2. ASSUME NEW i \in WorkerIds, RunWorker(i) PROVE TellInv'
  <2> DEFINE t == result[i].task
  <2>1. /\ Aside(t) /\ t \in Held \union {NoTask}
        /\ \A j \in WorkerIds :
             j # i => pc'[j] = pc[j] /\ result'[j] = result[j]
    BY <1>2, WorkerAside
  <2>2. PICK u : u = t
    OBVIOUS
  <2>3. u \in Held \union {NoTask} /\ Aside(u)
    BY <2>1, <2>2 DEF Aside
  <2>4. /\ \A v \in Unstarted' : Untouched(v)'
        /\ \A r \in Reports : TellsExecutions(r)'
        /\ \A j \in WorkerIds :
             pc'[j] = pc[j] /\ result'[j] = result[j]
               /\ (result[j].task # u \/ u = NoTask) => WorkerTells(j)'
    BY <2>3, BystandersTell
  <2>5. \A j \in WorkerIds : j # i => result[j].task # u \/ u = NoTask
    BY <2>2 DEF PlacedInv, Once
  <2>6. WorkerTells(i)'
    BY <1>2, ReceiveTells, ProgressTells
  <2>7. \A j \in WorkerIds : WorkerTells(j)'
    BY <2>1, <2>4, <2>5, <2>6
  <2> QED
    BY <1>1, <2>4, <2>7 DEF TellInv
<1>3. CASE Begin \/ Proceed \/ Environment \/ UNCHANGED vars
  <2>1. /\ UNCHANGED <<result, execs, succeeded>>
        /\ ctxDone => ctxDone'
        /\ \A j \in WorkerIds : pc'[j] = pc[j] \/ pc'[j] = "select"
    BY <1>3, OthersLeaveTasks DEF ranVars
  <2>2. Aside(NoTask)
    BY <2>1 DEF Aside
  <2>3. /\ \A v \in Unstarted' : Untouched(v)'
        /\ \A r \in Reports : TellsExecutions(r)'
        /\ \A j \in WorkerIds :
             pc'[j] = pc[j] /\ result'[j] = result[j] => WorkerTells(j)'
    BY <2>2, BystandersTell
  <2>4. ASSUME NEW j \in WorkerIds, pc'[j] = "select" PROVE WorkerTells(j)'
    BY <2>4 DEF WorkerTells
  <2>5. \A j \in WorkerIds : WorkerTells(j)'
    BY <2>1, <2>3, <2>4
  <2> QED
    BY <1>1, <2>3, <2>5 DEF TellInv
<1> QED
  BY <1>2, <1>3 DEF PoolNext

\* For every retry limit, negative ones included, and any interleaving of
\* workers, pool operations and cancellation: a result that was sent, dropped
\* or read tells how often its task was executed, succeeded by its last
\* execution, failed only after all it was allowed, and was cancelled only by
\* the context of the whole pool (executeWithRetries, waitForRetry).
THEOREM ResultTellsExecutionsHolds == PoolSpec => []ResultTellsExecutions
<1>1. TellInv => ResultTellsExecutions
  BY DEF TellInv, ResultTellsExecutions
<1> QED
  BY <1>1, TypeInit, TypeNext, PlacedInit, PlacedNext, TellInit, TellNext, PTL
     DEF PoolSpec

-----------------------------------------------------------------------------
(***************************************************************************)
(* The statistics.  The results that were reported are finitely many, and  *)
(* each bears the number of the worker that made it; a result enters the   *)
(* statistics of its worker once, before it is reported.                   *)
(***************************************************************************)
StatsInv ==
    /\ IsFiniteSet(Reports)
    /\ \A i \in WorkerIds : result[i].worker = i
    /\ StatsMatchResults

\* No result is sent or counted at first.
LEMMA StatsInit == PoolInit => StatsInv
<1> SUFFICES ASSUME PoolInit PROVE StatsInv
  OBVIOUS
<1>1. /\ resultChan = <<>> /\ dropped = {} /\ taken = {}
      /\ \A i \in WorkerIds : /\ pc[i] = "absent" /\ result[i] = Idle(i)
                              /\ processed[i] = 0 /\ failed[i] = 0
  BY DEF PoolInit, WorkerInit
<1>2. Reports = {}
  BY <1>1 DEF Reports, Range
<1>3. \A i \in WorkerIds :
        OutcomesOf(i, "nil") = {} /\ OutcomesOf(i, "failed") = {}
  BY <1>1, <1>2 DEF OutcomesOf
<1>4. StatsMatchResults
  BY <1>1, <1>3, FS_EmptySet DEF StatsMatchResults
<1>5. IsFiniteSet(Reports)
  BY <1>2, FS_EmptySet
<1>6. ASSUME NEW i \in WorkerIds PROVE result[i].worker = i
  <2>1. result[i] = Idle(i)
    BY <1>1
  <2>2. Idle(i).worker = i
    BY DEF Idle
  <2> QED
    BY <2>1, <2>2
<1> QED
  BY <1>4, <1>5, <1>6 DEF StatsInv

\* A result that is under construction was not reported.
LEMMA NotReportedYet ==
    ASSUME TypeInv, PlacedInv, NEW i \in WorkerIds, pc[i] \notin Resting
    PROVE  result[i] \notin Reports
<1>1. result[i].task \in Held
  BY DEF TypeInv, Goroutines, Result, Held
<1> QED
  BY <1>1, ReportsPlaced DEF PlacedInv, Apart

\* The number of the worker stays with its result.
LEMMA NumbersStay ==
    ASSUME TypeInv, StatsInv, [PoolNext]_vars
    PROVE  \A i \in WorkerIds : result'[i].worker = i
<1>0. /\ DOMAIN result = WorkerIds
      /\ \A i \in WorkerIds : result[i].worker = i
      /\ \A i \in WorkerIds : pc[i] \notin Resting => result[i] \in Result
  BY DEF StatsInv, TypeInv, Goroutines
<1>1. ASSUME NEW i \in WorkerIds, RunWorker(i) PROVE result'[i].worker = i
  <2>1. CASE Receive(i)
    BY <1>0, <2>1 DEF Receive, Blank, WithErr
  <2>2. CASE BeginAttempt(i)
    BY <1>0, <2>2 DEF BeginAttempt, Numbered, WithErr, Resting, Result
  <2>3. CASE ExecFails(i)
    BY <1>0, <2>3 DEF ExecFails, WithErr
  <2>4. CASE BackoffCanceled(i)
    BY <1>0, <2>4 DEF BackoffCanceled, WithErr
  <2>5. CASE SendResult(i)
    BY <1>0, <2>5 DEF SendResult, Idle
  <2>6. CASE \/ Exit(i) \/ ExecSucceeds(i) \/ BackoffElapses(i)
             \/ UpdateStats(i) \/ CallReturns(i)
    BY <1>0, <2>6
       DEF Exit, ExecSucceeds, BackoffElapses, UpdateStats, CallReturns
  <2> QED
    BY <1>1, <2>1, <2>2, <2>3, <2>4, <2>5, <2>6 DEF RunWorker, WorkerStep
<1>2. ASSUME NEW i \in WorkerIds, RunWorker(i), NEW j \in WorkerIds, j # i
      PROVE  result'[j].worker = j
  BY <1>0, <1>2, WorkerAside
<1> QED
  BY <1>0, <1>1, <1>2, OthersLeaveTasks DEF PoolNext

\* The results that are reported, together with the one each worker is about to
\* send, change only when a worker enters a result into its statistics.
LEMMA OutcomesStay ==
    ASSUME TypeInv, PlacedInv, StatsInv, [PoolNext]_vars,
           NEW j \in WorkerIds, NEW e \in {"nil", "failed"}, ~UpdateStats(j)
    PROVE  OutcomesOf(j, e)' = OutcomesOf(j, e)
<1>0. DOMAIN pc = WorkerIds /\ DOMAIN result = WorkerIds
  BY DEF TypeInv, Goroutines
<1>1. ASSUME NEW i \in WorkerIds, SendResult(i),
             Reports' = Reports \union {result[i]}
      PROVE  OutcomesOf(j, e)' = OutcomesOf(j, e)
  <2>1. /\ pc[i] = "send" /\ pc'[i] = "select" /\ result[i].worker = i
        /\ \A k \in WorkerIds :
             k # i => pc'[k] = pc[k] /\ result'[k] = result[k]
    BY <1>0, <1>1 DEF SendResult, StatsInv
  <2>2. CASE j = i
    BY <1>1, <2>1, <2>2 DEF OutcomesOf
  <2>3. CASE j # i
    BY <1>1, <2>1, <2>3 DEF OutcomesOf
  <2> QED
    BY <2>2, <2>3
<1>2. ASSUME Reports' = Reports, \A i \in WorkerIds : ~SendResult(i)
      PROVE  OutcomesOf(j, e)' = OutcomesOf(j, e)
  <2>1. ASSUME pc'[j] = pc[j], result'[j] = result[j]
        PROVE  OutcomesOf(j, e)' = OutcomesOf(j, e)
    BY <1>2, <2>1 DEF OutcomesOf
  <2>2. ASSUME pc[j] # "send" \/ result[j].err \notin {"nil", "failed"},
               pc'[j] # "send" \/ result'[j].err \notin {"nil", "failed"}
        PROVE  OutcomesOf(j, e)' = OutcomesOf(j, e)
    BY <1>2, <2>2 DEF OutcomesOf
  <2>3. CASE RunWorker(j)
    <3>0. pc[j] \notin Resting => result[j] \in Result
      BY DEF TypeInv, Goroutines
    <3>1. CASE Receive(j)
      BY <1>0, <2>2, <3>1 DEF Receive, WithErr, Blank
    <3>2. CASE BeginAttempt(j)
      BY <1>0, <2>2, <3>0, <3>2
         DEF BeginAttempt, WithErr, Numbered, Resting, Result
    <3>3. CASE BackoffCanceled(j)
      BY <1>0, <2>2, <3>0, <3>3
         DEF BackoffCanceled, WithErr, Resting, Result
    <3>4. CASE \/ Exit(j) \/ ExecSucceeds(j) \/ ExecFails(j)
               \/ BackoffElapses(j) \/ CallReturns(j)
      BY <1>0, <2>2, <3>4
         DEF Exit, ExecSucceeds, ExecFails, BackoffElapses, CallReturns
    <3> QED
      BY <1>2, <2>3, <3>1, <3>2, <3>3, <3>4 DEF RunWorker, WorkerStep
  <2>4. CASE \E i \in WorkerIds : i # j /\ RunWorker(i)
    BY <2>1, <2>4, WorkerAside
  <2>5. CASE Begin \/ Proceed \/ Environment \/ UNCHANGED vars
    <3>1. /\ result' = result
          /\ pc'[j] = pc[j] \/ (pc[j] = "absent" /\ pc'[j] = "select")
      BY <2>5, OthersLeaveTasks
    <3> QED
      BY <2>1, <2>2, <3>1
  <2> QED
    BY <2>3, <2>4, <2>5 DEF PoolNext
<1>3. ASSUME NEW i \in WorkerIds, SendResult(i)
      PROVE  Reports' = Reports \union {result[i]}
  BY <1>3, SendReports
<1>4. CASE \A i \in WorkerIds : ~SendResult(i)
  BY <1>2, <1>4, ReportsGrow
<1> QED
  BY <1>1, <1>3, <1>4

\* A result enters the statistics once: it was in no outcome before.
LEMMA OutcomeEnters ==
    ASSUME TypeInv, PlacedInv, StatsInv, [PoolNext]_vars,
           NEW i \in WorkerIds, UpdateStats(i), NEW e \in {"nil", "failed"}
    PROVE  /\ IsFiniteSet(OutcomesOf(i, e))
           /\ OutcomesOf(i, e)' = IF result[i].err = e
                                  THEN OutcomesOf(i, e) \union {result[i]}
                                  ELSE OutcomesOf(i, e)
           /\ result[i] \notin OutcomesOf(i, e)
<1>1. /\ pc[i] = "stats" /\ pc'[i] = "send" /\ result' = result
      /\ result[i].worker = i
  BY DEF UpdateStats, StatsInv, TypeInv, Goroutines
<1>2. OutcomesOf(i, e) = {r \in Reports : r.worker = i /\ r.err = e}
  BY <1>1 DEF OutcomesOf
<1>3. OutcomesOf(i, e) \subseteq Reports /\ IsFiniteSet(OutcomesOf(i, e))
  BY <1>2, FS_Subset DEF StatsInv
<1>4. result[i] \notin OutcomesOf(i, e)
  BY <1>1, <1>3, NotReportedYet DEF Resting
<1>5. Reports' = Reports
  BY <1>1 DEF UpdateStats, Reports, chanVars
<1>6. OutcomesOf(i, e)' = OutcomesOf(i, e) \union
                            (IF result[i].err = e THEN {result[i]} ELSE {})
  BY <1>1, <1>2, <1>5 DEF OutcomesOf
<1> QED
  BY <1>3, <1>4, <1>6

\* Every step of the pool keeps the statistics in line with the results.
LEMMA StatsNext ==
    TypeInv /\ PlacedInv /\ TellInv /\ StatsInv /\ [PoolNext]_vars => StatsInv'
<1> SUFFICES ASSUME TypeInv, PlacedInv, TellInv, StatsInv, [PoolNext]_vars
             PROVE  StatsInv'
  OBVIOUS
<1>1. IsFiniteSet(Reports')
  <2>1. \A x : IsFiniteSet(Reports \union {x})
    BY FS_AddElement DEF StatsInv
  <2>2. Reports' = Reports \/ \E x : Reports' = Reports \union {x}
    BY ReportsGrow
  <2> QED
    BY <2>1, <2>2 DEF StatsInv
<1>2. \A i \in WorkerIds : result'[i].worker = i
  BY NumbersStay
<1> DEFINE Match(i) == /\ processed[i] = Cardinality(OutcomesOf(i, "nil"))
                       /\ failed[i] = Cardinality(OutcomesOf(i, "failed"))
<1>3. \A i \in WorkerIds : Match(i)
  BY DEF StatsInv, StatsMatchResults
<1>4. /\ processed \in [WorkerIds -> Nat]
      /\ failed \in [WorkerIds -> Nat]
  BY DEF TypeInv, PoolTypeOK
<1>5. ASSUME NEW i \in WorkerIds, UpdateStats(i) PROVE Match(i)'
  <2>1. result[i].err \in {"nil", "failed"}
    BY <1>5 DEF TellInv, WorkerTells, UpdateStats
  <2>2. CASE result[i].err = "nil"
    <3>1. processed'[i] = processed[i] + 1 /\ failed'[i] = failed[i]
      BY <1>4, <1>5, <2>2 DEF UpdateStats
    <3>2. /\ Cardinality(OutcomesOf(i, "nil")')
               = Cardinality(OutcomesOf(i, "nil")) + 1
          /\ OutcomesOf(i, "failed")' = OutcomesOf(i, "failed")
      <4>1. /\ IsFiniteSet(OutcomesOf(i, "nil"))
            /\ result[i] \notin OutcomesOf(i, "nil")
            /\ OutcomesOf(i, "nil")'
                 = OutcomesOf(i, "nil") \union {result[i]}
        BY <1>5, <2>2, OutcomeEnters
      <4>2. OutcomesOf(i, "failed")' = OutcomesOf(i, "failed")
        BY <1>5, <2>2, OutcomeEnters
      <4> QED
        BY <4>1, <4>2, FS_AddElement
    <3> QED
      BY <1>3, <3>1, <3>2
  <2>3. CASE result[i].err = "failed"
    <3>1. processed'[i] = processed[i] /\ failed'[i] = failed[i] + 1
      BY <1>4, <1>5, <2>3 DEF UpdateStats
    <3>2. /\ Cardinality(OutcomesOf(i, "failed")')
               = Cardinality(OutcomesOf(i, "failed")) + 1
          /\ OutcomesOf(i, "nil")' = OutcomesOf(i, "nil")
      <4>1. /\ IsFiniteSet(OutcomesOf(i, "failed"))
            /\ result[i] \notin OutcomesOf(i, "failed")
            /\ OutcomesOf(i, "failed")'
                 = OutcomesOf(i, "failed") \union {result[i]}
        BY <1>5, <2>3, OutcomeEnters
      <4>2. OutcomesOf(i, "nil")' = OutcomesOf(i, "nil")
        BY <1>5, <2>3, OutcomeEnters
      <4> QED
        BY <4>1, <4>2, FS_AddElement
    <3> QED
      BY <1>3, <3>1, <3>2
  <2> QED
    BY <2>1, <2>2, <2>3
<1>6. ASSUME NEW i \in WorkerIds, ~UpdateStats(i) PROVE Match(i)'
  <2>1. processed'[i] = processed[i] /\ failed'[i] = failed[i]
    <3>1. CASE \E j \in WorkerIds : UpdateStats(j)
      BY <1>4, <1>6, <3>1 DEF UpdateStats
    <3>2. CASE \A j \in WorkerIds : ~UpdateStats(j)
      <4>1. ASSUME NEW j \in WorkerIds, RunWorker(j) PROVE UNCHANGED statVars
        BY <3>2, <4>1 DEF RunWorker, WorkerStep, Receive, Exit, BeginAttempt,
           ExecSucceeds, ExecFails, BackoffElapses, BackoffCanceled,
           SendResult, CallReturns
      <4> QED
        BY <4>1, OthersLeaveTasks DEF PoolNext, statVars
    <3> QED
      BY <3>1, <3>2
  <2>2. /\ OutcomesOf(i, "nil")' = OutcomesOf(i, "nil")
        /\ OutcomesOf(i, "failed")' = OutcomesOf(i, "failed")
    BY <1>6, OutcomesStay
  <2> QED
    BY <1>3, <2>1, <2>2
<1>7. StatsMatchResults'
  BY <1>5, <1>6 DEF StatsMatchResults
<1> QED
  BY <1>1, <1>2, <1>7 DEF StatsInv

\* For any number of workers and tasks, through every growth, shrinking and
\* stop of the pool: the counters of each worker are the numbers of results it
\* sent or dropped that succeeded and that failed; no result is counted twice
\* and none of those is missed (updateTaskStats, sendResult).
THEOREM StatsMatchResultsHolds == PoolSpec => []StatsMatchResults
<1>1. StatsInv => StatsMatchResults
  BY DEF StatsInv
<1> QED
  BY <1>1, TypeInit, TypeNext, PlacedInit, PlacedNext, TellInit, TellNext,
     StatsInit, StatsNext, PTL DEF PoolSpec
=============================================================================
