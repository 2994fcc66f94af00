------------------------------ MODULE FlowProofs ------------------------------
(***************************************************************************)
(* What holds of the tasks that flow through a pool, for every number of   *)
(* tasks and workers, every capacity of the channels and every sequence of *)
(* pool operations: each task is in one place, and the pool implements the *)
(* abstract TaskFlow.                                                      *)
(***************************************************************************)
EXTENDS PoolProofs

-----------------------------------------------------------------------------
(* Channels. *)

\* The elements of a sequence.
LEMMA Elements ==
    ASSUME NEW S, NEW s \in Seq(S)
    PROVE  /\ Range(s) \subseteq S
           /\ \A x : x \in Range(s) <=> \E k \in 1..Len(s) : s[k] = x
  BY LenProperties DEF Range

\* A send adds one element, and no second copy of it.
LEMMA AppendOnce ==
    ASSUME NEW S, NEW s \in Seq(S), NEW e \in S
    PROVE  /\ Range(Append(s, e)) = Range(s) \union {e}
           /\ IsInjective(s) /\ e \notin Range(s) => IsInjective(Append(s, e))
<1> DEFINE a == Append(s, e)
<1>1. /\ a \in Seq(S) /\ Len(a) = Len(s) + 1 /\ a[Len(s) + 1] = e
      /\ \A k \in 1..Len(s) : a[k] = s[k]
      /\ Len(s) \in Nat /\ DOMAIN s = 1..Len(s) /\ DOMAIN a = 1..Len(s) + 1
  BY AppendProperties, LenProperties
<1> HIDE DEF a
<1>2. Range(a) = Range(s) \union {e}
  BY <1>1 DEF Range
<1>3. ASSUME IsInjective(s), e \notin Range(s),
             NEW j \in 1..Len(s) + 1, NEW k \in 1..Len(s) + 1, a[j] = a[k]
      PROVE  j = k
  BY <1>1, <1>3 DEF IsInjective, Range
<1> QED
  BY <1>1, <1>2, <1>3 DEF IsInjective, a

\* A receive takes the head, and the only copy of it.
LEMMA TailOnce ==
    ASSUME NEW S, NEW s \in Seq(S), s # <<>>
    PROVE  /\ Range(s) = Range(Tail(s)) \union {Head(s)}
           /\ IsInjective(s) => /\ IsInjective(Tail(s))
                                /\ Head(s) \notin Range(Tail(s))
<1> DEFINE b == Tail(s)
<1>1. /\ b \in Seq(S) /\ Len(b) = Len(s) - 1
      /\ \A k \in 1..Len(b) : b[k] = s[k + 1]
  BY HeadTailProperties
<1>2. /\ Len(s) \in Nat \ {0} /\ DOMAIN s = 1..Len(s) /\ Head(s) = s[1]
      /\ DOMAIN b = 1..Len(b)
  BY <1>1, EmptySeq, LenProperties
<1> HIDE DEF b
<1>3. ASSUME NEW k \in 1..Len(s), k # 1
      PROVE  k - 1 \in 1..Len(b) /\ s[k] = b[k - 1]
  <2>1. k - 1 \in 1..Len(b) /\ (k - 1) + 1 = k
    BY <1>1, <1>2, <1>3
  <2> QED
    BY <1>1, <2>1
<1>4. ASSUME NEW k \in 1..Len(b)
      PROVE  k + 1 \in 1..Len(s) /\ k + 1 # 1 /\ b[k] = s[k + 1]
  BY <1>1, <1>2
<1>5. Range(s) = Range(b) \union {s[1]}
  <2>1. Range(s) \subseteq Range(b) \union {s[1]}
    <3>1. \A k \in 1..Len(s) : k = 1 \/ s[k] \in {b[j] : j \in 1..Len(b)}
      BY <1>3
    <3> QED
      BY <1>2, <3>1 DEF Range
  <2>2. Range(b) \union {s[1]} \subseteq Range(s)
    BY <1>2, <1>4 DEF Range
  <2> QED
    BY <2>1, <2>2
<1>6. ASSUME IsInjective(s) PROVE IsInjective(b) /\ s[1] \notin Range(b)
  <2>1. ASSUME NEW j \in 1..Len(b), NEW k \in 1..Len(b), b[j] = b[k]
        PROVE  j = k
    <3>1. j + 1 \in 1..Len(s) /\ k + 1 \in 1..Len(s) /\ s[j + 1] = s[k + 1]
      BY <1>4, <2>1
    <3>2. \A m, n \in 1..Len(s) : s[m] = s[n] => m = n
      BY <1>2, <1>6 DEF IsInjective
    <3>3. j + 1 = k + 1
      BY ONLY <3>1, <3>2
    <3> QED
      BY ONLY <3>3, j \in 1..Len(b), k \in 1..Len(b)
  <2>2. s[1] \notin Range(b)
    <3>1. \A k \in 1..Len(b) : b[k] # s[1]
      <4> SUFFICES ASSUME NEW k \in 1..Len(b), s[k + 1] = s[1] PROVE FALSE
        BY <1>4
      <4>1. k + 1 \in 1..Len(s) /\ k + 1 # 1
        BY <1>4
      <4> QED
        BY <1>2, <1>6, <4>1 DEF IsInjective
    <3> QED
      BY <1>2, <3>1 DEF Range
  <2> QED
    BY <1>2, <2>1, <2>2 DEF IsInjective
<1> QED
  BY <1>2, <1>5, <1>6 DEF b

\* The tasks of a sequence of results, as the sequence is sent and received.
LEMMA TasksOfResults ==
    ASSUME NEW s \in Seq(Result)
    PROVE  /\ TasksOf(s) \in Seq(Tasks) /\ Len(TasksOf(s)) = Len(s)
           /\ \A k \in 1..Len(s) : TasksOf(s)[k] = s[k].task
<1>0. \A r \in Result : r.task \in Tasks
  BY DEF Result
<1>1. /\ Len(s) \in Nat /\ DOMAIN s = 1..Len(s)
      /\ \A k \in 1..Len(s) : s[k].task \in Tasks
  BY <1>0, LenProperties, ElementOfSeq
<1>2. TasksOf(s) = [k \in 1..Len(s) |-> s[k].task]
  BY <1>1 DEF TasksOf
<1> QED
  BY <1>1, <1>2

\* The tasks of the results when one result is added.
LEMMA TasksOfAppend ==
    ASSUME NEW s \in Seq(Result), NEW r \in Result
    PROVE  TasksOf(Append(s, r)) = Append(TasksOf(s), r.task)
<1>1. /\ Append(s, r) \in Seq(Result) /\ Len(Append(s, r)) = Len(s) + 1
      /\ \A k \in 1..Len(s) : Append(s, r)[k] = s[k]
      /\ Append(s, r)[Len(s) + 1] = r /\ Len(s) \in Nat /\ r.task \in Tasks
  BY AppendProperties, LenProperties DEF Result
<1>2. /\ TasksOf(s) \in Seq(Tasks) /\ Len(TasksOf(s)) = Len(s)
      /\ \A k \in 1..Len(s) : TasksOf(s)[k] = s[k].task
  BY TasksOfResults
<1> DEFINE t == TasksOf(Append(s, r))
           u == Append(TasksOf(s), r.task)
<1>3. /\ t \in Seq(Tasks) /\ Len(t) = Len(s) + 1
      /\ \A k \in 1..Len(s) + 1 : t[k] = Append(s, r)[k].task
  BY <1>1, TasksOfResults
<1>4. /\ u \in Seq(Tasks) /\ Len(u) = Len(s) + 1
      /\ \A k \in 1..Len(s) : u[k] = s[k].task
      /\ u[Len(s) + 1] = r.task
  BY <1>1, <1>2, AppendProperties
<1> HIDE DEF t, u
<1>5. \A k \in 1..Len(t) : t[k] = u[k]
  BY <1>1, <1>3, <1>4
<1>6. t = u
  BY <1>3, <1>4, <1>5, SeqEqual
<1> QED
  BY <1>6 DEF t, u

\* The tasks of the results when the first is taken.
LEMMA TasksOfTail ==
    ASSUME NEW s \in Seq(Result), s # <<>>
    PROVE  /\ TasksOf(s) # <<>>
           /\ TasksOf(Tail(s)) = Tail(TasksOf(s))
           /\ Head(TasksOf(s)) = Head(s).task
<1>1. /\ Tail(s) \in Seq(Result) /\ Len(Tail(s)) = Len(s) - 1
      /\ \A k \in 1..Len(Tail(s)) : Tail(s)[k] = s[k + 1]
      /\ Len(s) \in Nat \ {0} /\ Head(s) = s[1]
  BY HeadTailProperties, EmptySeq
<1>2. /\ TasksOf(s) \in Seq(Tasks) /\ Len(TasksOf(s)) = Len(s)
      /\ \A k \in 1..Len(s) : TasksOf(s)[k] = s[k].task
  BY TasksOfResults
<1>3. TasksOf(s) # <<>>
  BY <1>1, <1>2, EmptySeq
<1> DEFINE t == TasksOf(Tail(s))
           u == Tail(TasksOf(s))
<1>4. /\ t \in Seq(Tasks) /\ Len(t) = Len(s) - 1
      /\ \A k \in 1..Len(s) - 1 : t[k] = s[k + 1].task
  <2>1. /\ t \in Seq(Tasks) /\ Len(t) = Len(Tail(s))
        /\ \A k \in 1..Len(Tail(s)) : t[k] = Tail(s)[k].task
    BY <1>1, TasksOfResults
  <2> QED
    BY <1>1, <2>1
<1>5. /\ u \in Seq(Tasks) /\ Len(u) = Len(s) - 1
      /\ \A k \in 1..Len(s) - 1 : u[k] = TasksOf(s)[k + 1]
  BY <1>2, <1>3, HeadTailProperties
<1>6. Head(TasksOf(s)) = Head(s).task
  BY <1>1, <1>2, <1>3
<1> HIDE DEF t, u
<1>7. \A k \in 1..Len(t) : t[k] = u[k]
  BY <1>1, <1>2, <1>4, <1>5
<1>8. t = u
  BY <1>4, <1>5, <1>7, SeqEqual
<1> QED
  BY <1>3, <1>6, <1>8 DEF t, u

-----------------------------------------------------------------------------
(***************************************************************************)
(* The five places a task can be, each as a set of tasks; a task that was  *)
(* sent is in one of them, once.                                           *)
(***************************************************************************)
USE WorkerAssumption, PoolAssumption DEF WorkerAssumption, PoolAssumption

Queued == Range(taskChan)
Held == {result[i].task : i \in WorkerIds} \ {NoTask}
Reported == Range(TasksOf(resultChan))
Lost == {r.task : r \in dropped}
Done == {r.task : r \in taken}

Once ==
    /\ IsInjective(taskChan)
    /\ IsInjective(TasksOf(resultChan))
    /\ \A i, j \in WorkerIds :
         result[i].task = result[j].task /\ result[i].task # NoTask => i = j
    /\ \A r, s \in dropped : r.task = s.task => r = s
    /\ \A r, s \in taken : r.task = s.task => r = s

Apart ==
    /\ Queued \intersect (Held \union Reported \union Lost \union Done) = {}
    /\ Held \intersect (Reported \union Lost \union Done) = {}
    /\ Reported \intersect (Lost \union Done) = {}
    /\ Lost \intersect Done = {}

PlacedInv ==
    /\ Once
    /\ Apart
    /\ sent = UNION {Queued, Held, Reported, Lost, Done}
    /\ Wired \/ resultChan = <<>>

\* A step that moves no task.
Stays ==
    /\ UNCHANGED <<taskChan, resultChan, dropped, taken, sent>>
    /\ \A i \in WorkerIds : result'[i].task = result[i].task

\* A worker moves a task only when it receives it and when it reports it.
LEMMA WorkerStays ==
    ASSUME TypeInv, NEW i \in WorkerIds,
           RunWorker(i), ~Receive(i), ~SendResult(i)
    PROVE  Stays
<1> USE DEF Stays, chanVars
<1>0. DOMAIN result = WorkerIds
  BY DEF TypeInv, Goroutines
<1>1. CASE BeginAttempt(i)
  BY <1>0, <1>1 DEF BeginAttempt, Numbered, WithErr
<1>2. CASE ExecFails(i)
  BY <1>0, <1>2 DEF ExecFails, WithErr
<1>3. CASE BackoffCanceled(i)
  BY <1>0, <1>3 DEF BackoffCanceled, WithErr
<1>4. CASE \/ Exit(i) \/ ExecSucceeds(i) \/ BackoffElapses(i)
           \/ UpdateStats(i) \/ CallReturns(i)
  BY <1>4 DEF Exit, ExecSucceeds, BackoffElapses, UpdateStats, CallReturns
<1> QED
  BY <1>1, <1>2, <1>3, <1>4 DEF RunWorker, WorkerStep

\* What a task is moved by: whatever the pool does, nothing else moves one.
LEMMA WhatMoves ==
    ASSUME TypeInv, [PoolNext]_vars
    PROVE  \/ Stays
           \/ \E t \in Tasks : SendTask(t)
           \/ \E i \in WorkerIds : Receive(i)
           \/ \E i \in WorkerIds : SendResult(i)
           \/ TakeResult
<1> USE DEF Stays, workerVars, chanVars
<1>1. CASE Begin
  BY <1>1 DEF Begin, StartBegin, StopBegin, ScaleUp, ScaleDown
<1>2. CASE Proceed
  BY <1>2 DEF Proceed, AddWorker, FactoryFails, GrownEnd, RemoveWorker,
     StopWorker, WorkerStopped, ShrunkEnd, StopEnd
<1>3. CASE Environment
  BY <1>3 DEF Environment, CloseTasks, CancelContext
<1>4. CASE UNCHANGED vars
  BY <1>4 DEF vars
<1>5. ASSUME NEW i \in WorkerIds, RunWorker(i), ~Receive(i), ~SendResult(i)
      PROVE  Stays
  BY <1>5, WorkerStays
<1> QED
  BY <1>1, <1>2, <1>3, <1>4, <1>5 DEF PoolNext

\* A send puts a task into the queue.
LEMMA SendMoves ==
    ASSUME TypeInv, NEW t \in Tasks, SendTask(t)
    PROVE  /\ t \notin sent /\ sent' = sent \union {t}
           /\ taskChan \in Seq(Tasks) /\ taskChan' = Append(taskChan, t)
           /\ UNCHANGED <<result, resultChan, dropped, taken>>
  BY DEF SendTask, TypeInv, PoolTypeOK

\* A receive hands the head of the queue to a worker that has none.
LEMMA ReceiveMoves ==
    ASSUME TypeInv, NEW i \in WorkerIds, Receive(i)
    PROVE  /\ taskChan \in Seq(Tasks) /\ taskChan # <<>>
           /\ taskChan' = Tail(taskChan) /\ Head(taskChan) \in Tasks
           /\ result[i].task = NoTask /\ result'[i].task = Head(taskChan)
           /\ \A j \in WorkerIds : j # i => result'[j] = result[j]
           /\ Wired /\ UNCHANGED <<resultChan, dropped, taken, sent>>
<1>1. /\ taskChan \in Seq(Tasks) /\ taskChan # <<>> /\ DOMAIN result = WorkerIds
      /\ result[i] = Idle(i)
  BY DEF Receive, TypeInv, PoolTypeOK, Goroutines, Resting
<1>2. Head(taskChan) \in Tasks
  BY <1>1, HeadAndTail
<1>3. \/ result' = [result EXCEPT ![i] = Blank(i, Head(taskChan))]
      \/ result' = [result EXCEPT ![i] =
                      WithErr(Blank(i, Head(taskChan)), "invalid")]
  BY DEF Receive, NextTask
<1> QED
  BY <1>1, <1>2, <1>3 DEF Receive, Idle, Blank, WithErr

\* A worker hands its result to the result channel or throws it away.
LEMMA ReportMoves ==
    ASSUME TypeInv, NEW i \in WorkerIds, SendResult(i)
    PROVE  /\ result[i] \in Result /\ result[i].task \in Tasks
           /\ result'[i].task = NoTask
           /\ \A j \in WorkerIds : j # i => result'[j] = result[j]
           /\ resultChan \in Seq(Result)
           /\ UNCHANGED <<taskChan, taken, sent>>
           /\ \/ /\ RoomForResult /\ dropped' = dropped
                 /\ resultChan' = Append(resultChan, result[i])
              \/ /\ MayDrop /\ resultChan' = resultChan
                 /\ dropped' = dropped \union {result[i]}
<1>1. result[i] \in Result /\ DOMAIN result = WorkerIds
  BY DEF SendResult, TypeInv, Goroutines, Resting
<1>2. result[i].task \in Tasks
  BY <1>1 DEF Result
<1> QED
  BY <1>1, <1>2 DEF SendResult, TypeInv, PoolTypeOK, Idle

\* A result is read off the head of the result channel.
LEMMA TakeMoves ==
    ASSUME TypeInv, TakeResult
    PROVE  /\ resultChan \in Seq(Result) /\ resultChan # <<>>
           /\ Head(resultChan) \in Result
           /\ resultChan' = Tail(resultChan)
           /\ taken' = taken \union {Head(resultChan)}
           /\ UNCHANGED <<taskChan, result, dropped, sent>>
<1>1. resultChan \in Seq(Result) /\ resultChan # <<>>
  BY DEF TakeResult, TypeInv, PoolTypeOK
<1> QED
  BY <1>1, HeadAndTail DEF TakeResult

\* The tasks under way after a receive and after a report.
LEMMA HeldGains ==
    ASSUME TypeInv, NEW i \in WorkerIds, Receive(i)
    PROVE  Held' = Held \union {Head(taskChan)}
<1>1. /\ Head(taskChan) \in Tasks
      /\ result[i].task = NoTask /\ result'[i].task = Head(taskChan)
      /\ \A j \in WorkerIds : j # i => result'[j] = result[j]
  BY ReceiveMoves
<1>2. Held' \subseteq Held \union {Head(taskChan)}
  BY <1>1 DEF Held
<1>3. Head(taskChan) \in Held' /\ Held \subseteq Held'
  BY <1>1 DEF Held
<1> QED
  BY <1>2, <1>3

\* A worker that has reported lets go of its task, which no other one held.
LEMMA HeldLoses ==
    ASSUME TypeInv, PlacedInv, NEW i \in WorkerIds, SendResult(i)
    PROVE  Held' = Held \ {result[i].task} /\ result[i].task \in Held
<1>1. /\ result[i].task \in Tasks /\ result'[i].task = NoTask
      /\ \A j \in WorkerIds : j # i => result'[j] = result[j]
  BY ReportMoves
<1>2. result[i].task \in Held
  BY <1>1 DEF Held
<1>3. Held' \subseteq Held \ {result[i].task}
  BY <1>1 DEF Held, PlacedInv, Once
<1>4. Held \ {result[i].task} \subseteq Held'
  BY <1>1 DEF Held
<1> QED
  BY <1>2, <1>3, <1>4

-----------------------------------------------------------------------------
\* A pool that was not used has no task anywhere.
LEMMA PlacedInit == PoolInit => PlacedInv
<1> SUFFICES ASSUME PoolInit PROVE PlacedInv
  OBVIOUS
<1>1. /\ taskChan = <<>> /\ resultChan = <<>> /\ dropped = {} /\ taken = {}
      /\ sent = {} /\ \A i \in WorkerIds : result[i].task = NoTask
  BY DEF PoolInit, WorkerInit, Idle
<1>2. <<>> \in Seq(Tasks) /\ <<>> \in Seq(Result) /\ Len(<<>>) = 0
  BY EmptySeq
<1>3. TasksOf(resultChan) = <<>>
  BY <1>1, <1>2, TasksOfResults, EmptySeq
<1>4. Queued = {} /\ Reported = {} /\ Lost = {} /\ Done = {} /\ Held = {}
  <2>1. DOMAIN taskChan = {} /\ DOMAIN TasksOf(resultChan) = {}
    BY <1>1, <1>2, <1>3, LenProperties
  <2> QED
    BY <1>1, <2>1 DEF Queued, Reported, Lost, Done, Held, Range
<1>5. Once
  BY <1>1, <1>2, <1>3, LenProperties DEF Once, IsInjective
<1> QED
  BY <1>1, <1>4, <1>5 DEF PlacedInv, Apart

\* Each way to move a task keeps every task in one place.
LEMMA PlacedNext == TypeInv /\ PlacedInv /\ [PoolNext]_vars => PlacedInv'
<1> SUFFICES ASSUME TypeInv, PlacedInv, [PoolNext]_vars PROVE PlacedInv'
  OBVIOUS
<1>1. CASE Stays
  <2>1. /\ UNCHANGED <<Queued, Held, Reported, Lost, Done, sent, resultChan>>
        /\ Once'
    BY <1>1 DEF Stays, Queued, Held, Reported, Lost, Done, PlacedInv, Once
  <2> QED
    BY <2>1 DEF PlacedInv, Apart
<1>2. ASSUME NEW t \in Tasks, SendTask(t) PROVE PlacedInv'
  <2>1. /\ t \notin sent /\ sent' = sent \union {t}
        /\ taskChan \in Seq(Tasks) /\ taskChan' = Append(taskChan, t)
        /\ UNCHANGED <<result, resultChan, dropped, taken>>
    BY <1>2, SendMoves
  <2>2. t \notin Queued
    BY <2>1 DEF PlacedInv
  <2>3. Queued' = Queued \union {t} /\ IsInjective(taskChan')
    BY <2>1, <2>2, AppendOnce DEF Queued, PlacedInv, Once
  <2>4. UNCHANGED <<Held, Reported, Lost, Done>>
    BY <2>1 DEF Held, Reported, Lost, Done
  <2> QED
    BY <2>1, <2>3, <2>4 DEF PlacedInv, Once, Apart
<1>3. ASSUME NEW i \in WorkerIds, Receive(i) PROVE PlacedInv'
  <2> DEFINE t == Head(taskChan)
  <2>1. /\ taskChan \in Seq(Tasks) /\ taskChan # <<>> /\ t \in Tasks
        /\ taskChan' = Tail(taskChan)
        /\ result[i].task = NoTask /\ result'[i].task = t
        /\ \A j \in WorkerIds : j # i => result'[j] = result[j]
        /\ UNCHANGED <<resultChan, dropped, taken, sent>>
    BY <1>3, ReceiveMoves
  <2> HIDE DEF t
  <2>2. /\ Queued = Queued' \union {t} /\ t \notin Queued'
        /\ IsInjective(taskChan')
    BY <2>1, TailOnce DEF Queued, PlacedInv, Once, t
  <2>3. Held' = Held \union {t}
    BY <1>3, HeldGains DEF t
  <2>4. UNCHANGED <<Reported, Lost, Done>>
    BY <2>1 DEF Reported, Lost, Done
  <2>5. t \notin Held
    BY <2>2 DEF PlacedInv, Apart
  <2>6. Once'
    <3>1. ASSUME NEW j \in WorkerIds, NEW k \in WorkerIds,
                 result'[j].task = result'[k].task, result'[j].task # NoTask
          PROVE  j = k
      <4>1. \A m \in WorkerIds : result[m].task # t
        BY <2>1, <2>5 DEF Held
      <4> QED
        BY <2>1, <3>1, <4>1 DEF PlacedInv, Once
    <3> QED
      BY <2>1, <2>2, <3>1 DEF PlacedInv, Once
  <2> QED
    BY <2>1, <2>2, <2>3, <2>4, <2>6 DEF PlacedInv, Apart
<1>4. ASSUME NEW i \in WorkerIds, SendResult(i) PROVE PlacedInv'
  <2> DEFINE r == result[i]
  <2>1. /\ r \in Result /\ r.task \in Tasks /\ result'[i].task = NoTask
        /\ \A j \in WorkerIds : j # i => result'[j] = result[j]
        /\ resultChan \in Seq(Result)
        /\ UNCHANGED <<taskChan, taken, sent>>
        /\ \/ /\ RoomForResult /\ dropped' = dropped
              /\ resultChan' = Append(resultChan, r)
           \/ /\ MayDrop /\ resultChan' = resultChan
              /\ dropped' = dropped \union {r}
    BY <1>4, ReportMoves
  <2>2. Held' = Held \ {r.task} /\ r.task \in Held
    BY <1>4, HeldLoses
  <2>3. \A j, k \in WorkerIds :
          result'[j].task = result'[k].task /\ result'[j].task # NoTask
            => j = k
    BY <2>1 DEF PlacedInv, Once
  <2> HIDE DEF r
  <2>4. UNCHANGED <<Queued, Done>> /\ r.task \notin Reported \union Lost
    BY <2>1, <2>2 DEF Queued, Done, PlacedInv, Apart
  <2>5. CASE RoomForResult /\ resultChan' = Append(resultChan, r)
             /\ dropped' = dropped
    <3>1. TasksOf(resultChan') = Append(TasksOf(resultChan), r.task)
      BY <2>1, <2>5, TasksOfAppend
    <3>2. /\ Reported' = Reported \union {r.task}
          /\ IsInjective(TasksOf(resultChan'))
      BY <2>1, <2>4, <3>1, TasksOfResults, AppendOnce
         DEF Reported, PlacedInv, Once
    <3>3. Lost' = Lost
      BY <2>5 DEF Lost
    <3>4. Once'
      BY <2>1, <2>3, <2>5, <3>2 DEF PlacedInv, Once
    <3>5. Wired
      BY <2>5 DEF RoomForResult
    <3> QED
      BY <2>1, <2>2, <2>4, <3>2, <3>3, <3>4, <3>5 DEF PlacedInv, Apart
  <2>6. CASE resultChan' = resultChan /\ dropped' = dropped \union {r}
    <3>1. Lost' = Lost \union {r.task} /\ Reported' = Reported
      BY <2>6 DEF Lost, Reported
    <3>2. \A s \in dropped : s.task # r.task
      BY <2>4 DEF Lost
    <3>3. Once'
      BY <2>1, <2>3, <2>6, <3>2 DEF PlacedInv, Once
    <3> QED
      BY <2>1, <2>2, <2>4, <2>6, <3>1, <3>3 DEF PlacedInv, Apart
  <2> QED
    BY <2>1, <2>5, <2>6
<1>5. CASE TakeResult
  <2> DEFINE r == Head(resultChan)
  <2>1. /\ resultChan \in Seq(Result) /\ resultChan # <<>> /\ r \in Result
        /\ resultChan' = Tail(resultChan) /\ taken' = taken \union {r}
        /\ UNCHANGED <<taskChan, result, dropped, sent>>
    BY <1>5, TakeMoves
  <2>2. /\ TasksOf(resultChan) \in Seq(Tasks) /\ TasksOf(resultChan) # <<>>
        /\ TasksOf(resultChan') = Tail(TasksOf(resultChan))
        /\ Head(TasksOf(resultChan)) = r.task
    BY <2>1, TasksOfResults, TasksOfTail
  <2> HIDE DEF r
  <2>3. /\ Reported = Reported' \union {r.task} /\ r.task \notin Reported'
        /\ IsInjective(TasksOf(resultChan'))
    BY <2>2, TailOnce DEF Reported, PlacedInv, Once
  <2>4. UNCHANGED <<Queued, Held, Lost>> /\ Done' = Done \union {r.task}
    BY <2>1 DEF Queued, Held, Lost, Done
  <2>5. \A s \in taken : s.task # r.task
    BY <2>3 DEF PlacedInv, Apart, Done
  <2>6. Once'
    BY <2>1, <2>3, <2>5 DEF PlacedInv, Once
  <2>7. Wired
    BY <2>1 DEF PlacedInv
  <2> QED
    BY <2>1, <2>3, <2>4, <2>6, <2>7 DEF PlacedInv, Apart
<1> QED
  BY <1>1, <1>2, <1>3, <1>4, <1>5, WhatMoves

\* The sets of tasks and the places of one task say the same.
LEMMA PlacedSuffices ==
    ASSUME TypeInv, PlacedInv, NEW t \in Tasks
    PROVE  IF t \in sent THEN \E p \in Places(t) : Places(t) = {p}
           ELSE Places(t) = {}
<1> DEFINE q == {<<"queued", k>> :
                   k \in {k \in DOMAIN taskChan : taskChan[k] = t}}
           h == {<<"held", i>> : i \in {i \in WorkerIds : result[i].task = t}}
           p == {<<"reported", k>> :
                   k \in {k \in DOMAIN resultChan : resultChan[k].task = t}}
           d == {<<"dropped", r>> : r \in {r \in dropped : r.task = t}}
           g == {<<"taken", r>> : r \in {r \in taken : r.task = t}}
<1>0. Places(t) = q \union h \union p \union d \union g
  BY DEF Places
<1>1. /\ DOMAIN TasksOf(resultChan) = DOMAIN resultChan
      /\ \A k \in DOMAIN resultChan :
           TasksOf(resultChan)[k] = resultChan[k].task
  BY DEF TasksOf
<1>2. IF t \in Queued THEN \E x : q = {x} ELSE q = {}
  <2>1. CASE t \in Queued
    <3>1. PICK k \in DOMAIN taskChan : taskChan[k] = t
      BY <2>1 DEF Queued, Range
    <3>2. {j \in DOMAIN taskChan : taskChan[j] = t} = {k}
      BY <3>1 DEF PlacedInv, Once, IsInjective
    <3>3. q = {<<"queued", k>>}
      BY <3>2
    <3> QED
      BY <2>1, <3>3
  <2>2. CASE t \notin Queued
    BY <2>2 DEF Queued, Range
  <2> QED
    BY <2>1, <2>2
<1>3. IF t \in Held THEN \E x : h = {x} ELSE h = {}
  <2>1. CASE t \in Held
    <3>1. PICK i \in WorkerIds : result[i].task = t
      BY <2>1 DEF Held
    <3>2. {j \in WorkerIds : result[j].task = t} = {i}
      BY <3>1 DEF PlacedInv, Once
    <3>3. h = {<<"held", i>>}
      BY <3>2
    <3> QED
      BY <2>1, <3>3
  <2>2. CASE t \notin Held
    BY <2>2 DEF Held
  <2> QED
    BY <2>1, <2>2
<1>4. IF t \in Reported THEN \E x : p = {x} ELSE p = {}
  <2>1. CASE t \in Reported
    <3>1. PICK k \in DOMAIN resultChan : resultChan[k].task = t
      BY <1>1, <2>1 DEF Reported, Range
    <3>2. {j \in DOMAIN resultChan : resultChan[j].task = t} = {k}
      BY <1>1, <3>1 DEF PlacedInv, Once, IsInjective
    <3>3. p = {<<"reported", k>>}
      BY <3>2
    <3> QED
      BY <2>1, <3>3
  <2>2. CASE t \notin Reported
    BY <1>1, <2>2 DEF Reported, Range
  <2> QED
    BY <2>1, <2>2
<1>5. IF t \in Lost THEN \E x : d = {x} ELSE d = {}
  <2>1. CASE t \in Lost
    <3>1. PICK r \in dropped : r.task = t
      BY <2>1 DEF Lost
    <3>2. {s \in dropped : s.task = t} = {r}
      BY <3>1 DEF PlacedInv, Once
    <3>3. d = {<<"dropped", r>>}
      BY <3>2
    <3> QED
      BY <2>1, <3>3
  <2>2. CASE t \notin Lost
    BY <2>2 DEF Lost
  <2> QED
    BY <2>1, <2>2
<1>6. IF t \in Done THEN \E x : g = {x} ELSE g = {}
  <2>1. CASE t \in Done
    <3>1. PICK r \in taken : r.task = t
      BY <2>1 DEF Done
    <3>2. {s \in taken : s.task = t} = {r}
      BY <3>1 DEF PlacedInv, Once
    <3>3. g = {<<"taken", r>>}
      BY <3>2
    <3> QED
      BY <2>1, <3>3
  <2>2. CASE t \notin Done
    BY <2>2 DEF Done
  <2> QED
    BY <2>1, <2>2
<1>7. /\ t \in sent <=> \/ t \in Queued \/ t \in Held \/ t \in Reported
                        \/ t \in Lost \/ t \in Done
      /\ ~(t \in Queued /\ t \in Held) /\ ~(t \in Queued /\ t \in Reported)
      /\ ~(t \in Queued /\ t \in Lost) /\ ~(t \in Queued /\ t \in Done)
      /\ ~(t \in Held /\ t \in Reported) /\ ~(t \in Held /\ t \in Lost)
      /\ ~(t \in Held /\ t \in Done) /\ ~(t \in Reported /\ t \in Lost)
      /\ ~(t \in Reported /\ t \in Done) /\ ~(t \in Lost /\ t \in Done)
  BY DEF PlacedInv, Apart
<1> HIDE DEF q, h, p, d, g
<1>8. CASE t \in sent
  <2>1. PICK x : q \union h \union p \union d \union g = {x}
    <3>1. CASE t \in Queued
      BY <1>2, <1>3, <1>4, <1>5, <1>6, <1>7, <3>1
    <3>2. CASE t \in Held
      BY <1>2, <1>3, <1>4, <1>5, <1>6, <1>7, <3>2
    <3>3. CASE t \in Reported
      BY <1>2, <1>3, <1>4, <1>5, <1>6, <1>7, <3>3
    <3>4. CASE t \in Lost
      BY <1>2, <1>3, <1>4, <1>5, <1>6, <1>7, <3>4
    <3>5. CASE t \in Done
      BY <1>2, <1>3, <1>4, <1>5, <1>6, <1>7, <3>5
    <3> QED
      BY <1>7, <1>8, <3>1, <3>2, <3>3, <3>4, <3>5
  <2> QED
    BY <1>0, <1>8, <2>1
<1>9. CASE t \notin sent
  BY <1>0, <1>2, <1>3, <1>4, <1>5, <1>6, <1>7, <1>9
<1> QED
  BY <1>8, <1>9

\* Conservation, for any number of workers and tasks and any use of the pool: a
\* task that was sent is queued, with one worker, reported, dropped or read,
\* and is in one of these places only (worker.go, pool.go).
THEOREM EachTaskInOnePlaceHolds == PoolSpec => []EachTaskInOnePlace
<1>1. TypeInv /\ PlacedInv => EachTaskInOnePlace
  BY PlacedSuffices DEF EachTaskInOnePlace
<1> QED
  BY <1>1, TypeInit, TypeNext, PlacedInit, PlacedNext, PTL DEF PoolSpec

-----------------------------------------------------------------------------
(***************************************************************************)
(* The pool implements TaskFlow: each way to move a task is an action of   *)
(* the abstract specification, and whatever else happens is a stutter.     *)
(***************************************************************************)

\* The instance counts as this module does.
LEMMA FlowCounts == \A S : Flow!Cardinality(S) = Cardinality(S)
  BY DEF Flow!Cardinality, Cardinality

\* A worker that waits for a task leaves room for one more: the workers that
\* have a task are among the other live ones.
LEMMA RoomForOneMore ==
    ASSUME TypeInv, SizeInBounds, NEW i \in WorkerIds, pc[i] = "select"
    PROVE  Cardinality(Held) < MaxSize
<1> DEFINE Active == {j \in WorkerIds : Live(j)}
           Busy == {j \in WorkerIds : result[j].task # NoTask}
           f == [j \in Busy |-> result[j].task]
<1>1. IsFiniteSet(Active) /\ Cardinality(Active) \in Nat
  <2>1. IsFiniteSet(WorkerIds)
    BY FS_Interval DEF WorkerIds
  <2> QED
    BY <2>1, FS_Subset, FS_CardinalityType
<1>2. i \in Active /\ Busy \subseteq Active \ {i}
  BY DEF Live, TypeInv, Goroutines, Resting, Idle
<1>3. /\ IsFiniteSet(Active \ {i})
      /\ Cardinality(Active \ {i}) = Cardinality(Active) - 1
  BY <1>1, <1>2, FS_RemoveElement
<1>4. IsFiniteSet(Busy) /\ Cardinality(Busy) <= Cardinality(Active) - 1
      /\ Cardinality(Busy) \in Nat
  BY <1>2, <1>3, FS_Subset, FS_CardinalityType
<1>5. f \in Surjection(Busy, Held)
  BY DEF Surjection, Held
<1>6. IsFiniteSet(Held) /\ Cardinality(Held) <= Cardinality(Busy)
      /\ Cardinality(Held) \in Nat
  BY <1>4, <1>5, FS_Surjection, FS_CardinalityType
<1>7. Cardinality(Active) <= MaxSize
  BY DEF SizeInBounds
<1> QED
  BY <1>1, <1>4, <1>6, <1>7

\* The tasks TaskFlow knows are those that were sent.
LEMMA KnownAreSent == PlacedInv => Flow!Known = sent
  BY DEF Flow!Known, Flow!Waiting, PlacedInv, Queued, Held, Reported, Lost,
     Done, Range

\* A new pool is a flow with no task.
LEMMA FlowInit == PoolInit => Flow!Init
<1> SUFFICES ASSUME PoolInit PROVE Flow!Init
  OBVIOUS
<1>1. /\ taskChan = <<>> /\ resultChan = <<>> /\ dropped = {} /\ taken = {}
      /\ \A i \in WorkerIds : result[i].task = NoTask
  BY DEF PoolInit, WorkerInit, Idle
<1>2. TasksOf(resultChan) = <<>>
  BY <1>1, EmptySeq, TasksOfResults
<1> QED
  BY <1>1, <1>2 DEF Flow!Init

\* Every step of the pool is a step of the flow, or none.
LEMMA FlowNext ==
    TypeInv /\ SizeInBounds /\ PlacedInv /\ [PoolNext]_vars
      => [Flow!Next]_(Flow!flowVars)
<1> SUFFICES ASSUME TypeInv, SizeInBounds, PlacedInv, [PoolNext]_vars
             PROVE  [Flow!Next]_(Flow!flowVars)
  OBVIOUS
<1>1. CASE Stays
  BY <1>1 DEF Stays, Flow!flowVars
<1>2. ASSUME NEW t \in Tasks, SendTask(t) PROVE Flow!Submit(t)
  <2>1. /\ t \notin sent /\ taskChan' = Append(taskChan, t)
        /\ UNCHANGED <<result, resultChan, dropped, taken>>
    BY <1>2, SendMoves
  <2>2. t \notin Flow!Known
    BY <2>1, KnownAreSent
  <2> QED
    BY <1>2, <2>1, <2>2 DEF SendTask, Flow!Submit
<1>3. ASSUME NEW i \in WorkerIds, Receive(i) PROVE Flow!StartTask
  <2>1. /\ taskChan # <<>> /\ taskChan' = Tail(taskChan)
        /\ Head(taskChan) \in Tasks
        /\ result[i].task = NoTask /\ result'[i].task = Head(taskChan)
        /\ \A j \in WorkerIds : j # i => result'[j] = result[j]
        /\ UNCHANGED <<resultChan, dropped, taken>>
    BY <1>3, ReceiveMoves
  <2>2. Cardinality(Held) < MaxSize
    BY <1>3, RoomForOneMore DEF Receive
  <2>3. Held' = Held \union {Head(taskChan)}
    BY <1>3, HeldGains
  <2>4. UNCHANGED <<TasksOf(resultChan), Lost, Done>>
    BY <2>1 DEF Lost, Done
  <2> QED
    BY <2>1, <2>2, <2>3, <2>4, FlowCounts
       DEF Flow!StartTask, Held, Lost, Done
<1>4. ASSUME NEW i \in WorkerIds, SendResult(i)
      PROVE  \E t \in Tasks : Flow!Report(t) \/ Flow!Lose(t)
  <2> DEFINE r == result[i]
  <2>1. /\ r \in Result /\ r.task \in Tasks /\ result'[i].task = NoTask
        /\ \A j \in WorkerIds : j # i => result'[j] = result[j]
        /\ resultChan \in Seq(Result)
        /\ UNCHANGED <<taskChan, taken, sent>>
        /\ \/ /\ RoomForResult /\ dropped' = dropped
              /\ resultChan' = Append(resultChan, r)
           \/ /\ MayDrop /\ resultChan' = resultChan
              /\ dropped' = dropped \union {r}
    BY <1>4, ReportMoves
  <2> HIDE DEF r
  <2>2. PICK t \in Tasks : t = r.task
    BY <2>1
  <2>6. Held' = Held \ {t} /\ t \in Held
    BY <1>4, <2>2, HeldLoses DEF r
  <2>3. /\ Len(TasksOf(resultChan)) = Len(resultChan)
        /\ Len(resultChan) \in Nat /\ Len(resultChan) <= ResultCap
        /\ ~Wired => Len(resultChan) = 0
    BY <2>1, TasksOfResults, LenProperties, EmptySeq
       DEF PlacedInv, TypeInv, PoolTypeOK
  <2>4. CASE RoomForResult /\ resultChan' = Append(resultChan, r)
             /\ dropped' = dropped
    <3>1. TasksOf(resultChan') = Append(TasksOf(resultChan), t)
      BY <2>1, <2>2, <2>4, TasksOfAppend
    <3>2. Flow!Report(t)
      BY <2>1, <2>3, <2>4, <2>6, <3>1 DEF Flow!Report, RoomForResult, Held
    <3> QED
      BY <3>2
  <2>5. CASE MayDrop /\ resultChan' = resultChan
             /\ dropped' = dropped \union {r}
    <3>1. Lost' = Lost \union {t}
      BY <2>2, <2>5 DEF Lost
    <3>2. Len(TasksOf(resultChan)) = IF Wired THEN ResultCap ELSE 0
      BY <2>3, <2>5 DEF MayDrop, RoomForResult
    <3>3. Flow!Lose(t)
      BY <2>1, <2>5, <2>6, <3>1, <3>2 DEF Flow!Lose, Held, Lost
    <3> QED
      BY <3>3
  <2> QED
    BY <2>1, <2>4, <2>5
<1>5. CASE TakeResult
  <2>1. /\ resultChan \in Seq(Result) /\ resultChan # <<>>
        /\ resultChan' = Tail(resultChan)
        /\ taken' = taken \union {Head(resultChan)}
        /\ UNCHANGED <<taskChan, result, dropped, sent>>
    BY <1>5, TakeMoves
  <2>2. /\ TasksOf(resultChan) # <<>>
        /\ TasksOf(resultChan') = Tail(TasksOf(resultChan))
        /\ Head(TasksOf(resultChan)) = Head(resultChan).task
    BY <2>1, TasksOfTail
  <2>3. Done' = Done \union {Head(TasksOf(resultChan))}
    BY <2>1, <2>2 DEF Done
  <2>4. Flow!Read
    BY <2>1, <2>2, <2>3 DEF Flow!Read, Done
  <2> QED
    BY <2>4 DEF Flow!Next
<1> QED
  BY <1>1, <1>2, <1>3, <1>4, <1>5, WhatMoves DEF Flow!Next

\* For every capacity, number of workers and retry limit, and whatever calls
\* are made of it, a pool behaves as TaskFlow: tasks start in the order they
\* were sent, at most MaxSize at once, none twice, and a result is lost only
\* when the result channel is full (Start and sendResult of worker.go).
THEOREM TaskFlowImplemented == PoolSpec => ImplementsTaskFlow
<1>1. TypeInv /\ LockInv /\ SizeInv => SizeInBounds
  BY SizeSuffices
<1> QED
  BY <1>1, TypeInit, TypeNext, LockInit, LockNext, SizeInit, SizeNext,
     PlacedInit, PlacedNext, FlowInit, FlowNext, PTL
     DEF PoolSpec, ImplementsTaskFlow, Flow!Spec
=============================================================================
