---------------------------- MODULE PriorityQueue ----------------------------
(***************************************************************************)
(* The priority queue of pkg/worker/priority_queue.go: a binary heap of    *)
(* the package container/heap under one mutex, so that each operation is   *)
(* one step.  Tasks are stamped with the wall clock, which may stand still *)
(* between two pushes and may be set back.                                 *)
(***************************************************************************)
EXTENDS Integers, Sequences

CONSTANTS
    Jobs,      \* the tasks that are pushed
    Stamps,    \* the times of the wall clock
    Urgency,   \* what each task's Priority() returns
    Nothing    \* the nil Pop returns on an empty queue

ASSUME QueueAssumption ==
    /\ Stamps \subseteq Int
    /\ Urgency \in [Jobs -> Int]
    /\ Nothing \notin Jobs

VARIABLES
    heap,     \* the items in the order of the heap's array
    yielded   \* what the last Pop returned

queueVars == <<heap, yielded>>

Item == [task : Jobs, stamp : Stamps, index : Int]

-----------------------------------------------------------------------------
(* taskHeap, the heap.Interface. *)

ButOldestFirst(h, i, j) == h[i].stamp < h[j].stamp
Less(h, i, j) ==
    \/ Urgency[h[i].task] > Urgency[h[j].task]
    \/ Urgency[h[i].task] = Urgency[h[j].task] /\ h[i].stamp < h[j].stamp

\* The swapped items learn their new places.
ButKeepsIndices(h, i, j) == [h EXCEPT ![i] = h[j], ![j] = h[i]]
Swap(h, i, j) == [h EXCEPT ![i] = [h[j] EXCEPT !.index = i],
                           ![j] = [h[i] EXCEPT !.index = j]]

Placed(h, item) == Append(h, [item EXCEPT !.index = Len(h) + 1])

-----------------------------------------------------------------------------
(* container/heap, with places from 1. *)

Up[j \in Nat] == [h \in Seq(Item) |->
    LET i == j \div 2 IN
    IF i = 0 \/ ~Less(h, j, i) THEN h ELSE Up[i][Swap(h, i, j)]]

\* The place of the smaller child of i among the first n items, 0 if none.
SmallerChild(h, i, n) ==
    LET left == 2 * i IN
    IF left > n THEN 0
    ELSE IF left < n /\ Less(h, left + 1, left) THEN left + 1 ELSE left

Down[n \in Nat] == [i \in Nat |-> [h \in Seq(Item) |->
    LET j == SmallerChild(h, i, n) IN
    IF j = 0 \/ ~Less(h, j, i) THEN h ELSE Down[n][j][Swap(h, i, j)]]]

-----------------------------------------------------------------------------
QueueInit == heap = <<>> /\ yielded = Nothing

\* The index the item is made with is overwritten by the heap's Push.
Push(t, now) ==
    LET item == [task |-> t, stamp |-> now, index |-> 0] IN
    /\ \A k \in DOMAIN heap : heap[k].task # t   \* a push names a submission
    /\ heap' = Up[Len(heap) + 1][Placed(heap, item)]
    /\ UNCHANGED yielded

Pop ==
    LET n == Len(heap) IN
    IF n = 0 THEN yielded' = Nothing /\ UNCHANGED heap
    ELSE LET sunk == Down[n - 1][1][Swap(heap, 1, n)] IN
         /\ yielded' = sunk[n].task
         /\ heap' = SubSeq(sunk, 1, n - 1)

QueueNext == Pop \/ \E t \in Jobs, now \in Stamps : Push(t, now)

QueueSpec == QueueInit /\ [][QueueNext]_queueVars

-----------------------------------------------------------------------------
(* Properties. *)

Order == INSTANCE PriorityOrder WITH
    waiting <- {[task |-> heap[k].task, stamp |-> heap[k].stamp] :
                  k \in DOMAIN heap}

\* Pop yields a task of the highest priority, the oldest by the wall clock of
\* its priority, loses none and yields none twice, whatever pushes and pops
\* came before and whatever the clock said (Push, Pop, Less).
ImplementsPriorityOrder == Order!Spec

\* Every item knows its place, and none comes before its parent: what Peek
\* returns is what the next Pop may yield.
HeapWellFormed ==
    \A k \in DOMAIN heap :
      /\ heap[k].index = k
      /\ k > 1 => ~Less(heap, k, k \div 2)
=============================================================================
