---------------------------- MODULE PriorityOrder ----------------------------
(***************************************************************************)
(* What a priority queue promises, whatever its data structure: a removal  *)
(* takes a task that no waiting task comes before.                         *)
(***************************************************************************)
EXTENDS Integers

CONSTANTS
    Jobs,      \* the tasks that are pushed
    Stamps,    \* the times of the clock
    Urgency,   \* the priority of each task
    Nothing    \* what an empty queue yields

VARIABLES
    waiting,  \* the tasks in the queue, with the time of their push
    yielded   \* what the last removal returned

Entry == [task : Jobs, stamp : Stamps]

\* A higher priority goes first, and within a priority the older task.
Before(a, b) ==
    \/ Urgency[a.task] > Urgency[b.task]
    \/ Urgency[a.task] = Urgency[b.task] /\ a.stamp < b.stamp

Init == waiting = {} /\ yielded = Nothing

Insert ==
    \E e \in Entry :
      /\ \A w \in waiting : w.task # e.task
      /\ waiting' = waiting \union {e}
      /\ UNCHANGED yielded

Remove ==
    \E e \in waiting :
      /\ \A w \in waiting : ~Before(w, e)
      /\ waiting' = waiting \ {e}
      /\ yielded' = e.task

Empty == waiting = {} /\ yielded' = Nothing /\ UNCHANGED waiting

Next == Insert \/ Remove \/ Empty

Spec == Init /\ [][Next]_<<waiting, yielded>>
=============================================================================
