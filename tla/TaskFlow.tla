------------------------------ MODULE TaskFlow ------------------------------
(***************************************************************************)
(* What a pool of workers promises about the tasks that flow through it,   *)
(* without workers, locks, retries or contexts: tasks are started in the   *)
(* order they were queued, at most MaxHeld at once, each at most once, and *)
(* each started task yields one outcome, which is lost only when the       *)
(* report buffer is full.  Pool implements this specification.             *)
(***************************************************************************)
EXTENDS Integers, Sequences, FiniteSets

CONSTANTS
    Tasks,      \* the submissions
    QueueCap,   \* room in the queue
    ReportCap,  \* room in the report buffer
    MaxHeld     \* how many tasks may be under way at once

VARIABLES
    queue,    \* tasks waiting, first to start at the head
    held,     \* tasks under way
    reports,  \* tasks whose outcome waits to be read
    lost,     \* tasks whose outcome was thrown away
    done      \* tasks whose outcome was read

flowVars == <<queue, held, reports, lost, done>>

Waiting(s) == {s[k] : k \in DOMAIN s}

Known == UNION {Waiting(queue), held, Waiting(reports), lost, done}

Init ==
    /\ queue = <<>>
    /\ held = {}
    /\ reports = <<>>
    /\ lost = {}
    /\ done = {}

Submit(t) ==
    /\ t \notin Known
    /\ Len(queue) < QueueCap
    /\ queue' = Append(queue, t)
    /\ UNCHANGED <<held, reports, lost, done>>

StartTask ==
    /\ queue # <<>>
    /\ Cardinality(held) < MaxHeld
    /\ held' = held \union {Head(queue)}
    /\ queue' = Tail(queue)
    /\ UNCHANGED <<reports, lost, done>>

Report(t) ==
    /\ t \in held
    /\ Len(reports) < ReportCap
    /\ held' = held \ {t}
    /\ reports' = Append(reports, t)
    /\ UNCHANGED <<queue, lost, done>>

Lose(t) ==
    /\ t \in held
    /\ Len(reports) = ReportCap
    /\ held' = held \ {t}
    /\ lost' = lost \union {t}
    /\ UNCHANGED <<queue, reports, done>>

Read ==
    /\ reports # <<>>
    /\ done' = done \union {Head(reports)}
    /\ reports' = Tail(reports)
    /\ UNCHANGED <<queue, held, lost>>

Next ==
    \/ \E t \in Tasks : Submit(t) \/ Report(t) \/ Lose(t)
    \/ StartTask
    \/ Read

Spec == Init /\ [][Next]_flowVars
=============================================================================
