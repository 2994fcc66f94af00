------------------------------- MODULE MCPool -------------------------------
(***************************************************************************)
(* Small instances of Pool for TLC: "plain" has a task that is retried     *)
(* once, "calling" has its function ask for the pool's size, "unlucky"     *)
(* falls back on the workers' retry limit and "bad" fails its validation.  *)
(***************************************************************************)
EXTENDS Pool, TLC

CONSTANTS plain, unlucky, calling, bad

AllTasks == {calling, unlucky, bad}
GoodTasks == {plain, unlucky}
BadTasks == {bad}
Callers == {calling}
NoTasks == {}

Retries == [t \in Tasks |-> IF t = unlucky THEN 0 ELSE 1]

UpAndDown == {-1, 1}
NoRetries == 0
NegativeRetries == -1
=============================================================================
