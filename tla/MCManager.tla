----------------------------- MODULE MCManager ------------------------------
(***************************************************************************)
(* Small instances of Manager for TLC: "first" and "second" are plain      *)
(* submissions, the second with a retry limit of 0.                        *)
(***************************************************************************)
EXTENDS Manager

CONSTANTS first, second, s1, s2

TwoTasks == {first, second}
OneTask == {first}
NoTasks == {}
TwoStoppers == {s1, s2}
OneStopper == {s1}
Nobody == {}

\* Bound: whoever waits for completion is not joined by the second stopper.
Narrow == waitPc = "idle" \/ stopPc[s2] = "idle"
NarrowSpec == MgrInit /\ [][MgrNext /\ Narrow']_allVars /\ MgrFairness

Retries == [t \in Tasks |-> IF t = second THEN 0 ELSE 1]
NegativeRetries == -1
NoDeltas == {}
=============================================================================
