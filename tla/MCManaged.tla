------------------------------ MODULE MCManaged ------------------------------
(***************************************************************************)
(* Small instances of ManagedScaling for TLC.                              *)
(***************************************************************************)
EXTENDS ManagedScaling

CONSTANTS s1, h1

NoTasks == {}
OneStopper == {s1}
Nobody == {}
OneHand == {h1}

NoRetries == [t \in {} |-> 0]
UpAndDown == {-1, 1}
=============================================================================
