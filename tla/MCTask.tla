------------------------------- MODULE MCTask -------------------------------
(***************************************************************************)
(* A small instance of TaskExecution for TLC.                              *)
(***************************************************************************)
EXTENDS TaskExecution

\* Each wrapper at most once, in every order.
AllChains ==
    {c \in UNION {[1..n -> Wrappers] : n \in 0..3} :
       \A i, j \in 1..Len(c) : c[i] = c[j] => i = j}
=============================================================================
