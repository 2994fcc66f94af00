----------------------------- MODULE MCResource -----------------------------
(***************************************************************************)
(* Small instances of ResourceController for TLC.                          *)
(***************************************************************************)
EXTENDS ResourceController

CONSTANTS m1, m2, c1

OneMonitor == {m1}
TwoMonitors == {m1, m2}
OneCaller == {c1}
Nobody == {}

\* By hand, up and down, and one request for a reason of the tests.
ByHand == {[delta |-> d, why |-> "manual scaling"] : d \in {-2, 2}}
AllRequests == ByHand \union {[delta |-> 2, why |-> "scale down test"]}
NoRequests == {}
=============================================================================
