------------------------------- MODULE MCParts -------------------------------
(***************************************************************************)
(* The components that nothing in the program makes run together, each on  *)
(* a small instance: a behaviour is one of one of them, the others stand.  *)
(***************************************************************************)
EXTENDS PriorityQueue, ObjectPool, ResourceMonitor, Configuration

CONSTANTS a, b, c, d, e, f, u1, u2, l1, l2

VARIABLE part  \* the component that moves

SixJobs == {a, b, c, d, e, f}
UrgencyOf == [j \in SixJobs |-> IF j \in {a, b, c} THEN 2 ELSE 1]

SomeLimits == {-1, 0, 1}
SomeCounts == {-1, 0, 1, 4, 33, 1001}
SomeFactors == {0, 9, 10, 11, 15, NaN}
SomeMarks == {-1, 20, 40, 97, 101, NaN}

PartsInit ==
    /\ QueueInit
    /\ ObjectInit
    /\ MonitorInit
    /\ ConfigInit
    /\ part \in {"queue", "objects", "monitor", "config"}

PartsNext ==
    /\ \/ /\ part = "queue"
          /\ QueueNext
          /\ UNCHANGED <<objectVars, monitorVars, configVars>>
       \/ /\ part = "objects"
          /\ ObjectNext
          /\ UNCHANGED <<queueVars, monitorVars, configVars>>
       \/ /\ part = "monitor"
          /\ MonitorNext
          /\ UNCHANGED <<queueVars, objectVars, configVars>>
       \/ /\ part = "config"
          /\ ConfigNext
          /\ UNCHANGED <<queueVars, objectVars, monitorVars>>
    /\ UNCHANGED part

PartsSpec ==
    PartsInit /\ [][PartsNext]_<<queueVars, objectVars, monitorVars,
                                 configVars, part>>
=============================================================================
