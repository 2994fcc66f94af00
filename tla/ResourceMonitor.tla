--------------------------- MODULE ResourceMonitor ---------------------------
(***************************************************************************)
(* The loop of ResourceMonitor.Start (internal/utils/resource.go) over the *)
(* statistics of internal/utils/metrics.go.  Nothing keeps a program from  *)
(* starting it twice: lastCleanup is read without the lock that is held to *)
(* write it, and a cleanup lies between the two.                           *)
(***************************************************************************)
EXTENDS Integers, Sequences

CONSTANTS
    Loops,        \* goroutines that run ResourceMonitor.Start
    Usages,       \* what the runtime's memory usage may be, in percent
    Threshold,    \* cleanupThreshold
    MinInterval,  \* minCleanupInterval
    SampleCap,    \* MaxHistoryEntries
    MaxClock      \* bound on the clock

ASSUME MonitorAssumption ==
    /\ Usages \subseteq Int
    /\ Threshold \in Int
    /\ MinInterval \in Nat
    /\ SampleCap \in Nat \ {0}
    /\ MaxClock \in Nat

VARIABLES
    clock,        \* the monotonic clock
    usage,        \* MemoryStats.UsagePercent
    samples,      \* MemoryHistory; GoroutineHistory is trimmed alike
    lastCleanup,  \* lastCleanup, set when the monitor is made
    at,           \* where each loop is
    seen,         \* the usage each loop has read
    begun         \* history: when each loop last began a cleanup

monitorVars == <<clock, usage, samples, lastCleanup, at, seen, begun>>

MonitorInit ==
    /\ clock = 0
    /\ usage = 0
    /\ samples = <<>>
    /\ lastCleanup = 0
    /\ at = [l \in Loops |-> "waiting"]
    /\ seen = [l \in Loops |-> 0]
    /\ begun = [l \in Loops |-> 0]

Goes(l, from, to) == at[l] = from /\ at' = [at EXCEPT ![l] = to]

\* UpdateMemStats, under the lock of the statistics.
Sample(l) ==
    /\ Goes(l, "waiting", "sampled")
    /\ usage' \in Usages
    /\ samples' = Append(IF Len(samples) >= SampleCap THEN Tail(samples)
                         ELSE samples, usage')
    /\ UNCHANGED <<clock, lastCleanup, seen, begun>>

\* monitorMemory reads the usage, under the same lock ...
Look(l) ==
    /\ Goes(l, "sampled", "looked")
    /\ seen' = [seen EXCEPT ![l] = usage]
    /\ UNCHANGED <<clock, usage, samples, lastCleanup, begun>>

\* ... and then the time of the last cleanup, under none.
CleanupDue(l) == seen[l] > Threshold /\ clock - lastCleanup > MinInterval

BeginCleanup(l) ==
    /\ CleanupDue(l)
    /\ Goes(l, "looked", "cleaning")
    /\ begun' = [begun EXCEPT ![l] = clock]
    /\ UNCHANGED <<clock, usage, samples, lastCleanup, seen>>

NoCleanup(l) ==
    /\ ~CleanupDue(l)
    /\ Goes(l, "looked", "waiting")
    /\ UNCHANGED <<clock, usage, samples, lastCleanup, seen, begun>>

\* The collection has taken its time.
ButWhenDue(l) == lastCleanup + MinInterval
CleanupTime(l) == clock

EndCleanup(l) ==
    /\ Goes(l, "cleaning", "waiting")
    /\ lastCleanup' = CleanupTime(l)
    /\ UNCHANGED <<clock, usage, samples, seen, begun>>

\* The context of Start is done.
Finish(l) ==
    /\ Goes(l, "waiting", "finished")
    /\ UNCHANGED <<clock, usage, samples, lastCleanup, seen, begun>>

TimePasses ==
    /\ clock < MaxClock                                      \* model bound
    /\ clock' = clock + 1
    /\ UNCHANGED <<usage, samples, lastCleanup, at, seen, begun>>

MonitorNext ==
    \/ TimePasses
    \/ \E l \in Loops : \/ Sample(l) \/ Look(l) \/ BeginCleanup(l)
                        \/ NoCleanup(l) \/ EndCleanup(l) \/ Finish(l)

MonitorSpec == MonitorInit /\ [][MonitorNext]_monitorVars

-----------------------------------------------------------------------------
(* Properties. *)

\* However the loops interleave and however long a collection takes, each one
\* leaves more than the minimum interval between two of its cleanups, and
\* before its first one; the history of samples ends with the current usage
\* and stays within its limit (monitorMemory, UpdateMemStats).
CleanupIsRationed ==
    [][/\ \A l \in Loops : begun'[l] # begun[l]
                             => begun'[l] - begun[l] > MinInterval
       /\ Len(samples') \in Len(samples)..SampleCap
       /\ usage' # usage => samples'[Len(samples')] = usage'
      ]_monitorVars
=============================================================================
