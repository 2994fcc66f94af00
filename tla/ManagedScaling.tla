---------------------------- MODULE ManagedScaling ----------------------------
(***************************************************************************)
(* A manager together with its resource controller: every successful Start *)
(* spawns a goroutine that runs Manager.monitorResources, the monitor of   *)
(* that number in module ResourceController; ForceScaleWorkers and the     *)
(* calls that switch scaling on and off go to the controller, started or   *)
(* not.  Nothing runs ResourceMonitor.Start, so the usage the controller   *)
(* reads stays at its initial 0%, and nothing reads its two channels.      *)
(***************************************************************************)
EXTENDS Manager

CONSTANTS
    Hands,       \* goroutines that call ForceScaleWorkers
    Wishes,      \* the deltas they ask for
    NoOne,
    MinWorkers,
    MaxConsecutiveScales,
    FactorNum,
    FactorDen,
    HistoryCap,
    MaxJobs      \* bound on the adjustments begun

VARIABLES
    mon,         \* where the monitor of each Start is
    active, enabled, lock, ups, history, signals, paused, mem, cooling, ctlPc,
    job, jobs, rigged, net, lost, misled, grown, late

ctlVars == <<active, enabled, lock, ups, history, signals, paused, mem,
             cooling, ctlPc, job, jobs, rigged, net, lost, misled, grown, late>>
managedVars == <<allVars, mon, ctlVars>>

\* NewResourceController gets the configuration the pool was made from.
Ctl == INSTANCE ResourceController WITH
    Monitors <- Processors,
    Callers <- Hands,
    Requests <- {[delta |-> d, why |-> "manual scaling"] : d \in Wishes},
    MaxWorkers <- MaxSize,
    InitialWorkers <- InitialSize,
    pc <- ctlPc

ASSUME ManagedAssumption == Ctl!ControllerAssumption

ManagedInit ==
    /\ MgrInit
    /\ Ctl!CtlInit
    /\ mon = [g \in Processors |-> "absent"]

-----------------------------------------------------------------------------
\* The manager's own steps: a Start that succeeds spawns a monitor, and the
\* controller lives on through every restart.
Manage ==
    /\ MgrNext
    /\ mon' = [g \in Processors |->
                 IF starts < g /\ g <= starts' THEN "running" ELSE mon[g]]
    /\ UNCHANGED ctlVars

\* monitorResources: the select takes a tick or, once it is closed, shutdownCh;
\* a tick that finds nothing to do changes nothing.
MonitorTicks(g) ==
    /\ Alive
    /\ mon[g] = "running"
    /\ Ctl!Tick(g)
    /\ UNCHANGED <<allVars, mon>>

MonitorAdjusts(g) ==
    /\ Alive
    /\ mon[g] = "running"
    /\ ctlPc[g] # "idle"
    /\ Ctl!Monitor(g) \/ Ctl!Adjust(g)
    /\ UNCHANGED <<allVars, mon>>

ButWhenStopped == ~mstarted
MonitorMayEnd == shutdown

MonitorEnds(g) ==
    /\ Alive
    /\ mon[g] = "running"
    /\ ctlPc[g] = "idle"
    /\ MonitorMayEnd
    /\ mon' = [mon EXCEPT ![g] = "exited"]
    /\ UNCHANGED <<allVars, ctlVars>>

\* ForceScaleWorkers.
HandCalls(c) ==
    /\ Alive
    /\ \E d \in Wishes : Ctl!Call(c, [delta |-> d, why |-> "manual scaling"])
    /\ UNCHANGED <<allVars, mon>>

HandAdjusts(c) == Alive /\ Ctl!Adjust(c) /\ UNCHANGED <<allVars, mon>>

\* EnableDynamicScaling, DisableDynamicScaling.
SwitchScaling == Alive /\ Ctl!SetScaling /\ UNCHANGED <<allVars, mon>>

CooldownElapses(c) ==
    Alive /\ Ctl!CooldownElapses(c) /\ UNCHANGED <<allVars, mon>>

Controlled ==
    \/ \E g \in Processors : \/ MonitorTicks(g)
                             \/ MonitorAdjusts(g)
                             \/ MonitorEnds(g)
    \/ \E c \in Hands : HandCalls(c) \/ HandAdjusts(c)
    \/ SwitchScaling
    \/ \E c \in {"scale down", "scale up"} : CooldownElapses(c)

ManagedNext == Manage \/ Controlled

ManagedSpec == ManagedInit /\ [][ManagedNext]_managedVars

\* A goroutine waiting for the controller's lock gets it (a Go mutex starves
\* nobody), one that holds it goes on, and a select with several cases ready
\* does not for ever pass over one of them.
ManagedFairness ==
    /\ \A g \in Processors : SF_managedVars(MonitorAdjusts(g))
    /\ \A g \in Processors : SF_managedVars(MonitorEnds(g))
    /\ \A c \in Hands : WF_managedVars(HandAdjusts(c))

ManagedFairSpec == ManagedSpec /\ ManagedFairness

\* The goroutines of the manager and its pool go on as well.
WholeFairSpec == ManagedFairSpec /\ MgrFairness

-----------------------------------------------------------------------------
(* Properties. *)

\* Only a shutdown makes generations of monitors overlap, for they all watch one
\* shutdownCh: until then one monitor decides on growth, at most once in a
\* cooldown and MaxConsecutiveScales times in a row (Manager.Start,
\* monitorResources, handleLowMemoryUsage).
OneMonitorUntilShutdown ==
    ~shutdown => grown <= 1 /\ (~rigged => ups <= MaxConsecutiveScales)

\* After a shutdown the monitors end, from wherever they are in an adjustment,
\* and so does that of a later Start, which finds shutdownCh closed.
MonitorsEnd ==
    shutdown ~> panicked \/ \A g \in Processors : mon[g] # "running"

-----------------------------------------------------------------------------
(* What the documentation says, and the code does not do. *)

\* "The WorkerPool adjusts its worker count in response"
\* (docs/architecture.md:40): a running pool that nobody is changing comes to
\* the controller's count, again and again.
PoolFollowsController ==
    []<>(panicked \/ ~started \/ op # "none" \/ Cardinality(workers) = active)
=============================================================================
