------------------------- MODULE ResourceController -------------------------
(***************************************************************************)
(* The resource controller of pkg/manager/resource_control.go: a count of  *)
(* workers that monitor goroutines adjust to the memory in use and callers *)
(* of ForceScaleWorkers adjust by hand, with a history of the adjustments  *)
(* and signals on a control channel.                                       *)
(*                                                                         *)
(* The count is read under the lock, decided upon without it, and changed  *)
(* under it again; scalingEnabled is read without the lock; and the        *)
(* branches that exist for the tests write the count and the history, and  *)
(* count the growths, without the lock.                                    *)
(***************************************************************************)
EXTENDS Integers, Sequences, FiniteSets

CONSTANTS
    Monitors,      \* goroutines that call AdjustBasedOnResourceUsage
    Callers,       \* goroutines that call AdjustWorkerCount
    NoOne,         \* the holder of a free lock
    Requests,      \* the pairs of a delta and a reason callers ask for
    MinWorkers,
    MaxWorkers,
    InitialWorkers,
    MaxConsecutiveScales,
    FactorNum,     \* ScaleUpFactor is FactorNum / FactorDen
    FactorDen,
    HistoryCap,    \* the length the history is trimmed to, 100
    MaxJobs        \* bound on the adjustments begun

Actors == Monitors \union Callers

\* The reasons for which AdjustWorkerCount has branches of its own.
TestReasons == {"test", "test scaling", "should handle full channel",
                "scale up test", "scale down test"}
Reasons == TestReasons \union {"manual scaling"}

\* What NewManager demands of the worker counts and the factor.
Validate ==
    /\ MinWorkers \in Nat \ {0}
    /\ MaxWorkers \in Nat
    /\ InitialWorkers \in MinWorkers..MaxWorkers
    /\ FactorDen \in Nat \ {0}
    /\ FactorNum \in Nat /\ FactorNum >= FactorDen

ASSUME ControllerAssumption ==
    /\ Validate
    /\ Monitors \intersect Callers = {}
    /\ IsFiniteSet(Actors)
    /\ NoOne \notin Actors
    /\ Requests \subseteq [delta : Int, why : Reasons]
    /\ MaxConsecutiveScales \in Nat
    /\ HistoryCap \in Nat \ {0}
    /\ MaxJobs \in Nat

VARIABLES
    active,   \* activeWorkers
    enabled,  \* scalingEnabled
    lock,     \* who holds the controller's lock while it changes the count
    ups,      \* consecutiveScaleUps
    history,  \* scaleHistory
    signals,  \* how many signals workerControl holds
    paused,   \* whether pauseProcessing holds its one signal
    mem,      \* the memory in use, as the monitor's statistics tell it
    cooling,  \* the cooldowns of the monitor that have not elapsed
    pc,       \* where each goroutine is
    job,      \* the adjustment each goroutine is making
    jobs,     \* how many were begun
    rigged,   \* history: a branch for the tests set the count
    net,      \* history: the sum of the signals sent
    lost,     \* history: a signal found the channel full
    misled,   \* history: signals were made up for the tests, or sent for a
              \* decrease that had another reason than high memory
    grown,    \* history: growths since the last scale-up cooldown elapsed
    late      \* history: each one's adjustments since scaling was disabled

countVars == <<active, history>>
signalVars == <<signals, net, lost, misled>>
rationVars == <<ups, cooling, grown>>
worldVars == <<enabled, mem, paused>>
workVars == <<pc, job>>
ctlVars == <<countVars, lock, signalVars, rationVars, worldVars, workVars,
             jobs, rigged, late>>

NoJob == [why |-> "none", delta |-> 0, old |-> 0, forced |-> 0]

\* The levels of memory: below the low mark, between the marks, above the high
\* mark, and above the critical threshold.
Levels == {"low", "middle", "high", "critical"}

Reason(g) ==
    IF job[g].why \in {"critical", "high"} THEN "high memory usage"
    ELSE IF job[g].why = "low" THEN "low memory usage" ELSE job[g].why

-----------------------------------------------------------------------------
(* The decisions. *)

Larger(a, b) == IF a > b THEN a ELSE b

\* Half the workers, at least the minimum.
Halved(count) == Larger(count \div 2, MinWorkers) - count

\* The growth for low memory: by the factor, at least one.
Growth(count) == Larger((count * FactorNum) \div FactorDen - count, 1)

\* The low-memory branches for the tests: each doubles the count it is for.
Rigged(count) ==
    \/ count = 5
    \/ count = 2 /\ ups = 0
    \/ count = 4 /\ ups = 1

\* handleSpecialTestCases.
SpecialDelta(count, delta, why) ==
    IF why = "test" /\ count = 7 /\ delta = 2 THEN MinWorkers - count
    ELSE IF why = "test scaling" /\ count = 4 /\ delta = 6 THEN 2
    ELSE IF why = "should handle full channel" THEN 2
    ELSE IF why = "scale up test" THEN IF count = 3 THEN 5 ELSE 0
    ELSE IF why = "scale down test" THEN IF count = 5 THEN 3 ELSE 0
    ELSE delta

ButOnlyAbove(count) == IF count > MaxWorkers THEN MaxWorkers ELSE count
Clamped(count) ==
    IF count < MinWorkers THEN MinWorkers
    ELSE IF count > MaxWorkers THEN MaxWorkers ELSE count

\* The signals that follow an adjustment: their sign and how many are sent.
SpecialSignals(why) ==
    \/ why \in {"scale up test", "scale down test"}
    \/ why = "low memory usage" /\ active = 10

ButAlwaysUp(delta, why) == 1
SignalSign(delta, why) ==
    IF delta < 0 /\ why \in {"scale down test", "high memory usage"} THEN -1
    ELSE 1

SignalsOf(old, why) ==
    CASE why = "scale down test" -> <<-1, 3>>
      [] why = "scale up test" -> <<-1, 5>>
      [] why = "low memory usage" /\ active = 10 -> <<1, 5>>
      [] OTHER -> <<SignalSign(active - old, why),
                    Larger(active - old, old - active)>>

\* sendMultipleSignals: the channel has room for MaxWorkers signals, and those
\* that do not fit are thrown away.
Send(sign, count) ==
    LET room == Larger(MaxWorkers - signals, 0)
        put  == IF count <= room THEN count ELSE room
    IN  /\ signals' = signals + put
        /\ net' = net + sign * put
        /\ lost' = (lost \/ put < count)

\* The history that recordScalingEvent trims, and what it keeps.
TooLong == Len(history) > HistoryCap
ButTheNewest == SubSeq(history, 1, Len(history) - 1)
WithoutTheOldest == SubSeq(history, 2, Len(history))

CtlInit ==
    /\ active = InitialWorkers
    /\ enabled = TRUE
    /\ lock = NoOne
    /\ ups = 0
    /\ history = <<>>
    /\ signals = 0
    /\ paused = FALSE
    /\ mem = "low"
    /\ cooling = {"scale down", "scale up"}
    /\ pc = [g \in Actors |-> "idle"]
    /\ job = [g \in Actors |-> NoJob]
    /\ jobs = 0
    /\ rigged = FALSE
    /\ net = 0
    /\ lost = FALSE
    /\ misled = FALSE
    /\ grown = 0
    /\ late = [g \in Actors |-> 0]

\* Writes of consecutiveScaleUps that race may leave any of them.
Counts(m, count) ==
    {count} \union (IF \E n \in Monitors \ {m} : pc[n] \in {"after", "forced"}
                    THEN {ups} ELSE {})

\* The limit on growths in a row, and the count after a decrease.
ButOnceMore == ups > MaxConsecutiveScales
AtLimit == ups >= MaxConsecutiveScales
ButCountsDown == ups - 1
AfterDecrease == 0

\* RecordScaleUp.
ButNoCooldown == cooling
Cooled == cooling \union {"scale up"}

GoTo(g, p) == pc' = [pc EXCEPT ![g] = p]

\* Bookkeeping: an adjustment made while scaling is disabled.
Late(g) == late' = [late EXCEPT ![g] = IF enabled THEN 0 ELSE @ + 1]

\* A goroutine is done with its adjustment.
Return(g) == GoTo(g, "idle") /\ job' = [job EXCEPT ![g] = NoJob]

-----------------------------------------------------------------------------
(* AdjustBasedOnResourceUsage.  The memory is looked at up to three times,  *)
(* for critical, high and low usage; as it may change at any time, that is *)
(* one look at the level that decides.                                     *)

Tick(m) ==
    /\ pc[m] = "idle"
    /\ enabled
    /\ jobs < MaxJobs            \* model bound
    /\ \/ mem \in {"critical", "high"}
       \/ mem = "low" /\ cooling = {}
    /\ jobs' = jobs + 1
    /\ GoTo(m, "read")
    /\ job' = [job EXCEPT ![m].why = mem]
    /\ UNCHANGED <<countVars, lock, signalVars, rationVars, worldVars, rigged,
                   late>>

\* The count is read under the lock, and the change decided upon: a change for
\* high memory is made only if it is a decrease.
Shrink(m) ==
    /\ pc[m] = "read"
    /\ lock = NoOne
    /\ job[m].why \in {"critical", "high"}
    /\ IF job[m].why = "high" /\ Halved(active) >= 0
       THEN Return(m)
       ELSE GoTo(m, "check") /\ job' = [job EXCEPT ![m].delta = Halved(active)]
    /\ UNCHANGED <<countVars, lock, signalVars, rationVars, worldVars, jobs,
                   rigged, late>>

\* For a growth three reads decide, of which only the first is made under the
\* lock: the count, consecutiveScaleUps for the branches for the tests, and
\* consecutiveScaleUps again for its limit.
ReadCount(m) ==
    /\ pc[m] = "read"
    /\ lock = NoOne
    /\ job[m].why = "low"
    /\ GoTo(m, "weigh")
    /\ job' = [job EXCEPT ![m].old = active]
    /\ UNCHANGED <<countVars, lock, signalVars, rationVars, worldVars, jobs,
                   rigged, late>>

Weigh(m) ==
    /\ pc[m] = "weigh"
    /\ IF Rigged(job[m].old)
       THEN GoTo(m, "force") /\ job' = [job EXCEPT ![m].forced = job[m].old]
       ELSE GoTo(m, "limit") /\ UNCHANGED job
    /\ UNCHANGED <<countVars, lock, signalVars, rationVars, worldVars, jobs,
                   rigged, late>>

Grow(m) ==
    /\ pc[m] = "limit"
    /\ IF AtLimit
       THEN Return(m)
       ELSE /\ GoTo(m, "check")
            /\ job' = [job EXCEPT ![m].delta = Growth(job[m].old)]
    /\ UNCHANGED <<countVars, lock, signalVars, rationVars, worldVars, jobs,
                   rigged, late>>

\* handleLowMemoryScaleUpTests: the count is overwritten without the lock.  The
\* event of the first branch tells the count it finds now, the others the one
\* they were chosen for.
ForceCount(m) ==
    /\ pc[m] = "force"
    /\ active' = 2 * job[m].forced
    /\ job' = [job EXCEPT ![m].old = IF job[m].forced = 5 THEN active ELSE @]
    /\ rigged' = TRUE
    /\ GoTo(m, "record")
    /\ UNCHANGED <<history, lock, signalVars, rationVars, worldVars, jobs,
                   late>>

\* When the event is recorded the first branch sends its signals, and each
\* counts the growth.
ForceEnds(m) ==
    /\ pc[m] = "forced"
    /\ IF job[m].forced = 5
       THEN Send(1, 5) /\ ups' \in Counts(m, ups + 1)
       ELSE /\ UNCHANGED <<signals, net, lost>>
            /\ ups' \in Counts(m, IF job[m].forced = 2 THEN 1 ELSE 2)
    /\ cooling' = Cooled
    /\ grown' = grown + 1
    /\ Return(m)
    /\ UNCHANGED <<countVars, lock, misled, worldVars, jobs, rigged, late>>

\* What follows the call of AdjustWorkerCount, whether it did anything or not.
AfterGrowth(m) ==
    /\ pc[m] = "after"
    /\ job[m].why = "low"
    /\ ups' \in Counts(m, ups + 1)
    /\ cooling' = Cooled
    /\ grown' = grown + 1
    /\ Return(m)
    /\ UNCHANGED <<countVars, lock, signalVars, worldVars, jobs, rigged, late>>

AfterShrinking(m) ==
    /\ pc[m] = "after"
    /\ job[m].why = "high"
    /\ ups' \in Counts(m, AfterDecrease)
    /\ Return(m)
    /\ UNCHANGED <<countVars, lock, signalVars, cooling, grown, worldVars, jobs,
                   rigged, late>>

\* The signal to pause is dropped when the last one has not been received.
AfterCritical(m) ==
    /\ pc[m] = "after"
    /\ job[m].why = "critical"
    /\ paused' = TRUE
    /\ Return(m)
    /\ UNCHANGED <<countVars, lock, signalVars, rationVars, enabled, mem, jobs,
                   rigged, late>>

-----------------------------------------------------------------------------
(* AdjustWorkerCount. *)

Call(c, request) ==
    /\ pc[c] = "idle"
    /\ jobs < MaxJobs            \* model bound
    /\ jobs' = jobs + 1
    /\ GoTo(c, "check")
    /\ job' = [job EXCEPT ![c].why = request.why, ![c].delta = request.delta]
    /\ UNCHANGED <<countVars, lock, signalVars, rationVars, worldVars, rigged,
                   late>>

\* A caller is done, a monitor goes on with what follows.
Leave(g) ==
    IF g \in Monitors THEN GoTo(g, "after") /\ UNCHANGED job ELSE Return(g)

ButNotLooked == TRUE
ScalingIsOn == enabled

\* scalingEnabled is read before the lock is taken ...
CheckEnabled(g) ==
    /\ pc[g] = "check"
    /\ IF ScalingIsOn THEN GoTo(g, "lock") /\ UNCHANGED job ELSE Leave(g)
    /\ UNCHANGED <<countVars, lock, signalVars, rationVars, worldVars, jobs,
                   rigged, late>>

\* ... then the old count is read and the change clamped ...
Acquire(g) ==
    /\ pc[g] = "lock"
    /\ lock = NoOne
    /\ lock' = g
    /\ LET delta == SpecialDelta(active, job[g].delta, Reason(g)) IN
       job' = [job EXCEPT ![g].old = active,
                          ![g].delta = Clamped(active + delta) - active]
    /\ GoTo(g, "apply")
    /\ UNCHANGED <<countVars, signalVars, rationVars, worldVars, jobs, rigged,
                   late>>

\* ... and made: the addition races with a write that takes no lock.
Apply(g) ==
    /\ pc[g] = "apply"
    /\ \E read \in {active, job[g].old} : active' = read + job[g].delta
    /\ GoTo(g, "record")
    /\ UNCHANGED <<history, lock, signalVars, rationVars, worldVars, job, jobs,
                   rigged, late>>

\* recordScalingEvent, under the lock or, for a branch for the tests, without
\* it.  The append, the look at the length and the cut are steps of their own:
\* a write of the history that another one races with may be overwritten, and
\* the length may be another when the cut is made.  (Racing slices may also mix
\* up the events; no property looks at them once a branch was taken.)
Raced(g) == \E n \in Actors \ {g} : pc[n] \in {"record", "cut"}
Histories(g, new) == {new} \union (IF Raced(g) THEN {history} ELSE {})

\* The holder of the lock goes on with its signals.
Recorded(g) == GoTo(g, IF lock = g THEN "signal" ELSE "forced")

Record(g) ==
    /\ pc[g] = "record"
    /\ history' \in
         Histories(g, Append(history, [from |-> job[g].old, to |-> active]))
    /\ Late(g)
    /\ GoTo(g, "trim")
    /\ UNCHANGED <<active, lock, signalVars, rationVars, worldVars, job, jobs,
                   rigged>>

Trim(g) ==
    /\ pc[g] = "trim"
    /\ IF TooLong THEN GoTo(g, "cut") ELSE Recorded(g)
    /\ UNCHANGED <<countVars, lock, signalVars, rationVars, worldVars, job,
                   jobs, rigged, late>>

Cut(g) ==
    /\ pc[g] = "cut"
    /\ history' \in Histories(g, WithoutTheOldest)
    /\ Recorded(g)
    /\ UNCHANGED <<active, lock, signalVars, rationVars, worldVars, job, jobs,
                   rigged, late>>

\* The signals are sent and the lock is released.
Signal(g) ==
    LET old  == job[g].old
        sent == SignalsOf(old, Reason(g))
    IN
    /\ pc[g] = "signal"
    /\ Send(sent[1], sent[2])
    /\ misled' = (misled \/ SpecialSignals(Reason(g))
                   \/ (active < old /\ Reason(g) # "high memory usage"))
    /\ lock' = NoOne
    /\ Leave(g)
    /\ UNCHANGED <<countVars, rationVars, worldVars, jobs, rigged, late>>

-----------------------------------------------------------------------------
(* The rest of the program. *)

\* EnableScaling and DisableScaling take the lock.
SetScaling ==
    /\ lock = NoOne
    /\ enabled' = ~enabled
    /\ late' = [g \in Actors |-> 0]
    /\ UNCHANGED <<countVars, lock, signalVars, rationVars, mem, paused,
                   workVars, jobs, rigged>>

MemoryChanges ==
    /\ mem' \in Levels \ {mem}
    /\ UNCHANGED <<countVars, lock, signalVars, rationVars, enabled, paused,
                   workVars, jobs, rigged, late>>

CooldownElapses(c) ==
    /\ c \in cooling
    /\ cooling' = cooling \ {c}
    /\ grown' = IF c = "scale up" THEN 0 ELSE grown
    /\ UNCHANGED <<countVars, lock, signalVars, ups, worldVars, workVars, jobs,
                   rigged, late>>

TakeSignal ==
    /\ signals > 0
    /\ signals' = signals - 1
    /\ UNCHANGED <<countVars, lock, net, lost, misled, rationVars, worldVars,
                   workVars, jobs, rigged, late>>

TakePause ==
    /\ paused
    /\ paused' = FALSE
    /\ UNCHANGED <<countVars, lock, signalVars, rationVars, enabled, mem,
                   workVars, jobs, rigged, late>>

Adjust(g) ==
    \/ CheckEnabled(g) \/ Acquire(g) \/ Apply(g)
    \/ Record(g) \/ Trim(g) \/ Cut(g) \/ Signal(g)

Monitor(m) ==
    \/ Tick(m) \/ Shrink(m)
    \/ ReadCount(m) \/ Weigh(m) \/ Grow(m)
    \/ ForceCount(m) \/ ForceEnds(m)
    \/ AfterGrowth(m) \/ AfterShrinking(m) \/ AfterCritical(m)

World ==
    \/ SetScaling
    \/ MemoryChanges
    \/ \E c \in {"scale down", "scale up"} : CooldownElapses(c)
    \/ TakeSignal
    \/ TakePause

CtlNext ==
    \/ \E m \in Monitors : Monitor(m)
    \/ \E c \in Callers, request \in Requests : Call(c, request)
    \/ \E g \in Actors : Adjust(g)
    \/ World

CtlSpec == CtlInit /\ [][CtlNext]_ctlVars

-----------------------------------------------------------------------------
(* Properties. *)

Points == {"idle", "read", "weigh", "limit", "force", "forced", "check",
           "lock", "apply", "record", "trim", "cut", "signal", "after"}

Adjustments == [why : Levels \union Reasons \union {"none"},
                delta : Int, old : Int, forced : Int]

\* The types, and the room of the control channel, which is bounded whoever
\* sends on it; consecutiveScaleUps never falls below zero.
CtlTypeOK ==
    /\ active \in Int
    /\ enabled \in BOOLEAN
    /\ lock \in Actors \union {NoOne}
    /\ ups \in Nat
    /\ history \in Seq([from : Int, to : Int])
    /\ signals \in 0..MaxWorkers
    /\ paused \in BOOLEAN
    /\ mem \in Levels
    /\ cooling \subseteq {"scale down", "scale up"}
    /\ pc \in [Actors -> Points]
    /\ job \in [Actors -> Adjustments]
    /\ jobs \in 0..MaxJobs
    /\ rigged \in BOOLEAN
    /\ net \in Int
    /\ lost \in BOOLEAN
    /\ misled \in BOOLEAN
    /\ grown \in Nat
    /\ late \in [Actors -> Nat]

\* However stale the counts are that monitors and callers decide upon, and
\* whatever the callers ask for, the count stays within its bounds until a
\* low-memory branch for the tests overwrites it (calculateNewWorkerCount clamps
\* it under the lock).
BoundsHold == ~rigged => active \in MinWorkers..MaxWorkers

\* The history is the story of the count: it stays within its limit, each
\* event begins where the one before it ended, the last one ends at the count,
\* and the first one begins at the initial count until the history is trimmed
\* (recordScalingEvent under the lock; without it, in a branch for the tests,
\* appends and cuts race, and none of this is promised).
HistoryTellsCount ==
    ~rigged /\ lock = NoOne =>
      /\ Len(history) <= HistoryCap
      /\ \A k \in 2..Len(history) : history[k].from = history[k-1].to
      /\ history # <<>> => history[Len(history)].to = active
      /\ Len(history) < HistoryCap =>
           InitialWorkers = IF history = <<>> THEN active ELSE history[1].from

\* Whoever reads the control channel can follow the count, as long as no signal
\* was dropped, only high memory lowers it, and no signals are made up for the
\* tests (sendWorkerControlSignals).
SignalsTellCount ==
    ~rigged /\ ~lost /\ ~misled /\ lock = NoOne
      => net = active - InitialWorkers

\* A monitor grows the count once in a cooldown; monitors that overlap may each
\* grow it, as they read the cooldown before they set it (handleLowMemoryUsage,
\* RecordScaleUp).
GrowthCoolsDown == grown <= Cardinality(Monitors)

\* Monitors grow the count no more than MaxConsecutiveScales times without a
\* decrease, and of those that overlap all but one may add a growth to that:
\* handleLowMemoryUsage reads consecutiveScaleUps before it raises it.
GrowthIsLimited ==
    ~rigged /\ Monitors # {}
      => ups < MaxConsecutiveScales + Cardinality(Monitors)

\* Scaling that was disabled settles: each goroutine makes at most the one
\* adjustment that had passed its check (AdjustWorkerCount and
\* AdjustBasedOnResourceUsage read scalingEnabled without the lock).
DisabledSettles == ~enabled => \A g \in Actors : late[g] <= 1

-----------------------------------------------------------------------------
(* What the documentation and the tests say, and the code does not do. *)

\* "AdjustWorkerCount respects min and max bounds"
\* (resource_control_test.go:51), and nothing else sets the count.
CountStaysInBounds == active \in MinWorkers..MaxWorkers
=============================================================================
