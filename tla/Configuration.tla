---------------------------- MODULE Configuration ----------------------------
(***************************************************************************)
(* The configuration of pkg/manager/config.go on its way into a manager:   *)
(* options are applied to the defaults, NewManager validates the result    *)
(* and makes its channels, and Start spawns the goroutine that monitors.   *)
(***************************************************************************)
EXTENDS Integers

CONSTANTS
    Counts,      \* worker counts and queue sizes an option may ask for
    Factors,     \* scale factors, in tenths
    Marks,       \* memory marks, in percent
    Intervals,   \* monitor intervals, in seconds
    NaN,         \* the float64 that is not a number, a factor or a mark
    MostTasks,   \* the longest task and result queues make(chan) can make
    MostSignals, \* the longest control channel it can make
    MaxOptions   \* bound on the options applied

ASSUME ConfigAssumption ==
    /\ Counts \union Intervals \subseteq Int
    /\ Factors \union Marks \subseteq Int \union {NaN}
    /\ NaN \notin Int
    /\ MostTasks \in Nat
    /\ MostSignals \in Nat
    /\ MaxOptions \in Nat

VARIABLES
    config,   \* the configuration
    phase,    \* how far it has come
    options   \* how many options were applied

configVars == <<config, phase, options>>

DefaultConfig ==
    [initial |-> 4, max |-> 32, min |-> 1, queue |-> 1000, up |-> 15,
     down |-> 5, low |-> 30, high |-> 70, interval |-> 5]

ConfigInit ==
    /\ config = DefaultConfig
    /\ phase = "building"
    /\ options = 0

ValidCounts(c) ==
    /\ c.initial > 0 /\ c.max > 0 /\ c.min > 0
    /\ c.initial >= c.min /\ c.initial <= c.max

\* What Validate refuses of a factor or a mark are comparisons that hold, and
\* none holds of NaN.
Compares(x, y) == x # NaN /\ y # NaN
Below(x, y) == Compares(x, y) /\ x < y

ValidFactors(c) ==
    ~Below(c.up, 10) /\ ~Below(10, c.down) /\ ~Below(c.down, 1)

ValidMarks(c) ==
    /\ ~Below(c.low, 0) /\ ~Below(100, c.low)
    /\ ~Below(c.high, 0) /\ ~Below(100, c.high)
    /\ Compares(c.low, c.high) => c.low < c.high

ButNotTheInitial(c) == c.max > 0 /\ c.min > 0 /\ c.min <= c.max
ValidWorkers(c) == c.min <= c.max /\ ValidCounts(c)

\* The error-free result of Validate.
Accepted(c) == ValidWorkers(c) /\ ValidFactors(c) /\ ValidMarks(c)

\* What make(chan T, n) and time.NewTicker(d) panic on: the queues are made by
\* NewManager, the control channel by NewResourceController.
BadCapacity(c) == c.queue \notin 0..MostTasks \/ c.max \notin 0..MostSignals
BadTicker(c) == c.interval <= 0

\* From this usage on the controller halves the workers and asks for a pause.
CriticalMark(c) ==
    IF c.high = NaN THEN NaN
    ELSE IF 3 * c.high > 190 THEN 95 ELSE (3 * c.high + 1) \div 2

-----------------------------------------------------------------------------
\* The options of ConfigWithOptions that set a number this module tells apart.
Settings ==
    \/ \E n \in Counts : \/ config' = [config EXCEPT !.initial = n]
                         \/ config' = [config EXCEPT !.max = n]
                         \/ config' = [config EXCEPT !.min = n]
                         \/ config' = [config EXCEPT !.queue = n]
    \/ \E f, g \in Factors : config' = [config EXCEPT !.up = f, !.down = g]
    \/ \E l, h \in Marks : config' = [config EXCEPT !.low = l, !.high = h]
    \/ \E d \in Intervals : config' = [config EXCEPT !.interval = d]

ApplyOption ==
    /\ phase = "building"
    /\ options < MaxOptions                                  \* model bound
    /\ Settings
    /\ options' = options + 1
    /\ UNCHANGED phase

NewManager ==
    /\ phase = "building"
    /\ phase' = IF ~Accepted(config) THEN "rejected"
                ELSE IF BadCapacity(config) THEN "crashed" ELSE "made"
    /\ UNCHANGED <<config, options>>

\* Start succeeds, and monitorResources makes its ticker in a goroutine of its
\* own, whose panic nothing recovers.
StartManager ==
    /\ phase = "made"
    /\ phase' = IF BadTicker(config) THEN "crashed" ELSE "monitored"
    /\ UNCHANGED <<config, options>>

ConfigNext == ApplyOption \/ NewManager \/ StartManager

ConfigSpec == ConfigInit /\ [][ConfigNext]_configVars

-----------------------------------------------------------------------------
(* Properties. *)

\* What the other modules assume of the worker counts holds of every
\* configuration that comes through NewManager: Pool gets the size it is asked
\* for, the controller starts within its bounds and grows by at least 1.0.  A
\* usage above the critical mark is above the low and the high mark; but a mark
\* past 95% may exceed the critical mark, which is capped there, and NaN, which
\* Validate lets through as any of the marks and factors, promises nothing.
\* Validate also lets through a queue size or a number of workers for which
\* there can be no channel, and an interval that is not positive; these, and
\* nothing else of a configuration, end the process (NewManager,
\* NewResourceController, monitorResources).
ValidConfigIsUsable ==
    /\ phase \in {"made", "monitored"} =>
         /\ config.min \in 1..config.initial
         /\ config.initial \in 1..config.max
         /\ config.max <= MostSignals
         /\ config.queue \in 0..MostTasks
         /\ config.up # NaN => config.up >= 10
         /\ config.high # NaN /\ config.high <= 95 =>
              CriticalMark(config) >= config.high
         /\ Compares(config.low, config.high) /\ config.low <= 95 =>
              CriticalMark(config) >= config.low
    /\ phase = "crashed" => BadCapacity(config) \/ BadTicker(config)
    /\ phase = "monitored" => ~BadCapacity(config) /\ ~BadTicker(config)
=============================================================================
