--------------------------- MODULE ResourceProofs ---------------------------
(***************************************************************************)
(* What holds of the worker count for any number of monitors and callers,  *)
(* any requests and any valid configuration: its bounds, the history and   *)
(* the signals that tell it, the ration of its growth, and that scaling    *)
(* that was disabled settles.                                              *)
(***************************************************************************)
EXTENDS ResourceController, FiniteSetTheorems, SequenceTheorems, TLAPS

\* Whoever changes the count under the lock or sends its signals has the lock.
LockHeld == \A g \in Actors : pc[g] \in {"apply", "signal"} => lock = g

\* Until a branch for the tests is taken, the count the holder read is still the
\* count, and the clamped change keeps it within its bounds.
HolderKeepsBounds ==
    ~rigged => \A g \in Actors : pc[g] = "apply" =>
                 /\ job[g].old = active
                 /\ active + job[g].delta \in MinWorkers..MaxWorkers

\* What the typing of the variables contributes.
BoundsTypes ==
    /\ active \in Int
    /\ rigged \in BOOLEAN
    /\ pc \in [Actors -> Points]
    /\ job \in [Actors -> Adjustments]

\* The inductive invariant behind BoundsHold.
BoundsInv ==
    /\ BoundsTypes
    /\ LockHeld
    /\ HolderKeepsBounds
    /\ BoundsHold

\* Clamping yields a count within the bounds.
LEMMA ClampedInBounds ==
    ASSUME NEW count \in Int
    PROVE  Clamped(count) \in MinWorkers..MaxWorkers
  BY ControllerAssumption DEF Validate, Clamped

\* The deltas that calculations produce are integers.
LEMMA DeltasAreIntegers ==
    ASSUME NEW count \in Int, NEW delta \in Int, NEW why
    PROVE  /\ Halved(count) \in Int
           /\ Growth(count) \in Int
           /\ SpecialDelta(count, delta, why) \in Int
  <1>1. count \div 2 \in Int
    OBVIOUS
  <1>2. Halved(count) \in Int
    BY <1>1, ControllerAssumption DEF Validate, Halved, Larger
  <1>3. (count * FactorNum) \div FactorDen \in Int
    <2>1. count * FactorNum \in Int
      BY ControllerAssumption DEF Validate
    <2> QED
      BY <2>1, ControllerAssumption DEF Validate
  <1>4. Growth(count) \in Int
    BY <1>3 DEF Growth, Larger
  <1>5. SpecialDelta(count, delta, why) \in Int
    <2>1. MinWorkers - count \in Int
      BY ControllerAssumption DEF Validate
    <2> QED
      BY <2>1 DEF SpecialDelta
  <1> QED
    BY <1>2, <1>4, <1>5

\* The count begins within its bounds.
LEMMA BoundsInit == CtlInit => BoundsInv
  <1> SUFFICES ASSUME CtlInit PROVE BoundsInv
    OBVIOUS
  <1>1. active \in MinWorkers..MaxWorkers /\ active \in Int
    <2>1. InitialWorkers \in MinWorkers..MaxWorkers /\ InitialWorkers \in Int
      BY ControllerAssumption DEF Validate
    <2> QED
      BY <2>1 DEF CtlInit
  <1>2. pc \in [Actors -> Points] /\ \A g \in Actors : pc[g] = "idle"
    BY DEF CtlInit, Points
  <1>3. NoJob \in Adjustments
    BY DEF NoJob, Adjustments
  <1>4. job \in [Actors -> Adjustments]
    BY <1>3 DEF CtlInit
  <1> QED
    BY <1>1, <1>2, <1>4
       DEF CtlInit, BoundsInv, BoundsTypes, LockHeld, HolderKeepsBounds,
           BoundsHold

\* A step that moves one goroutine anywhere but to a change of the count, and
\* touches neither the count nor the lock, keeps the invariant.
LEMMA BoundsOutside ==
    ASSUME BoundsInv, NEW g \in Actors, NEW p \in Points \ {"apply"},
           p = "signal" => lock = g,
           pc' = [pc EXCEPT ![g] = p],
           NEW j \in Adjustments,
           job' = [job EXCEPT ![g] = j],
           UNCHANGED <<active, lock, rigged>>
    PROVE  BoundsInv'
  BY DEF BoundsInv, BoundsTypes, LockHeld, HolderKeepsBounds, BoundsHold

\* A step that moves no goroutine and touches neither the count nor the lock.
LEMMA BoundsFrame ==
    ASSUME BoundsInv, UNCHANGED <<active, lock, rigged, pc, job>>
    PROVE  BoundsInv'
  BY DEF BoundsInv, BoundsTypes, LockHeld, HolderKeepsBounds, BoundsHold

\* A goroutine at rest has an adjustment of the right type.
LEMMA NoJobIsAdjustment == NoJob \in Adjustments
  BY DEF NoJob, Adjustments

\* A goroutine that returns is outside the lock.
LEMMA BoundsReturn ==
    ASSUME BoundsInv, NEW g \in Actors, Return(g),
           UNCHANGED <<active, lock, rigged>>
    PROVE  BoundsInv'
  BY BoundsOutside, NoJobIsAdjustment DEF Return, GoTo, Points

\* What a monitor decides and notes keeps the bounds.
LEMMA BoundsMonitor ==
    ASSUME BoundsInv, NEW m \in Monitors, Monitor(m)
    PROVE  BoundsInv'
  <1> m \in Actors
    BY DEF Actors
  <1>t. /\ active \in Int
        /\ job[m] \in Adjustments
        /\ job \in [Actors -> Adjustments]
    BY DEF BoundsInv, BoundsTypes
  <1>1. CASE Tick(m)
    <2>1. mem \in Levels
      BY <1>1 DEF Tick, Levels
    <2>2. job' = [job EXCEPT ![m] = [@ EXCEPT !.why = mem]]
      BY <1>1 DEF Tick
    <2>3. [job[m] EXCEPT !.why = mem] \in Adjustments
      BY <2>1, <1>t DEF Adjustments
    <2> QED
      BY <1>1, <1>t, <2>2, <2>3, BoundsOutside
         DEF Tick, GoTo, Points, countVars
  <1>2. CASE Shrink(m)
    <2>1. CASE Return(m)
      BY <1>2, <2>1, BoundsReturn DEF Shrink, countVars
    <2>2. CASE /\ GoTo(m, "check")
               /\ job' = [job EXCEPT ![m].delta = Halved(active)]
      <3>1. [job[m] EXCEPT !.delta = Halved(active)] \in Adjustments
        BY <1>t, DeltasAreIntegers DEF Adjustments
      <3> QED
        BY <1>2, <1>t, <2>2, <3>1, BoundsOutside
           DEF Shrink, GoTo, Points, countVars
    <2> QED
      BY <1>2, <2>1, <2>2 DEF Shrink
  <1>3. CASE ReadCount(m)
    <2>1. [job[m] EXCEPT !.old = active] \in Adjustments
      BY <1>t DEF Adjustments
    <2> QED
      BY <1>3, <1>t, <2>1, BoundsOutside
         DEF ReadCount, GoTo, Points, countVars
  <1>w. CASE Weigh(m)
    <2>1. CASE /\ GoTo(m, "force")
               /\ job' = [job EXCEPT ![m].forced = job[m].old]
      <3>1. [job[m] EXCEPT !.forced = job[m].old] \in Adjustments
        BY <1>t DEF Adjustments
      <3> QED
        BY <1>w, <1>t, <2>1, <3>1, BoundsOutside
           DEF Weigh, GoTo, Points, countVars
    <2>2. CASE GoTo(m, "limit") /\ UNCHANGED job
      <3>1. job' = [job EXCEPT ![m] = job[m]]
        BY <1>t, <2>2
      <3> QED
        BY <1>w, <1>t, <2>2, <3>1, BoundsOutside
           DEF Weigh, GoTo, Points, countVars
    <2> QED
      BY <1>w, <2>1, <2>2 DEF Weigh
  <1>g. CASE Grow(m)
    <2>1. CASE Return(m)
      BY <1>g, <2>1, BoundsReturn DEF Grow, countVars
    <2>2. CASE /\ GoTo(m, "check")
               /\ job' = [job EXCEPT ![m].delta = Growth(job[m].old)]
      <3>1. job[m].old \in Int
        BY <1>t DEF Adjustments
      <3>2. [job[m] EXCEPT !.delta = Growth(job[m].old)] \in Adjustments
        BY <1>t, <3>1, DeltasAreIntegers DEF Adjustments
      <3> QED
        BY <1>g, <1>t, <2>2, <3>2, BoundsOutside
           DEF Grow, GoTo, Points, countVars
    <2> QED
      BY <1>g, <2>1, <2>2 DEF Grow
  <1>4. CASE ForceCount(m)
    <2>1. active' \in Int
      BY <1>4, <1>t DEF ForceCount, Adjustments
    <2>2. job' \in [Actors -> Adjustments]
      <3>1. [job[m] EXCEPT
               !.old = IF job[m].forced = 5 THEN active ELSE job[m].old]
              \in Adjustments
        BY <1>t DEF Adjustments
      <3>2. job' = [job EXCEPT ![m] =
              [@ EXCEPT
                 !.old = IF job[m].forced = 5 THEN active ELSE job[m].old]]
        BY <1>4, <1>t DEF ForceCount, Adjustments
      <3> QED
        BY <1>t, <3>1, <3>2
    <2>3. pc' \in [Actors -> Points]
      BY <1>4 DEF ForceCount, GoTo, Points, BoundsInv, BoundsTypes
    <2>4. LockHeld'
      BY <1>4 DEF ForceCount, GoTo, BoundsInv, BoundsTypes, LockHeld
    <2>5. rigged' = TRUE
      BY <1>4 DEF ForceCount
    <2> QED
      BY <2>1, <2>2, <2>3, <2>4, <2>5
         DEF BoundsInv, BoundsTypes, HolderKeepsBounds, BoundsHold
  <1>5. CASE ForceEnds(m)
    BY <1>5, BoundsReturn DEF ForceEnds, countVars
  <1>6. CASE AfterGrowth(m)
    BY <1>6, BoundsReturn DEF AfterGrowth, countVars
  <1>7. CASE AfterShrinking(m)
    BY <1>7, BoundsReturn DEF AfterShrinking, countVars
  <1>8. CASE AfterCritical(m)
    BY <1>8, BoundsReturn DEF AfterCritical, countVars
  <1> QED
    BY <1>1, <1>2, <1>3, <1>w, <1>g, <1>4, <1>5, <1>6, <1>7, <1>8 DEF Monitor

\* What AdjustWorkerCount does keeps the bounds.
LEMMA BoundsAdjust ==
    ASSUME BoundsInv, NEW g \in Actors, Adjust(g)
    PROVE  BoundsInv'
  <1>t. /\ active \in Int
        /\ job[g] \in Adjustments
        /\ job \in [Actors -> Adjustments]
        /\ pc \in [Actors -> Points]
    BY DEF BoundsInv, BoundsTypes
  <1>n. NoOne \notin Actors
    BY ControllerAssumption
  <1>1. CASE CheckEnabled(g)
    <2>1. CASE Return(g)
      BY <1>1, <2>1, BoundsReturn DEF CheckEnabled, countVars
    <2>2. CASE UNCHANGED job /\ \E p \in {"lock", "after"} : GoTo(g, p)
      <3> PICK p \in {"lock", "after"} : GoTo(g, p)
        BY <2>2
      <3>1. job' = [job EXCEPT ![g] = job[g]]
        BY <1>t, <2>2
      <3> QED
        BY <1>1, <1>t, <3>1, BoundsOutside
           DEF CheckEnabled, GoTo, Points, countVars
    <2> QED
      BY <1>1, <2>1, <2>2 DEF CheckEnabled, Leave
  <1>2. CASE Acquire(g)
    <2> DEFINE changed == active + SpecialDelta(active, job[g].delta, Reason(g))
               delta == Clamped(changed) - active
    <2>1. changed \in Int
      BY <1>t, DeltasAreIntegers DEF Adjustments
    <2>2. delta \in Int /\ active + delta \in MinWorkers..MaxWorkers
      <3>1. Clamped(changed) \in MinWorkers..MaxWorkers
        BY <2>1, ClampedInBounds
      <3> QED
        BY <1>t, <3>1, ControllerAssumption DEF Validate
    <2> HIDE DEF changed, delta
    <2>3. job' = [job EXCEPT ![g] = [@ EXCEPT !.old = active, !.delta = delta]]
      BY <1>2, <1>t DEF Acquire, Adjustments, delta, changed
    <2>4. [job[g] EXCEPT !.old = active, !.delta = delta] \in Adjustments
      BY <1>t, <2>2 DEF Adjustments
    <2>5. \A h \in Actors : pc[h] \notin {"apply", "signal"}
      BY <1>2, <1>n DEF Acquire, BoundsInv, LockHeld
    <2>6. active' = active /\ lock' = g /\ pc' = [pc EXCEPT ![g] = "apply"]
      BY <1>2 DEF Acquire, GoTo, countVars
    <2>7. rigged' \in BOOLEAN /\ (~rigged' => ~rigged)
      BY <1>2 DEF Acquire, BoundsInv, BoundsTypes
    <2>8. BoundsTypes'
      BY <1>t, <2>3, <2>4, <2>6, <2>7 DEF BoundsTypes, Points
    <2>9. LockHeld'
      BY <1>t, <2>5, <2>6 DEF LockHeld
    <2>10. HolderKeepsBounds'
      <3>1. \A h \in Actors : pc'[h] = "apply" => h = g
        BY <1>t, <2>5, <2>6
      <3>2. job'[g].old = active /\ job'[g].delta = delta
        BY <1>t, <2>3 DEF Adjustments
      <3> QED
        BY <2>2, <2>6, <3>1, <3>2 DEF HolderKeepsBounds
    <2>11. BoundsHold'
      BY <2>6, <2>7 DEF BoundsInv, BoundsHold
    <2> QED
      BY <2>8, <2>9, <2>10, <2>11 DEF BoundsInv
  <1>3. CASE Apply(g)
    <2>1. lock = g
      BY <1>3 DEF Apply, BoundsInv, LockHeld
    <2>2. active' \in Int
      BY <1>3, <1>t DEF Apply, Adjustments
    <2>3. UNCHANGED <<lock, rigged, job>> /\ pc' = [pc EXCEPT ![g] = "record"]
      BY <1>3 DEF Apply, GoTo, workVars
    <2>4. BoundsTypes'
      BY <1>t, <2>2, <2>3 DEF BoundsInv, BoundsTypes, Points
    <2>5. LockHeld'
      BY <1>t, <2>1, <2>3 DEF BoundsInv, LockHeld
    <2>6. HolderKeepsBounds'
      <3>1. \A h \in Actors : pc'[h] # "apply"
        BY <1>t, <2>1, <2>3 DEF BoundsInv, LockHeld
      <3> QED
        BY <3>1 DEF HolderKeepsBounds
    <2>7. BoundsHold'
      <3>1. CASE rigged
        BY <2>3, <3>1 DEF BoundsHold
      <3>2. CASE ~rigged
        <4>1. /\ job[g].old = active
              /\ active + job[g].delta \in MinWorkers..MaxWorkers
          BY <1>3, <3>2 DEF Apply, BoundsInv, HolderKeepsBounds
        <4>2. active' = active + job[g].delta
          BY <1>3, <4>1 DEF Apply
        <4> QED
          BY <4>1, <4>2 DEF BoundsHold
      <3> QED
        BY <3>1, <3>2
    <2> QED
      BY <2>4, <2>5, <2>6, <2>7 DEF BoundsInv
  <1>4. CASE Record(g) \/ Trim(g) \/ Cut(g)
    <2>1. UNCHANGED <<active, lock, rigged, job>>
      BY <1>4 DEF Record, Trim, Cut, countVars
    <2>2. \E p \in {"trim", "cut", "signal", "forced"} :
            /\ pc' = [pc EXCEPT ![g] = p]
            /\ p = "signal" => lock = g
      BY <1>4 DEF Record, Trim, Cut, Recorded, GoTo
    <2>3. job' = [job EXCEPT ![g] = job[g]]
      BY <1>t, <2>1
    <2> QED
      BY <1>t, <2>1, <2>2, <2>3, BoundsOutside DEF Points
  <1>5. CASE Signal(g)
    <2>1. lock = g
      BY <1>5 DEF Signal, BoundsInv, LockHeld
    <2>2. active' = active /\ (~rigged' => ~rigged) /\ rigged' \in BOOLEAN
      BY <1>5 DEF Signal, BoundsInv, BoundsTypes, countVars
    <2>3. \/ pc' = [pc EXCEPT ![g] = "after"] /\ job' = job
          \/ pc' = [pc EXCEPT ![g] = "idle"] /\ job' = [job EXCEPT ![g] = NoJob]
      <3>1. Leave(g)
        BY <1>5 DEF Signal
      <3> QED
        BY <3>1 DEF Leave, Return, GoTo
    <2>4. BoundsTypes'
      BY <1>t, <2>2, <2>3, NoJobIsAdjustment DEF BoundsTypes, Points
    <2>5. \A h \in Actors : pc'[h] \notin {"apply", "signal"}
      BY <1>t, <2>1, <2>3 DEF BoundsInv, LockHeld
    <2> QED
      BY <2>2, <2>4, <2>5
         DEF BoundsInv, LockHeld, HolderKeepsBounds, BoundsHold
  <1> QED
    BY <1>1, <1>2, <1>3, <1>4, <1>5 DEF Adjust

\* Every step keeps the bounds.
LEMMA BoundsNext == BoundsInv /\ [CtlNext]_ctlVars => BoundsInv'
  <1> SUFFICES ASSUME BoundsInv, [CtlNext]_ctlVars
               PROVE  BoundsInv'
    OBVIOUS
  <1>1. ASSUME NEW m \in Monitors, Monitor(m) PROVE BoundsInv'
    BY <1>1, BoundsMonitor
  <1>2. ASSUME NEW c \in Callers, NEW request \in Requests, Call(c, request)
        PROVE  BoundsInv'
    <2> c \in Actors
      BY DEF Actors
    <2>1. job[c] \in Adjustments /\ job \in [Actors -> Adjustments]
      BY DEF BoundsInv, BoundsTypes
    <2>2. request.delta \in Int /\ request.why \in Reasons
      BY ControllerAssumption
    <2>3. [job[c] EXCEPT !.why = request.why, !.delta = request.delta]
            \in Adjustments
      BY <2>1, <2>2 DEF Adjustments
    <2>4. job' = [job EXCEPT ![c] =
            [@ EXCEPT !.why = request.why, !.delta = request.delta]]
      BY <1>2, <2>1 DEF Call, Adjustments
    <2> QED
      BY <1>2, <2>1, <2>3, <2>4, BoundsOutside DEF Call, GoTo, Points, countVars
  <1>3. ASSUME NEW g \in Actors, Adjust(g) PROVE BoundsInv'
    BY <1>3, BoundsAdjust
  <1>4. CASE World
    BY <1>4, BoundsFrame
       DEF World, SetScaling, MemoryChanges, CooldownElapses, TakeSignal,
           TakePause, countVars, workVars
  <1>5. CASE UNCHANGED ctlVars
    BY <1>5, BoundsFrame DEF ctlVars, countVars, workVars
  <1> QED
    BY <1>1, <1>2, <1>3, <1>4, <1>5 DEF CtlNext

\* The worker count stays within its bounds whatever is asked for, whoever asks,
\* and however old the count is that a monitor decided upon, until a low-memory
\* branch for the tests overwrites it (calculateNewWorkerCount).
THEOREM BoundsAlwaysHold == CtlSpec => []BoundsHold
  <1>1. BoundsInv => BoundsHold
    BY DEF BoundsInv
  <1> QED
    BY BoundsInit, BoundsNext, <1>1, PTL DEF CtlSpec

-----------------------------------------------------------------------------
(***************************************************************************)
(* Operators: what an adjustment records and sends.                        *)
(***************************************************************************)
Event == [from : Int, to : Int]

\* A history without its oldest event: the others, in order.
LEMMA CutEvents ==
    ASSUME history \in Seq(Event)
    PROVE  /\ WithoutTheOldest \in Seq(Event)
           /\ Len(history) >= 1 =>
                /\ Len(WithoutTheOldest) = Len(history) - 1
                /\ \A k \in 1..Len(history) - 1 :
                     WithoutTheOldest[k] = history[k+1]
  <1>1. Len(history) \in Nat /\ \A k \in 1..Len(history) : history[k] \in Event
    BY LenProperties
  <1>2. PICK n \in Nat : n = Len(history)
    BY <1>1
  <1>3. \A k \in 2..n : history[k] \in Event
    BY <1>1, <1>2
  <1>4. /\ SubSeq(history, 2, n) \in Seq(Event)
        /\ Len(SubSeq(history, 2, n)) = IF 2 <= n THEN n - 2 + 1 ELSE 0
        /\ \A k \in 1..n-2+1 : SubSeq(history, 2, n)[k] = history[2+k-1]
    BY <1>3, SubSeqProperties
  <1>5. WithoutTheOldest = SubSeq(history, 2, n)
    BY <1>2 DEF WithoutTheOldest
  <1> HIDE DEF WithoutTheOldest
  <1>6. n >= 1 => Len(WithoutTheOldest) = n - 1
    BY <1>4, <1>5
  <1>7. ASSUME NEW k \in 1..n-1
        PROVE  WithoutTheOldest[k] = history[k+1]
    <2>1. k \in 1..n-2+1 /\ 2+k-1 = k+1
      OBVIOUS
    <2> QED
      BY <1>4, <1>5, <2>1
  <1> QED
    BY <1>2, <1>4, <1>5, <1>6, <1>7

\* As many signals are sent as the channel has room for; if none was thrown
\* away then all were sent.
LEMMA SendFits ==
    ASSUME signals \in 0..MaxWorkers, net \in Int, lost \in BOOLEAN,
           NEW sign \in {-1, 1}, NEW count \in Nat, Send(sign, count)
    PROVE  /\ signals' \in 0..MaxWorkers /\ net' \in Int /\ lost' \in BOOLEAN
           /\ ~lost' => ~lost /\ net' = net + sign * count
  <1> DEFINE room == Larger(MaxWorkers - signals, 0)
             put == IF count <= room THEN count ELSE room
  <1>1. MaxWorkers \in Nat /\ signals \in Nat /\ signals <= MaxWorkers
    BY ControllerAssumption DEF Validate
  <1>2. room = MaxWorkers - signals /\ room \in Nat
    BY <1>1 DEF Larger
  <1>3. put \in Nat /\ put <= room /\ (put < count \/ put = count)
    BY <1>2
  <1>4. /\ signals' = signals + put /\ net' = net + sign * put
        /\ lost' = (lost \/ put < count)
    BY DEF Send
  <1> HIDE DEF room, put
  <1>5. signals' \in 0..MaxWorkers
    BY <1>1, <1>2, <1>3, <1>4
  <1>6. sign * put \in Int
    BY <1>3
  <1>7. net' \in Int
    BY <1>4, <1>6
  <1>8. lost' \in BOOLEAN
    BY <1>4
  <1>9. ~lost' => ~lost /\ put = count
    BY <1>3, <1>4
  <1> QED
    BY <1>4, <1>5, <1>7, <1>8, <1>9

\* The signals of an adjustment: some number of one sign.
LEMMA SignalsAreSigned ==
    ASSUME active \in Int, NEW old \in Int, NEW why
    PROVE  /\ SignalsOf(old, why)[1] \in {-1, 1}
           /\ SignalsOf(old, why)[2] \in Nat
  <1>1. Larger(active - old, old - active) \in Nat
    BY DEF Larger
  <1>2. SignalSign(active - old, why) \in {-1, 1}
    BY DEF SignalSign
  <1> QED
    BY <1>1, <1>2 DEF SignalsOf

-----------------------------------------------------------------------------
\* The types of what BoundsInv leaves out, by groups of variables.
RationTypes ==
    /\ ups \in Nat /\ grown \in Nat
    /\ cooling \subseteq {"scale down", "scale up"}
SignalTypes ==
    /\ signals \in 0..MaxWorkers
    /\ net \in Int /\ lost \in BOOLEAN /\ misled \in BOOLEAN
HistoryTypes == history \in Seq(Event)
WorldTypes == enabled \in BOOLEAN /\ paused \in BOOLEAN /\ mem \in Levels
OtherTypes ==
    /\ lock \in Actors \union {NoOne}
    /\ jobs \in 0..MaxJobs
    /\ late \in [Actors -> Nat]

\* The groups make up the type.
LEMMA TypeByGroups ==
    CtlTypeOK <=> /\ BoundsTypes /\ RationTypes /\ SignalTypes /\ HistoryTypes
                  /\ WorldTypes /\ OtherTypes
  BY DEF CtlTypeOK, BoundsTypes, RationTypes, SignalTypes, HistoryTypes,
     WorldTypes, OtherTypes, Event

\* What the assumption says of the bounds of counters.
LEMMA CountersAreBounded ==
    /\ MaxWorkers \in Nat /\ MaxJobs \in Nat
    /\ InitialWorkers \in Int /\ HistoryCap \in Nat /\ HistoryCap >= 1
    /\ NoOne \notin Actors
  BY ControllerAssumption DEF Validate

\* A new controller has the type.
LEMMA CtlTypeInit == CtlInit => CtlTypeOK
  <1> SUFFICES ASSUME CtlInit PROVE CtlTypeOK
    OBVIOUS
  <1>1. BoundsTypes
    BY BoundsInit DEF BoundsInv
  <1>2. RationTypes /\ WorldTypes
    BY DEF CtlInit, RationTypes, WorldTypes, Levels
  <1>3. SignalTypes
    <2>1. signals = 0 /\ net = 0 /\ lost = FALSE /\ misled = FALSE
      BY DEF CtlInit
    <2>2. signals \in 0..MaxWorkers /\ net \in Int
      BY <2>1, CountersAreBounded
    <2>3. lost \in BOOLEAN /\ misled \in BOOLEAN
      BY <2>1
    <2> QED
      BY <2>2, <2>3 DEF SignalTypes
  <1>4. HistoryTypes
    <2>1. history = <<>>
      BY DEF CtlInit
    <2>2. <<>> \in Seq(Event)
      BY EmptySeq
    <2> QED
      BY <2>1, <2>2 DEF HistoryTypes
  <1>5. OtherTypes
    <2>1. lock = NoOne /\ jobs = 0 /\ late = [g \in Actors |-> 0]
      BY DEF CtlInit
    <2> QED
      BY <2>1, CountersAreBounded DEF OtherTypes
  <1> QED
    BY <1>1, <1>2, <1>3, <1>4, <1>5, TypeByGroups

\* What an append or a cut leaves of the history, raced or not.
LEMMA RecordingKeepsType ==
    ASSUME HistoryTypes, NEW g \in Actors, NEW new \in Seq(Event),
           history' \in Histories(g, new)
    PROVE  HistoryTypes'
  BY DEF Histories, HistoryTypes

\* consecutiveScaleUps and the cooldowns, by whatever a monitor writes.
LEMMA CountsKeepType ==
    ASSUME RationTypes, NEW m \in Monitors, NEW count \in Nat,
           ups' \in Counts(m, count)
    PROVE  ups' \in Nat
  BY DEF Counts, RationTypes

\* A growth is noted and starts its cooldown.
LEMMA GrowthKeepsType ==
    RationTypes /\ ups' \in Nat /\ grown' = grown + 1
      /\ cooling' = cooling \union {"scale up"}
      => RationTypes'
  <1>1. ASSUME RationTypes, grown' = grown + 1 PROVE grown' \in Nat
    <2>1. grown \in Nat
      BY <1>1 DEF RationTypes
    <2> QED
      BY <1>1, <2>1
  <1>2. ASSUME RationTypes, cooling' = cooling \union {"scale up"}
        PROVE  cooling' \subseteq {"scale down", "scale up"}
    BY <1>2 DEF RationTypes
  <1> QED
    BY <1>1, <1>2 DEF RationTypes

\* The note of an adjustment made too late.
LEMMA LateKeepsType ==
    ASSUME OtherTypes, NEW g \in Actors, Late(g)
    PROVE  late' \in [Actors -> Nat]
  BY DEF OtherTypes, Late

\* A monitor's step keeps the types.
LEMMA TypeMonitor ==
    ASSUME BoundsInv, CtlTypeOK, NEW m \in Monitors, Monitor(m)
    PROVE  /\ RationTypes' /\ SignalTypes' /\ HistoryTypes' /\ WorldTypes'
           /\ OtherTypes'
  <1> m \in Actors
    BY DEF Actors
  <1>t. /\ BoundsTypes /\ RationTypes /\ SignalTypes /\ HistoryTypes
        /\ WorldTypes /\ OtherTypes
    BY TypeByGroups
  <1>n. ups \in Nat /\ grown \in Nat
    BY <1>t DEF RationTypes
  <1>1. CASE Tick(m)
    <2>1. jobs' \in 0..MaxJobs
      BY <1>1, <1>t, ControllerAssumption DEF Tick, OtherTypes
    <2> QED
      BY <1>1, <1>t, <2>1
         DEF Tick, countVars, signalVars, rationVars, worldVars, RationTypes,
             SignalTypes, HistoryTypes, WorldTypes, OtherTypes
  <1>2. CASE \/ Shrink(m) \/ ReadCount(m) \/ Weigh(m) \/ Grow(m)
             \/ ForceCount(m)
    BY <1>2, <1>t
       DEF Shrink, ReadCount, Weigh, Grow, ForceCount, countVars, signalVars,
           rationVars, worldVars, RationTypes, SignalTypes, HistoryTypes,
           WorldTypes, OtherTypes
  <1>3. CASE ForceEnds(m)
    <2>1. SignalTypes'
      <3>1. misled' \in BOOLEAN
        BY <1>3, <1>t DEF ForceEnds, SignalTypes
      <3>2. CASE Send(1, 5)
        BY <1>t, <3>1, <3>2, SendFits DEF SignalTypes
      <3>3. CASE UNCHANGED <<signals, net, lost>>
        BY <1>t, <3>1, <3>3 DEF SignalTypes
      <3> QED
        BY <1>3, <3>2, <3>3 DEF ForceEnds
    <2>2. RationTypes'
      <3>1. ups' \in Nat
        <4>1. \E count \in {ups + 1, 1, 2} : ups' \in Counts(m, count)
          BY <1>3 DEF ForceEnds
        <4>2. ups + 1 \in Nat
          BY <1>n
        <4> QED
          BY <1>t, <4>1, <4>2, CountsKeepType
      <3> QED
        <4>1. cooling' = cooling \union {"scale up"} /\ grown' = grown + 1
          BY <1>3 DEF ForceEnds, Cooled
        <4> QED
          BY <1>t, <1>n, <3>1, <4>1, GrowthKeepsType
    <2> QED
      BY <1>3, <1>t, <2>1, <2>2
         DEF ForceEnds, countVars, worldVars, HistoryTypes, WorldTypes,
             OtherTypes
  <1>4. CASE AfterGrowth(m) \/ AfterShrinking(m)
    <2>1. ups' \in Nat
      <3>1. \E count \in {ups + 1, 0} : ups' \in Counts(m, count)
        BY <1>4 DEF AfterGrowth, AfterShrinking, AfterDecrease
      <3>2. ups + 1 \in Nat
        BY <1>n
      <3> QED
        BY <1>t, <3>1, <3>2, CountsKeepType
    <2>2. RationTypes'
      <3>1. \/ cooling' = cooling \union {"scale up"} /\ grown' = grown + 1
            \/ UNCHANGED <<cooling, grown>>
        BY <1>4 DEF AfterGrowth, AfterShrinking, Cooled
      <3> QED
        BY <1>t, <1>n, <2>1, <3>1, GrowthKeepsType DEF RationTypes
    <2> QED
      BY <1>4, <1>t, <2>2
         DEF AfterGrowth, AfterShrinking, countVars, signalVars, worldVars,
             SignalTypes, HistoryTypes, WorldTypes, OtherTypes
  <1>5. CASE AfterCritical(m)
    BY <1>5, <1>t
       DEF AfterCritical, countVars, signalVars, rationVars, RationTypes,
           SignalTypes, HistoryTypes, WorldTypes, OtherTypes
  <1> QED
    BY <1>1, <1>2, <1>3, <1>4, <1>5 DEF Monitor

\* So does an adjustment's.
LEMMA TypeAdjust ==
    ASSUME BoundsInv, CtlTypeOK, NEW g \in Actors, Adjust(g)
    PROVE  /\ RationTypes' /\ SignalTypes' /\ HistoryTypes' /\ WorldTypes'
           /\ OtherTypes'
  <1>t. /\ BoundsTypes /\ RationTypes /\ SignalTypes /\ HistoryTypes
        /\ WorldTypes /\ OtherTypes
    BY TypeByGroups
  <1>1. CASE CheckEnabled(g) \/ Acquire(g) \/ Apply(g)
    BY <1>1, <1>t
       DEF CheckEnabled, Acquire, Apply, countVars, signalVars, rationVars,
           worldVars, RationTypes, SignalTypes, HistoryTypes, WorldTypes,
           OtherTypes
  <1>2. CASE Record(g)
    <2> DEFINE event == [from |-> job[g].old, to |-> active]
    <2>1. event \in Event
      BY <1>t DEF BoundsTypes, Adjustments, Event
    <2>2. Append(history, event) \in Seq(Event)
      BY <1>t, <2>1, AppendProperties DEF HistoryTypes
    <2>3. HistoryTypes'
      BY <1>2, <1>t, <2>2, RecordingKeepsType DEF Record
    <2>4. OtherTypes'
      BY <1>2, <1>t, LateKeepsType DEF Record, OtherTypes
    <2> QED
      BY <1>2, <1>t, <2>3, <2>4
         DEF Record, signalVars, rationVars, worldVars, RationTypes,
             SignalTypes, WorldTypes
  <1>3. CASE Trim(g)
    BY <1>3, <1>t
       DEF Trim, countVars, signalVars, rationVars, worldVars, RationTypes,
           SignalTypes, HistoryTypes, WorldTypes, OtherTypes
  <1>4. CASE Cut(g)
    <2>1. WithoutTheOldest \in Seq(Event)
      BY <1>t, CutEvents DEF HistoryTypes
    <2>2. HistoryTypes'
      BY <1>4, <1>t, <2>1, RecordingKeepsType DEF Cut
    <2> QED
      BY <1>4, <1>t, <2>2
         DEF Cut, signalVars, rationVars, worldVars, RationTypes, SignalTypes,
             WorldTypes, OtherTypes
  <1>5. CASE Signal(g)
    <2> DEFINE sent == SignalsOf(job[g].old, Reason(g))
    <2>1. job[g].old \in Int /\ active \in Int
      BY <1>t DEF BoundsTypes, Adjustments
    <2>2. sent[1] \in {-1, 1} /\ sent[2] \in Nat
      BY <2>1, SignalsAreSigned
    <2>3. Send(sent[1], sent[2])
      BY <1>5 DEF Signal
    <2> HIDE DEF sent
    <2>4. misled' \in BOOLEAN
      BY <1>5, <1>t DEF Signal, SignalTypes
    <2>5. SignalTypes'
      BY <1>t, <2>2, <2>3, <2>4, SendFits DEF SignalTypes
    <2>6. OtherTypes'
      BY <1>5, <1>t DEF Signal, OtherTypes
    <2> QED
      BY <1>5, <1>t, <2>5, <2>6
         DEF Signal, countVars, rationVars, worldVars, RationTypes,
             HistoryTypes, WorldTypes
  <1> QED
    BY <1>1, <1>2, <1>3, <1>4, <1>5 DEF Adjust

\* So does everybody's.
LEMMA TypeEverybody ==
    ASSUME BoundsInv, CtlTypeOK, [CtlNext]_ctlVars
    PROVE  /\ RationTypes' /\ SignalTypes' /\ HistoryTypes' /\ WorldTypes'
           /\ OtherTypes'
  <1>t. /\ BoundsTypes /\ RationTypes /\ SignalTypes /\ HistoryTypes
        /\ WorldTypes /\ OtherTypes
    BY TypeByGroups
  <1>n. jobs \in 0..MaxJobs /\ signals \in 0..MaxWorkers
    BY <1>t DEF OtherTypes, SignalTypes
  <1> USE DEF countVars, signalVars, rationVars, worldVars, RationTypes,
              SignalTypes, HistoryTypes, WorldTypes, OtherTypes
  <1>1. ASSUME NEW c \in Callers, NEW request \in Requests, Call(c, request)
        PROVE  /\ RationTypes' /\ SignalTypes' /\ HistoryTypes' /\ WorldTypes'
               /\ OtherTypes'
    <2>1. jobs' = jobs + 1 /\ jobs < MaxJobs
      BY <1>1 DEF Call
    <2>2. jobs' \in 0..MaxJobs
      BY <1>n, <2>1, CountersAreBounded
    <2> QED
      BY <1>1, <1>t, <2>2 DEF Call
  <1>2. CASE SetScaling
    BY <1>2, <1>t DEF SetScaling
  <1>3. CASE MemoryChanges
    BY <1>3, <1>t DEF MemoryChanges
  <1>4. ASSUME NEW c \in {"scale down", "scale up"}, CooldownElapses(c)
        PROVE  /\ RationTypes' /\ SignalTypes' /\ HistoryTypes' /\ WorldTypes'
               /\ OtherTypes'
    BY <1>4, <1>t DEF CooldownElapses
  <1>5. CASE TakeSignal
    <2>1. signals' = signals - 1 /\ signals > 0
      BY <1>5 DEF TakeSignal
    <2>2. signals' \in 0..MaxWorkers
      BY <1>n, <2>1, CountersAreBounded
    <2> QED
      BY <1>5, <1>t, <2>2 DEF TakeSignal
  <1>6. CASE TakePause
    BY <1>6, <1>t DEF TakePause
  <1>7. CASE UNCHANGED ctlVars
    BY <1>7, <1>t DEF ctlVars
  <1> HIDE DEF countVars, signalVars, rationVars, worldVars, RationTypes,
               SignalTypes, HistoryTypes, WorldTypes, OtherTypes
  <1> QED
    BY <1>1, <1>2, <1>3, <1>4, <1>5, <1>6, <1>7, TypeMonitor, TypeAdjust
       DEF CtlNext, World

\* Every step keeps the type.
LEMMA CtlTypeNext ==
    BoundsInv /\ CtlTypeOK /\ [CtlNext]_ctlVars => CtlTypeOK'
  <1> SUFFICES ASSUME BoundsInv, CtlTypeOK, [CtlNext]_ctlVars
               PROVE  CtlTypeOK'
    OBVIOUS
  <1>1. BoundsTypes'
    BY BoundsNext DEF BoundsInv
  <1>2. /\ RationTypes' /\ SignalTypes' /\ HistoryTypes' /\ WorldTypes'
        /\ OtherTypes'
    BY TypeEverybody
  <1> QED
    BY <1>1, <1>2
       DEF CtlTypeOK, BoundsTypes, RationTypes, SignalTypes, HistoryTypes,
           WorldTypes, OtherTypes, Event

\* Whoever adjusts, whatever races and whatever was thrown away, the control
\* channel never holds more than MaxWorkers signals, nor fewer than none, and
\* consecutiveScaleUps stays a natural number (sendMultipleSignals,
\* handleHighMemoryUsage); the history is a sequence of events of any length.
THEOREM CtlTypeCorrect == CtlSpec => []CtlTypeOK
  BY BoundsInit, BoundsNext, CtlTypeInit, CtlTypeNext, PTL DEF CtlSpec

-----------------------------------------------------------------------------
(***************************************************************************)
(* The story of the count.  What the history and the signals tell is the   *)
(* count, except between a change under the lock and its record or its     *)
(* signals, when it is the count from before the change; and the history   *)
(* is one too long between an append and its cut.                          *)
(***************************************************************************)
\* The events are a chain that ends at the count, from the initial count on
\* unless there are as many as are kept.
Follows(events, count) ==
    /\ \A k \in 2..Len(events) : events[k].from = events[k-1].to
    /\ events # <<>> => events[Len(events)].to = count
    /\ Len(events) < HistoryCap =>
         InitialWorkers = IF events = <<>> THEN count ELSE events[1].from

\* What HistoryTellsCount says, of any history and any count.
Tells(events, count) == Follows(events, count) /\ Len(events) <= HistoryCap

\* The signals tell the count.
NetTold(count) == ~lost /\ ~misled => net = count - InitialWorkers

\* Where a goroutine records its change and signals it.
Telling == {"record", "trim", "cut", "signal"}

StoryInv ==
    ~rigged =>
      /\ \A g \in Actors : pc[g] # "forced"
      /\ \A g \in Actors : pc[g] \in Telling => lock = g
      /\ (\A g \in Actors : pc[g] \notin Telling)
           => Tells(history, active) /\ NetTold(active)
      /\ \A g \in Actors :
           /\ pc[g] \in Telling => NetTold(job[g].old)
           /\ pc[g] = "record" => Tells(history, job[g].old)
           /\ pc[g] \in {"trim", "cut"} => /\ Follows(history, active)
                                          /\ Len(history) <= HistoryCap + 1
           /\ pc[g] = "cut" => Len(history) > HistoryCap
           /\ pc[g] = "signal" => Tells(history, active)

\* Nothing has happened yet.
LEMMA StoryInit == CtlInit => StoryInv
  <1> SUFFICES ASSUME CtlInit PROVE StoryInv
    OBVIOUS
  <1>1. \A g \in Actors : pc[g] = "idle"
    BY DEF CtlInit
  <1>2. active = InitialWorkers /\ history = <<>> /\ net = 0
    BY DEF CtlInit
  <1>3. Len(history) = 0
    BY <1>2, EmptySeq
  <1>4. Tells(history, active)
    BY <1>2, <1>3, CountersAreBounded DEF Tells, Follows
  <1>5. net = active - InitialWorkers
    BY <1>2, CountersAreBounded
  <1> QED
    BY <1>1, <1>4, <1>5 DEF StoryInv, NetTold, Telling

\* An event that begins where the history ends continues it.
LEMMA AppendFollows ==
    ASSUME HistoryTypes, NEW old \in Int, NEW new \in Int, Tells(history, old),
           NEW longer, longer = Append(history, [from |-> old, to |-> new])
    PROVE  Follows(longer, new) /\ Len(longer) <= HistoryCap + 1
  <1> DEFINE event == [from |-> old, to |-> new]
  <1>1. /\ history \in Seq(Event) /\ Len(history) \in Nat
        /\ Len(history) <= HistoryCap
        /\ HistoryCap \in Nat /\ HistoryCap >= 1
    BY CountersAreBounded, LenProperties DEF HistoryTypes, Tells
  <1>2. event \in Event /\ event.from = old /\ event.to = new
    BY DEF Event
  <1>3. /\ \A k \in 2..Len(history) : history[k].from = history[k-1].to
        /\ Len(history) > 0 => history[Len(history)].to = old
        /\ Len(history) < HistoryCap =>
             InitialWorkers = IF Len(history) = 0 THEN old ELSE history[1].from
    <2>1. history = <<>> <=> Len(history) = 0
      BY <1>1, EmptySeq
    <2>2. Len(history) > 0 <=> history # <<>>
      BY <1>1, <2>1
    <2> QED
      BY <2>1, <2>2 DEF Tells, Follows
  <1> HIDE DEF event
  <1>4. /\ Len(longer) = Len(history) + 1
        /\ \A k \in 1..Len(history) : longer[k] = history[k]
        /\ longer[Len(history) + 1] = event
    BY <1>1, <1>2, AppendProperties DEF event
  <1>5. ASSUME NEW k \in 2..Len(longer)
        PROVE  longer[k].from = longer[k-1].to
    <2>1. longer[k-1] = history[k-1]
      BY <1>1, <1>4
    <2>2. CASE k = Len(history) + 1
      <3>1. k - 1 = Len(history) /\ Len(history) > 0
        BY <1>1, <2>2
      <3>2. longer[k].from = old /\ history[k-1].to = old
        BY <1>2, <1>3, <1>4, <2>2, <3>1
      <3> QED
        BY <2>1, <3>2
    <2>3. CASE k # Len(history) + 1
      <3>1. k \in 2..Len(history) /\ k \in 1..Len(history)
        BY <1>1, <1>4, <2>3
      <3> QED
        BY <1>3, <1>4, <2>1, <3>1
    <2> QED
      BY <2>2, <2>3
  <1>6. longer[Len(longer)].to = new
    BY <1>2, <1>4
  <1>7. longer # <<>>
    BY <1>1, <1>4, EmptySeq
  <1>8. ASSUME Len(longer) < HistoryCap
        PROVE  InitialWorkers = longer[1].from
    <2>1. Len(history) < HistoryCap
      BY <1>1, <1>4, <1>8
    <2>2. CASE Len(history) = 0
      BY <1>1, <1>2, <1>3, <1>4, <2>1, <2>2
    <2>3. CASE Len(history) # 0
      <3>1. longer[1] = history[1]
        BY <1>1, <1>4, <2>3
      <3> QED
        BY <1>3, <2>1, <2>3, <3>1
    <2> QED
      BY <2>2, <2>3
  <1>9. Len(longer) <= HistoryCap + 1
    BY <1>1, <1>4
  <1> QED
    BY <1>5, <1>6, <1>7, <1>8, <1>9 DEF Follows

\* Also when the oldest event is forgotten.
LEMMA CutTells ==
    ASSUME HistoryTypes, NEW count, Follows(history, count),
           Len(history) = HistoryCap + 1,
           NEW shorter, shorter = WithoutTheOldest
    PROVE  Tells(shorter, count)
  <1>1. /\ history \in Seq(Event) /\ Len(history) \in Nat
        /\ HistoryCap \in Nat /\ HistoryCap >= 1
    BY CountersAreBounded, LenProperties DEF HistoryTypes
  <1>2. /\ \A k \in 2..Len(history) : history[k].from = history[k-1].to
        /\ history[Len(history)].to = count
    BY <1>1, EmptySeq DEF Follows
  <1>3. /\ Len(shorter) = HistoryCap
        /\ \A k \in 1..HistoryCap : shorter[k] = history[k+1]
    BY <1>1, CutEvents
  <1>4. ASSUME NEW k \in 2..HistoryCap
        PROVE  shorter[k].from = shorter[k-1].to
    <2>1. shorter[k] = history[k+1] /\ shorter[k-1] = history[k]
      BY <1>1, <1>3
    <2>2. k + 1 \in 2..Len(history) /\ (k + 1) - 1 = k
      BY <1>1
    <2>3. history[k+1].from = history[k].to
      BY <1>2, <2>2
    <2> QED
      BY <2>1, <2>3
  <1>5. shorter[Len(shorter)].to = count
    BY <1>1, <1>2, <1>3
  <1> QED
    BY <1>1, <1>3, <1>4, <1>5 DEF Tells, Follows

\* An increase is signalled by as many signals of its sign as it is large.
LEMMA IncreaseSignalled ==
    ASSUME NEW new \in Int, NEW old \in Int, NEW why, ~(new < old)
    PROVE  SignalSign(new - old, why) * Larger(new - old, old - new)
             = new - old
  <1>1. SignalSign(new - old, why) = 1
    <2>1. ~(new - old < 0)
      OBVIOUS
    <2> QED
      BY <2>1 DEF SignalSign
  <1>2. Larger(new - old, old - new) = new - old
    BY DEF Larger
  <1>3. SignalSign(new - old, why) * Larger(new - old, old - new)
          = 1 * (new - old)
    BY <1>1, <1>2
  <1>4. 1 * (new - old) = new - old
    OBVIOUS
  <1> QED
    BY <1>3, <1>4

\* So is a decrease for high memory.
LEMMA DecreaseSignalled ==
    ASSUME NEW new \in Int, NEW old \in Int, new < old
    PROVE  SignalSign(new - old, "high memory usage")
             * Larger(new - old, old - new) = new - old
  <1>1. SignalSign(new - old, "high memory usage") = -1
    BY DEF SignalSign
  <1>2. Larger(new - old, old - new) = old - new
    BY DEF Larger
  <1>3. SignalSign(new - old, "high memory usage")
          * Larger(new - old, old - new) = (-1) * (old - new)
    BY <1>1, <1>2
  <1>4. (-1) * (old - new) = new - old
    OBVIOUS
  <1> QED
    BY <1>3, <1>4

\* The signals add up to the change, if none was thrown away and they are not
\* those of the tests.
LEMMA SignalsTell ==
    ASSUME BoundsTypes, SignalTypes, NEW old \in Int, NEW why,
           ~SpecialSignals(why), active < old => why = "high memory usage",
           Send(SignalsOf(old, why)[1], SignalsOf(old, why)[2]),
           ~lost'
    PROVE  ~lost /\ net' = net + (active - old)
  <1>1. active \in Int
    BY DEF BoundsTypes
  <1>2. /\ SignalsOf(old, why)[1] = SignalSign(active - old, why)
        /\ SignalsOf(old, why)[2] = Larger(active - old, old - active)
    BY DEF SpecialSignals, SignalsOf
  <1>3. /\ SignalsOf(old, why)[1] \in {-1, 1}
        /\ SignalsOf(old, why)[2] \in Nat
    BY <1>1, SignalsAreSigned
  <1>4. /\ ~lost
        /\ net' = net + SignalsOf(old, why)[1] * SignalsOf(old, why)[2]
    BY <1>3, SendFits DEF SignalTypes
  <1>5. SignalSign(active - old, why) * Larger(active - old, old - active)
          = active - old
    <2>1. CASE active < old
      <3>1. why = "high memory usage"
        BY <2>1
      <3> QED
        BY <1>1, <2>1, <3>1, DecreaseSignalled
    <2>2. CASE ~(active < old)
      BY <1>1, <2>2, IncreaseSignalled
    <2> QED
      BY <1>1, <2>1, <2>2
  <1> QED
    BY <1>2, <1>4, <1>5

\* What a step under way leaves alone: the count and what tells it.
StoryVars == <<active, history, net, lost, misled, rigged>>

\* A step of a goroutine that neither changes the count nor tells it.
LEMMA StoryAside ==
    ASSUME StoryInv, BoundsTypes, NEW g \in Actors, pc[g] \notin Telling,
           NEW p \in Points \ (Telling \union {"forced"}),
           pc' = [pc EXCEPT ![g] = p],
           \A h \in Actors : h # g => job'[h] = job[h],
           lock' = lock \/ \A h \in Actors : pc[h] \notin Telling,
           UNCHANGED StoryVars
    PROVE  StoryInv'
  <1> SUFFICES ASSUME ~rigged
               PROVE  StoryInv'
    BY DEF StoryInv, StoryVars
  <1>1. /\ pc'[g] = p
        /\ \A h \in Actors : h # g => pc'[h] = pc[h] /\ job'[h] = job[h]
    BY DEF BoundsTypes
  <1>2. /\ UNCHANGED <<active, history>>
        /\ \A c : NetTold(c)' <=> NetTold(c)
    BY DEF NetTold, StoryVars
  <1>3. \A h \in Actors : pc'[h] \in Telling =>
          h # g /\ pc'[h] = pc[h] /\ job'[h] = job[h] /\ lock' = lock
    BY <1>1 DEF Telling
  <1>4. (\A h \in Actors : pc'[h] \notin Telling)
          => \A h \in Actors : pc[h] \notin Telling
    BY <1>1
  <1>5. "cut" \in Telling /\ "trim" \in Telling /\ "record" \in Telling
        /\ "signal" \in Telling
    BY DEF Telling
  <1>6. \A h \in Actors : pc'[h] # "forced"
    BY <1>1 DEF StoryInv
  <1> HIDE DEF Telling
  <1> QED
    BY <1>1, <1>2, <1>3, <1>4, <1>5, <1>6 DEF StoryInv

\* Under the lock nobody else tells the count or changes it.
LEMMA SoleTeller ==
    ASSUME StoryInv, LockHeld, ~rigged, NEW g \in Actors, lock = g
    PROVE  \A h \in Actors \ {g} :
             pc[h] \notin Telling \union {"apply", "forced"}
  BY DEF StoryInv, LockHeld

\* A step of the holder of the lock.
LEMMA StoryHolder ==
    ASSUME StoryInv, BoundsInv, ~rigged, NEW g \in Actors, lock = g,
           NEW p \in Points \ {"forced"}, pc' = [pc EXCEPT ![g] = p],
           IF p \in Telling THEN lock' = g /\ NetTold(job[g].old)'
           ELSE Tells(history', active') /\ NetTold(active)',
           p = "record" => Tells(history', job'[g].old),
           p \in {"trim", "cut"} => /\ Follows(history', active')
                                   /\ Len(history') <= HistoryCap + 1,
           p = "cut" => Len(history') > HistoryCap,
           p = "signal" => Tells(history', active')
    PROVE  StoryInv'
  <1>1. /\ pc'[g] = p
        /\ \A h \in Actors : h # g => pc'[h] = pc[h]
    BY DEF BoundsInv, BoundsTypes
  <1>2. \A h \in Actors : h # g => pc'[h] \notin Telling \union {"forced"}
    BY <1>1, SoleTeller DEF BoundsInv
  <1>3. \A h \in Actors : pc'[h] # "forced"
    BY <1>1, <1>2
  <1>4. \A h \in Actors : pc'[h] \in Telling => h = g /\ p \in Telling
    BY <1>1, <1>2
  <1>5. "cut" \in Telling /\ "trim" \in Telling /\ "record" \in Telling
        /\ "signal" \in Telling
    BY DEF Telling
  <1> QED
    BY <1>1, <1>3, <1>4, <1>5 DEF StoryInv

\* The steps of a monitor outside AdjustWorkerCount: those of the branches for
\* the tests are taken only when the count was overwritten already.
LEMMA StoryMonitor ==
    ASSUME StoryInv, BoundsTypes, NEW m \in Monitors, Monitor(m)
    PROVE  StoryInv'
  <1> m \in Actors
    BY DEF Actors
  <1>t. pc \in [Actors -> Points] /\ job \in [Actors -> Adjustments]
    BY DEF BoundsTypes
  <1>1. CASE ForceCount(m)
    BY <1>1 DEF ForceCount, StoryInv
  <1>2. CASE ForceEnds(m)
    BY <1>2 DEF ForceEnds, StoryInv
  <1>3. CASE \/ Tick(m) \/ Shrink(m) \/ ReadCount(m) \/ Weigh(m) \/ Grow(m)
             \/ AfterGrowth(m) \/ AfterShrinking(m) \/ AfterCritical(m)
    <2>1. UNCHANGED <<StoryVars, lock>> /\ pc[m] \notin Telling
      BY <1>3 DEF Tick, Shrink, ReadCount, Weigh, Grow, AfterGrowth,
         AfterShrinking, AfterCritical, countVars, signalVars, StoryVars,
         Telling
    <2>2. \E p \in {"idle", "read", "weigh", "limit", "force", "check"} :
            pc' = [pc EXCEPT ![m] = p]
      BY <1>3 DEF Tick, Shrink, ReadCount, Weigh, Grow, AfterGrowth,
         AfterShrinking, AfterCritical, Return, GoTo
    <2>3. \A h \in Actors : h # m => job'[h] = job[h]
      BY <1>3, <1>t DEF Tick, Shrink, ReadCount, Weigh, Grow, AfterGrowth,
         AfterShrinking, AfterCritical, Return
    <2> QED
      BY <2>1, <2>2, <2>3, StoryAside DEF Points, Telling
  <1> QED
    BY <1>1, <1>2, <1>3 DEF Monitor

\* The change is made, recorded and signalled under the lock.
LEMMA StoryAdjust ==
    ASSUME StoryInv, BoundsInv, SignalTypes, HistoryTypes,
           NEW g \in Actors, Adjust(g)
    PROVE  StoryInv'
  <1>t. /\ pc \in [Actors -> Points] /\ job \in [Actors -> Adjustments]
        /\ active \in Int /\ job[g].old \in Int /\ BoundsTypes
    BY DEF BoundsInv, BoundsTypes, Adjustments
  <1>1. CASE CheckEnabled(g)
    <2>1. UNCHANGED <<StoryVars, lock>> /\ pc[g] \notin Telling
      BY <1>1 DEF CheckEnabled, countVars, signalVars, StoryVars, Telling
    <2>2. \E p \in {"idle", "lock", "after"} : pc' = [pc EXCEPT ![g] = p]
      BY <1>1 DEF CheckEnabled, Leave, Return, GoTo
    <2>3. \A h \in Actors : h # g => job'[h] = job[h]
      BY <1>1, <1>t DEF CheckEnabled, Leave, Return
    <2> QED
      BY <1>t, <2>1, <2>2, <2>3, StoryAside DEF Points, Telling
  <1>2. CASE Acquire(g)
    <2> SUFFICES ASSUME ~rigged PROVE StoryInv'
      BY <1>2 DEF Acquire, StoryInv
    <2>1. UNCHANGED StoryVars /\ pc[g] \notin Telling
      BY <1>2 DEF Acquire, countVars, signalVars, StoryVars, Telling
    <2>2. pc' = [pc EXCEPT ![g] = "apply"]
      BY <1>2 DEF Acquire, GoTo
    <2>3. \A h \in Actors : h # g => job'[h] = job[h]
      BY <1>2, <1>t DEF Acquire
    <2>4. \A h \in Actors : pc[h] \notin Telling
      BY <1>2, CountersAreBounded DEF Acquire, StoryInv
    <2> QED
      BY <1>t, <2>1, <2>2, <2>3, <2>4, StoryAside DEF Points, Telling
  <1>3. CASE Apply(g)
    <2> SUFFICES ASSUME ~rigged PROVE StoryInv'
      BY <1>3 DEF Apply, StoryInv
    <2>1. lock = g /\ job[g].old = active /\ pc[g] \notin Telling
      BY <1>3 DEF Apply, BoundsInv, LockHeld, HolderKeepsBounds, Telling
    <2>2. \A h \in Actors : pc[h] \notin Telling
      BY <2>1, SoleTeller DEF BoundsInv
    <2>3. Tells(history, job[g].old) /\ NetTold(job[g].old)
      BY <2>1, <2>2 DEF StoryInv
    <2>4. UNCHANGED <<history, lock, net, lost, misled, job>>
      BY <1>3 DEF Apply, signalVars
    <2>5. Tells(history', job'[g].old) /\ NetTold(job[g].old)'
      BY <2>3, <2>4 DEF NetTold
    <2>6. pc' = [pc EXCEPT ![g] = "record"]
      BY <1>3 DEF Apply, GoTo
    <2> QED
      BY <2>1, <2>4, <2>5, <2>6, StoryHolder DEF Points, Telling
  <1>4. CASE Record(g) \/ Trim(g) \/ Cut(g)
    <2> SUFFICES ASSUME ~rigged PROVE StoryInv'
      BY <1>4 DEF Record, Trim, Cut, StoryInv
    <2>1. /\ UNCHANGED <<active, lock, net, lost, misled, job>>
          /\ pc[g] \in Telling
      BY <1>4 DEF Record, Trim, Cut, countVars, signalVars, Telling
    <2>2. lock = g /\ lock' = g /\ NetTold(job[g].old)'
      BY <2>1 DEF StoryInv, NetTold
    <2>3. ~Raced(g)
      BY <2>2, SoleTeller DEF Raced, BoundsInv, Telling
    <2>4. CASE Record(g)
      <3>1. /\ history' = Append(history, [from |-> job[g].old, to |-> active])
            /\ pc' = [pc EXCEPT ![g] = "trim"]
        BY <2>3, <2>4 DEF Record, Histories, GoTo
      <3>2. Tells(history, job[g].old)
        BY <2>4 DEF Record, StoryInv
      <3>3. /\ Follows(history', active)
            /\ Len(history') <= HistoryCap + 1
        BY <1>t, <3>1, <3>2, AppendFollows
      <3> QED
        BY <2>1, <2>2, <3>1, <3>3, StoryHolder DEF Points, Telling
    <2>5. CASE Trim(g)
      <3>1. history' = history
        BY <2>5 DEF Trim, countVars
      <3>2. Follows(history, active) /\ Len(history) <= HistoryCap + 1
        BY <2>5 DEF Trim, StoryInv
      <3>3. CASE TooLong
        <4>1. pc' = [pc EXCEPT ![g] = "cut"]
          BY <2>5, <3>3 DEF Trim, GoTo
        <4> QED
          BY <2>1, <2>2, <3>1, <3>2, <3>3, <4>1, StoryHolder
             DEF Points, Telling, TooLong
      <3>4. CASE ~TooLong
        <4>1. pc' = [pc EXCEPT ![g] = "signal"]
          BY <2>2, <2>5, <3>4 DEF Trim, Recorded, GoTo
        <4>2. Len(history) \in Nat /\ HistoryCap \in Nat
          BY CountersAreBounded, LenProperties DEF HistoryTypes
        <4>3. Tells(history, active)
          BY <3>2, <3>4, <4>2 DEF TooLong, Tells
        <4> QED
          BY <2>1, <2>2, <3>1, <4>1, <4>3, StoryHolder DEF Points, Telling
      <3> QED
        BY <3>3, <3>4
    <2>6. CASE Cut(g)
      <3>1. history' = WithoutTheOldest
        BY <2>3, <2>6 DEF Cut, Histories
      <3>2. pc' = [pc EXCEPT ![g] = "signal"]
        BY <2>2, <2>6 DEF Cut, Recorded, GoTo
      <3>3. /\ Follows(history, active) /\ Len(history) <= HistoryCap + 1
            /\ Len(history) > HistoryCap
        BY <2>6 DEF Cut, StoryInv
      <3>4. Len(history) = HistoryCap + 1
        <4>1. Len(history) \in Nat /\ HistoryCap \in Nat
          BY CountersAreBounded, LenProperties DEF HistoryTypes
        <4> QED
          BY <3>3, <4>1
      <3>5. Tells(history', active)
        BY <3>1, <3>3, <3>4, CutTells
      <3> QED
        BY <2>1, <2>2, <3>2, <3>5, StoryHolder DEF Points, Telling
    <2> QED
      BY <1>4, <2>4, <2>5, <2>6
  <1>5. CASE Signal(g)
    <2> SUFFICES ASSUME ~rigged PROVE StoryInv'
      BY <1>5 DEF Signal, StoryInv
    <2>1. lock = g /\ pc[g] = "signal"
      BY <1>5 DEF Signal, BoundsInv, LockHeld
    <2>2. Tells(history, active) /\ NetTold(job[g].old)
      BY <2>1 DEF StoryInv, Telling
    <2>3. UNCHANGED <<active, history>>
      BY <1>5 DEF Signal, countVars
    <2>4. ~lost' /\ ~misled' => net' = active' - InitialWorkers
      <3>1. SUFFICES ASSUME ~lost', ~misled'
                     PROVE  net' = active - InitialWorkers
        BY <2>3
      <3>2. /\ ~misled /\ ~SpecialSignals(Reason(g))
            /\ active < job[g].old => Reason(g) = "high memory usage"
        BY <1>5, <3>1 DEF Signal
      <3>3. Send(SignalsOf(job[g].old, Reason(g))[1],
                 SignalsOf(job[g].old, Reason(g))[2])
        BY <1>5 DEF Signal
      <3>4. ~lost /\ net' = net + (active - job[g].old)
        BY <1>t, <3>1, <3>2, <3>3, SignalsTell
      <3>5. net = job[g].old - InitialWorkers
        BY <2>2, <3>2, <3>4 DEF NetTold
      <3>6. PICK a, b, c \in Int :
              a = active /\ b = job[g].old /\ c = InitialWorkers
        BY <1>t, CountersAreBounded
      <3>7. (b - c) + (a - b) = a - c
        OBVIOUS
      <3> QED
        BY <3>4, <3>5, <3>6, <3>7
    <2>5. NetTold(active)'
      BY <2>4 DEF NetTold
    <2>6. \E p \in {"idle", "after"} : pc' = [pc EXCEPT ![g] = p]
      BY <1>5 DEF Signal, Leave, Return, GoTo
    <2> QED
      BY <2>1, <2>2, <2>3, <2>5, <2>6, StoryHolder DEF Points, Telling
  <1> QED
    BY <1>1, <1>2, <1>3, <1>4, <1>5 DEF Adjust

\* Every step keeps the story.
LEMMA StoryNext ==
    BoundsInv /\ CtlTypeOK /\ StoryInv /\ [CtlNext]_ctlVars => StoryInv'
  <1> SUFFICES ASSUME BoundsInv, CtlTypeOK, StoryInv, [CtlNext]_ctlVars
               PROVE  StoryInv'
    OBVIOUS
  <1>t. /\ BoundsTypes /\ SignalTypes /\ HistoryTypes
        /\ pc \in [Actors -> Points] /\ job \in [Actors -> Adjustments]
    BY TypeByGroups DEF BoundsTypes
  <1>1. ASSUME NEW c \in Callers, NEW request \in Requests, Call(c, request)
        PROVE  StoryInv'
    <2> c \in Actors
      BY DEF Actors
    <2>1. UNCHANGED <<StoryVars, lock>> /\ pc[c] \notin Telling
      BY <1>1 DEF Call, countVars, signalVars, StoryVars, Telling
    <2>2. pc' = [pc EXCEPT ![c] = "check"]
      BY <1>1 DEF Call, GoTo
    <2>3. \A h \in Actors : h # c => job'[h] = job[h]
      BY <1>1, <1>t DEF Call
    <2> QED
      BY <1>t, <2>1, <2>2, <2>3, StoryAside DEF Points, Telling
  <1>2. ASSUME UNCHANGED <<StoryVars, lock, pc, job>> PROVE StoryInv'
    BY <1>2 DEF StoryVars, StoryInv, NetTold
  <1>3. CASE World \/ UNCHANGED ctlVars
    BY <1>2, <1>3 DEF World, SetScaling, MemoryChanges, CooldownElapses,
       TakeSignal, TakePause, ctlVars, countVars, signalVars, workVars,
       StoryVars
  <1> QED
    BY <1>t, <1>1, <1>3, StoryMonitor, StoryAdjust DEF CtlNext

\* Whoever adjusts the count, the history tells how it came about: each event
\* begins where the last one ended and the last one ends at the count, until a
\* low-memory branch for the tests overwrites it (recordScalingEvent).
THEOREM HistoryTellsCountHolds == CtlSpec => []HistoryTellsCount
  <1>1. StoryInv => HistoryTellsCount
    <2> SUFFICES ASSUME StoryInv, ~rigged, lock = NoOne
                 PROVE  Tells(history, active)
      BY DEF HistoryTellsCount, Tells, Follows
    <2>1. \A g \in Actors : pc[g] \notin Telling
      BY CountersAreBounded DEF StoryInv
    <2> QED
      BY <2>1 DEF StoryInv
  <1> QED
    BY <1>1, BoundsInit, BoundsNext, CtlTypeInit, CtlTypeNext, StoryInit,
       StoryNext, PTL DEF CtlSpec

\* A reader of the control channel that adds up the signals knows the count, as
\* long as none was thrown away, none was made up for the tests and only high
\* memory lowered it (sendWorkerControlSignals, sendMultipleSignals).
THEOREM SignalsTellCountHolds == CtlSpec => []SignalsTellCount
  <1>1. StoryInv => SignalsTellCount
    <2> SUFFICES ASSUME StoryInv, ~rigged, ~lost, ~misled,
                        lock = NoOne
                 PROVE  net = active - InitialWorkers
      BY DEF SignalsTellCount
    <2>1. \A g \in Actors : pc[g] \notin Telling
      BY CountersAreBounded DEF StoryInv
    <2> QED
      BY <2>1 DEF StoryInv, NetTold
  <1> QED
    BY <1>1, BoundsInit, BoundsNext, CtlTypeInit, CtlTypeNext, StoryInit,
       StoryNext, PTL DEF CtlSpec

-----------------------------------------------------------------------------
(***************************************************************************)
(* The ration.  The growths of a cooldown are made by monitors that began  *)
(* when none was running, each at most once; and consecutiveScaleUps was   *)
(* below its limit when each of the growths under way was allowed.         *)
(***************************************************************************)
Growing == {m \in Monitors : pc[m] # "idle" /\ job[m].why = "low"}
Adjusting == {"check", "lock", "apply", "record", "trim", "cut", "signal",
              "after", "forced"}
Allowed == {m \in Monitors : pc[m] \in Adjusting /\ job[m].why = "low"}

\* Deciding upon a growth, or in a branch for the tests, where events are
\* recorded without the lock.
Forcing(g) ==
    \/ pc[g] \in {"weigh", "limit", "force", "forced"}
    \/ pc[g] \in {"record", "trim", "cut"} /\ lock # g

RationInv ==
    /\ \A g \in Actors : Forcing(g) => job[g].why = "low"
    /\ "scale up" \notin cooling => grown = 0
    /\ grown + Cardinality(Growing) <= Cardinality(Monitors)
    /\ ~rigged /\ Monitors # {} =>
         ups + Cardinality(Allowed)
           < MaxConsecutiveScales + Cardinality(Monitors)

\* There are finitely many monitors, so that those under way can be counted.
LEMMA MonitorsCount ==
    /\ Cardinality(Monitors) \in Nat
    /\ \A S : S \subseteq Monitors =>
         /\ IsFiniteSet(S) /\ Cardinality(S) \in Nat
         /\ Cardinality(S) <= Cardinality(Monitors)
  <1>1. IsFiniteSet(Monitors)
    <2>1. Monitors \in SUBSET Actors
      BY DEF Actors
    <2> QED
      BY <2>1, FS_Subset, ControllerAssumption
  <1> QED
    BY <1>1, FS_Subset, FS_CardinalityType

\* The same of those that grow and of those that are allowed to.
LEMMA GrowingCount ==
    /\ Growing \subseteq Monitors /\ Allowed \subseteq Monitors
    /\ IsFiniteSet(Growing) /\ Cardinality(Growing) \in Nat
    /\ IsFiniteSet(Allowed) /\ Cardinality(Allowed) \in Nat
    /\ Cardinality(Growing) <= Cardinality(Monitors)
    /\ Cardinality(Allowed) <= Cardinality(Monitors)
  <1>1. Growing \subseteq Monitors /\ Allowed \subseteq Monitors
    BY DEF Growing, Allowed
  <1> QED
    BY <1>1, MonitorsCount

\* A new controller has grown nothing.
LEMMA RationInit == CtlInit => RationInv
  <1> SUFFICES ASSUME CtlInit PROVE RationInv
    OBVIOUS
  <1>1. \A g \in Actors : pc[g] = "idle"
    BY DEF CtlInit
  <1>2. grown = 0 /\ ups = 0
    BY DEF CtlInit
  <1>3. Growing = {} /\ Allowed = {}
    BY <1>1 DEF Growing, Allowed, Actors, Adjusting
  <1>4. Cardinality(Growing) = 0 /\ Cardinality(Allowed) = 0
    BY <1>3, FS_EmptySet
  <1>5. grown + Cardinality(Growing) <= Cardinality(Monitors)
    <2>1. PICK n \in Nat : n = Cardinality(Monitors)
      BY MonitorsCount
    <2>2. 0 + 0 <= n
      OBVIOUS
    <2>3. grown = 0 /\ Cardinality(Growing) = 0 /\ n = Cardinality(Monitors)
      BY <1>2, <1>4, <2>1
    <2> QED
      BY <2>2, <2>3, Zenon
  <1>6. ASSUME Monitors # {}
        PROVE  ups + Cardinality(Allowed)
                 < MaxConsecutiveScales + Cardinality(Monitors)
    <2>1. IsFiniteSet(Monitors)
      BY MonitorsCount
    <2>2. Cardinality(Monitors) > 0
      BY <1>6, <2>1, MonitorsCount, FS_EmptySet
    <2>3. MaxConsecutiveScales \in Nat
      BY ControllerAssumption
    <2> QED
      BY <1>2, <1>4, <2>2, <2>3, MonitorsCount
  <1> QED
    BY <1>1, <1>2, <1>5, <1>6 DEF RationInv, Forcing

\* Everybody but g stays where they are.
Elsewhere(g) ==
    \A h \in Actors : h # g => pc'[h] = pc[h] /\ job'[h] = job[h]

\* Only g can enter a branch for the tests.
LEMMA OthersForce ==
    ASSUME RationInv, NEW g \in Actors, Elsewhere(g),
           \A h \in Actors \ {g} : lock = h => lock' = h,
           Forcing(g)' => job'[g].why = "low"
    PROVE  \A h \in Actors : Forcing(h)' => job'[h].why = "low"
  BY DEF RationInv, Elsewhere, Forcing

\* Only g can begin to grow or cease to.
LEMMA OthersGrowOn ==
    ASSUME NEW g \in Actors, Elsewhere(g)
    PROVE  /\ Growing' \ {g} = Growing \ {g}
           /\ Allowed' \ {g} = Allowed \ {g}
           /\ g \notin Growing' \/ g \in Growing => Growing' \subseteq Growing
           /\ g \notin Allowed' \/ g \in Allowed => Allowed' \subseteq Allowed
  BY DEF Elsewhere, Growing, Allowed, Actors

\* The counts of fewer goroutines, with counters that did not rise.
LEMMA FewerAreUnder ==
    ASSUME NEW S, NEW T \in SUBSET S, IsFiniteSet(S)
    PROVE  \A m, n, limit \in Int :
             /\ n <= m /\ m + Cardinality(S) <= limit
                  => n + Cardinality(T) <= limit
             /\ n <= m /\ m + Cardinality(S) < limit
                  => n + Cardinality(T) < limit
  <1>1. PICK s, t \in Int : s = Cardinality(S) /\ t = Cardinality(T)
    BY FS_Subset, FS_CardinalityType
  <1>2. t <= s
    BY <1>1, FS_Subset
  <1> QED
    BY <1>1, <1>2

\* The two limits.
LEMMA LimitsCount ==
    /\ Cardinality(Monitors) \in Int
    /\ MaxConsecutiveScales + Cardinality(Monitors) \in Int
  <1>1. Cardinality(Monitors) \in Nat
    BY MonitorsCount
  <1>2. MaxConsecutiveScales \in Nat
    BY ControllerAssumption
  <1> QED
    BY <1>1, <1>2

\* The two counters, before and after a step.
LEMMA RationNumbers ==
    /\ RationTypes => ups \in Int /\ grown \in Int
    /\ RationTypes' => ups' \in Int /\ grown' \in Int
  <1>1. RationTypes => ups \in Nat /\ grown \in Nat
    BY DEF RationTypes
  <1>2. RationTypes' => ups' \in Nat /\ grown' \in Nat
    BY DEF RationTypes
  <1> QED
    BY <1>1, <1>2

\* A step of a goroutine that begins no growth, and whatever lowers the counts.
LEMMA RationKept ==
    ASSUME RationInv, RationTypes, RationTypes', rigged => rigged',
           Growing' \subseteq Growing, Allowed' \subseteq Allowed,
           \A m \in Actors : Forcing(m)' => job'[m].why = "low",
           "scale up" \notin cooling' => grown' = 0,
           grown' <= grown, ups' <= ups
    PROVE  RationInv'
  <1>1. /\ ups \in Int /\ grown \in Int /\ ups' \in Int /\ grown' \in Int
    BY RationNumbers
  <1>2. /\ Growing' \in SUBSET Growing /\ Allowed' \in SUBSET Allowed
        /\ IsFiniteSet(Growing) /\ IsFiniteSet(Allowed)
    BY GrowingCount
  <1>3. /\ Cardinality(Monitors) \in Int
        /\ MaxConsecutiveScales + Cardinality(Monitors) \in Int
    BY LimitsCount
  <1>4. grown' + Cardinality(Growing') <= Cardinality(Monitors)
    <2>1. grown + Cardinality(Growing) <= Cardinality(Monitors)
      BY DEF RationInv
    <2> QED
      BY <1>1, <1>2, <1>3, <2>1, FewerAreUnder
  <1>5. ASSUME ~rigged', Monitors # {}
        PROVE  ups' + Cardinality(Allowed')
                 < MaxConsecutiveScales + Cardinality(Monitors)
    <2>1. ups + Cardinality(Allowed)
            < MaxConsecutiveScales + Cardinality(Monitors)
      BY <1>5 DEF RationInv
    <2> QED
      BY <1>1, <1>2, <1>3, <2>1, FewerAreUnder
  <1> QED
    BY <1>4, <1>5 DEF RationInv

\* A monitor that looks, decides or is done without having grown.
LEMMA RationMonitor ==
    ASSUME RationInv, BoundsTypes, RationTypes, RationTypes',
           NEW m \in Monitors,
           Tick(m) \/ Shrink(m) \/ AfterShrinking(m) \/ AfterCritical(m)
             \/ ForceCount(m)
    PROVE  RationInv'
  <1> m \in Actors
    BY DEF Actors
  <1>t. pc \in [Actors -> Points] /\ job \in [Actors -> Adjustments]
    BY DEF BoundsTypes
  <1>1. CASE Tick(m) /\ mem = "low"
    <2>1. /\ pc[m] = "idle" /\ pc'[m] = "read" /\ cooling = {}
          /\ UNCHANGED <<rationVars, rigged, lock>> /\ Elsewhere(m)
      BY <1>1, <1>t DEF Tick, GoTo, Elsewhere
    <2>2. grown' = 0
      BY <2>1 DEF rationVars, RationInv
    <2>3. Allowed' = Allowed
      BY <2>1, OthersGrowOn DEF Allowed, Adjusting
    <2>4. Growing' \subseteq Monitors
      BY DEF Growing
    <2>5. grown' + Cardinality(Growing') <= Cardinality(Monitors)
      BY <2>2, <2>4, MonitorsCount
    <2>6. \A h \in Actors : Forcing(h)' => job'[h].why = "low"
      BY <2>1, OthersForce DEF Forcing
    <2> QED
      BY <2>1, <2>2, <2>3, <2>5, <2>6 DEF rationVars, RationInv
  <1>2. CASE \/ Tick(m) /\ mem # "low"
             \/ Shrink(m) \/ AfterShrinking(m) \/ AfterCritical(m)
    <2>1. Elsewhere(m) /\ UNCHANGED <<grown, cooling, rigged, lock>>
      BY <1>2, <1>t DEF Tick, Shrink, AfterShrinking, AfterCritical, GoTo,
         Return, Elsewhere, rationVars
    <2>2. job'[m].why # "low"
      BY <1>2, <1>t DEF Tick, Shrink, AfterShrinking, AfterCritical, Return,
         NoJob, Adjustments
    <2>3. pc'[m] \in {"idle", "read", "check"}
      BY <1>2, <1>t DEF Tick, Shrink, AfterShrinking, AfterCritical, GoTo,
         Return
    <2>4. Growing' \subseteq Growing /\ Allowed' \subseteq Allowed
      BY <2>1, <2>2, OthersGrowOn DEF Growing, Allowed
    <2>5. ups' = ups \/ ups' = 0
      BY <1>2 DEF Tick, Shrink, AfterShrinking, AfterCritical, Counts,
         AfterDecrease, rationVars
    <2>6. ups' <= ups /\ grown' <= grown
      <3>1. ups \in Nat /\ grown \in Nat
        BY DEF RationTypes
      <3> QED
        BY <2>1, <2>5, <3>1
    <2>7. \A h \in Actors : Forcing(h)' => job'[h].why = "low"
      BY <2>1, <2>3, OthersForce DEF Forcing
    <2>8. "scale up" \notin cooling' => grown' = 0
      BY <2>1 DEF RationInv
    <2> QED
      BY <2>1, <2>4, <2>6, <2>7, <2>8, RationKept
  <1>3. CASE ForceCount(m)
    <2>1. /\ Elsewhere(m) /\ UNCHANGED <<rationVars, lock>>
          /\ rigged' = TRUE /\ pc[m] = "force" /\ pc'[m] = "record"
      BY <1>3, <1>t DEF ForceCount, GoTo, Elsewhere
    <2>2. job'[m].why = job[m].why
      BY <1>3, <1>t DEF ForceCount, Adjustments
    <2>3. Growing' = Growing
      BY <2>1, <2>2, OthersGrowOn DEF Growing
    <2>4. job[m].why = "low"
      BY <2>1 DEF Forcing, RationInv
    <2>5. \A h \in Actors : Forcing(h)' => job'[h].why = "low"
      BY <2>1, <2>2, <2>4, OthersForce
    <2> QED
      BY <2>1, <2>3, <2>5 DEF rationVars, RationInv
  <1> QED
    BY <1>1, <1>2, <1>3

\* A monitor that weighs a growth.
LEMMA RationWeigh ==
    ASSUME RationInv, BoundsTypes, RationTypes, RationTypes',
           NEW m \in Monitors, ReadCount(m) \/ Weigh(m)
    PROVE  RationInv'
  <1> m \in Actors
    BY DEF Actors
  <1>t. pc \in [Actors -> Points] /\ job \in [Actors -> Adjustments]
    BY DEF BoundsTypes
  <1>1. /\ Elsewhere(m) /\ UNCHANGED <<rationVars, rigged, lock>>
        /\ pc[m] \in {"read", "weigh"} /\ job[m].why = "low"
        /\ pc'[m] \in {"weigh", "limit", "force"}
    BY <1>t DEF ReadCount, Weigh, GoTo, Elsewhere, Forcing, RationInv
  <1>2. job'[m].why = "low"
    BY <1>1, <1>t DEF ReadCount, Weigh, Adjustments
  <1>3. Growing' \subseteq Growing
    BY <1>1, OthersGrowOn DEF Growing
  <1>4. Allowed' \subseteq Allowed
    BY <1>1, OthersGrowOn DEF Allowed, Adjusting
  <1>5. \A h \in Actors : Forcing(h)' => job'[h].why = "low"
    BY <1>1, <1>2, OthersForce
  <1>6. "scale up" \notin cooling' => grown' = 0
    BY <1>1 DEF rationVars, RationInv
  <1>7. ups' <= ups /\ grown' <= grown
    <2>1. ups \in Nat /\ grown \in Nat
      BY DEF RationTypes
    <2> QED
      BY <1>1, <2>1 DEF rationVars
  <1> QED
    BY <1>1, <1>3, <1>4, <1>5, <1>6, <1>7, RationKept

\* A growth is allowed while consecutiveScaleUps is below its limit.
LEMMA RationGrow ==
    ASSUME RationInv, BoundsTypes, RationTypes, RationTypes',
           NEW m \in Monitors, Grow(m)
    PROVE  RationInv'
  <1> m \in Actors
    BY DEF Actors
  <1>t. pc \in [Actors -> Points] /\ job \in [Actors -> Adjustments]
    BY DEF BoundsTypes
  <1>1. /\ Elsewhere(m) /\ UNCHANGED <<rationVars, rigged, lock>>
        /\ pc[m] = "limit" /\ pc'[m] \in {"idle", "check"}
        /\ pc'[m] = "check" => job'[m].why = job[m].why
    BY <1>t DEF Grow, GoTo, Return, Elsewhere, Adjustments
  <1>2. Growing' \subseteq Growing
    BY <1>1, OthersGrowOn DEF Growing
  <1>3. \A h \in Actors : Forcing(h)' => job'[h].why = "low"
    BY <1>1, OthersForce DEF Forcing
  <1>4. "scale up" \notin cooling' => grown' = 0
    BY <1>1 DEF rationVars, RationInv
  <1>5. ups' <= ups /\ grown' <= grown
    <2>1. ups \in Nat /\ grown \in Nat
      BY DEF RationTypes
    <2> QED
      BY <1>1, <2>1 DEF rationVars
  <1>6. CASE m \notin Allowed'
    <2>1. Allowed' \subseteq Allowed
      BY <1>1, <1>6, OthersGrowOn
    <2> QED
      BY <1>1, <1>2, <1>3, <1>4, <1>5, <2>1, RationKept
  <1>7. CASE m \in Allowed'
    <2>1. pc'[m] # "idle"
      BY <1>7 DEF Allowed, Adjusting
    <2>2. ~(ups >= MaxConsecutiveScales)
      BY <1>t, <2>1 DEF Grow, AtLimit, GoTo, Return
    <2>3. ups' + Cardinality(Allowed')
            < MaxConsecutiveScales + Cardinality(Monitors)
      <3>1. PICK a, b, c, d \in Int :
              /\ a = ups' /\ b = Cardinality(Allowed')
              /\ c = MaxConsecutiveScales /\ d = Cardinality(Monitors)
        <4>1. Allowed' \subseteq Monitors
          BY DEF Allowed
        <4>2. ups' \in Nat /\ MaxConsecutiveScales \in Nat
          BY ControllerAssumption DEF RationTypes
        <4>3. Cardinality(Allowed') \in Nat /\ Cardinality(Monitors) \in Nat
          BY <4>1, MonitorsCount
        <4> QED
          BY <4>2, <4>3
      <3>2. b <= d
        <4>1. Allowed' \subseteq Monitors
          BY DEF Allowed
        <4> QED
          BY <3>1, <4>1, MonitorsCount
      <3>3. a < c
        BY <1>1, <2>2, <3>1 DEF rationVars
      <3>4. a + b < c + d
        BY <3>2, <3>3
      <3> QED
        BY <3>1, <3>4
    <2>4. grown' + Cardinality(Growing') <= Cardinality(Monitors)
      <3>1. Growing' \in SUBSET Growing /\ IsFiniteSet(Growing)
        BY <1>2, GrowingCount
      <3>2. grown + Cardinality(Growing) <= Cardinality(Monitors)
        BY DEF RationInv
      <3> QED
        BY <1>5, <3>1, <3>2, FewerAreUnder, LimitsCount, RationNumbers
    <2> QED
      BY <1>3, <1>4, <2>3, <2>4 DEF RationInv
  <1> QED
    BY <1>6, <1>7

\* A growth is counted by the monitor that made it, which is then done; the
\* branches for the tests are taken only after the count was overwritten.
LEMMA RationGrown ==
    ASSUME RationInv, StoryInv, BoundsTypes, RationTypes, RationTypes',
           NEW m \in Monitors, AfterGrowth(m) \/ ForceEnds(m)
    PROVE  RationInv'
  <1> m \in Actors
    BY DEF Actors
  <1>t. pc \in [Actors -> Points] /\ job \in [Actors -> Adjustments]
    BY DEF BoundsTypes
  <1>1. /\ Elsewhere(m) /\ UNCHANGED <<rigged, lock>>
        /\ pc[m] \in {"after", "forced"}
        /\ pc'[m] = "idle"
        /\ grown' = grown + 1 /\ "scale up" \in cooling'
    BY <1>t DEF AfterGrowth, ForceEnds, Return, GoTo, Cooled, Elsewhere
  <1>2. job[m].why = "low"
    BY DEF AfterGrowth, ForceEnds, Forcing, RationInv
  <1>3. m \in Growing /\ Growing' = Growing \ {m}
    <2>1. m \in Growing /\ m \notin Growing'
      BY <1>1, <1>2 DEF Growing
    <2> QED
      BY <1>1, <2>1, OthersGrowOn
  <1>4. grown' + Cardinality(Growing') <= Cardinality(Monitors)
    <2>1. Cardinality(Growing') = Cardinality(Growing) - 1
      BY <1>3, GrowingCount, FS_RemoveElement
    <2>2. PICK a, b, c \in Int :
            a = grown /\ b = Cardinality(Growing) /\ c = Cardinality(Monitors)
      BY GrowingCount, LimitsCount, RationNumbers
    <2>3. a + b <= c
      BY <2>2 DEF RationInv
    <2>4. (a + 1) + (b - 1) <= c
      BY <2>3
    <2> QED
      BY <1>1, <2>1, <2>2, <2>4
  <1>5. \A h \in Actors : Forcing(h)' => job'[h].why = "low"
    BY <1>1, OthersForce DEF Forcing
  <1>6. ASSUME ~rigged', Monitors # {}
        PROVE  ups' + Cardinality(Allowed')
                 < MaxConsecutiveScales + Cardinality(Monitors)
    <2>1. AfterGrowth(m) /\ pc[m] = "after"
      BY <1>1, <1>6 DEF ForceEnds, AfterGrowth, StoryInv
    <2>2. m \in Allowed /\ Allowed' = Allowed \ {m}
      <3>1. m \in Allowed /\ m \notin Allowed'
        BY <1>1, <1>2, <2>1 DEF Allowed, Adjusting
      <3> QED
        BY <1>1, <3>1, OthersGrowOn
    <2>3. Cardinality(Allowed') = Cardinality(Allowed) - 1
      BY <2>2, GrowingCount, FS_RemoveElement
    <2>4. ups' = ups + 1 \/ ups' = ups
      BY <2>1 DEF AfterGrowth, Counts
    <2>5. PICK a, b, c \in Int :
            /\ a = ups /\ b = Cardinality(Allowed)
            /\ c = MaxConsecutiveScales + Cardinality(Monitors)
      BY GrowingCount, LimitsCount, RationNumbers
    <2>6. a + b < c
      BY <1>1, <1>6, <2>5 DEF RationInv
    <2>7. (a + 1) + (b - 1) < c /\ a + (b - 1) < c
      BY <2>6
    <2> QED
      BY <2>3, <2>4, <2>5, <2>7
  <1> QED
    BY <1>1, <1>4, <1>5, <1>6 DEF RationInv

\* A step that changes neither counter nor begins a growth.
LEMMA RationAside ==
    ASSUME RationInv, RationTypes, RationTypes', NEW g \in Actors,
           Elsewhere(g), UNCHANGED <<rationVars, rigged>>,
           g \in Monitors => job'[g].why = job[g].why,
           g \in Monitors =>
             pc[g] \in Adjusting /\ pc'[g] \in Adjusting,
           \A h \in Actors : Forcing(h)' => job'[h].why = "low"
    PROVE  RationInv'
  <1>1. Growing' \subseteq Growing /\ Allowed' \subseteq Allowed
    BY OthersGrowOn DEF Growing, Allowed, Adjusting
  <1>2. ups' <= ups /\ grown' <= grown
    BY RationNumbers DEF rationVars
  <1>4. "scale up" \notin cooling' => grown' = 0
    BY DEF rationVars, RationInv
  <1> QED
    BY <1>1, <1>2, <1>4, RationKept

\* AdjustWorkerCount leaves the counters to its caller.
LEMMA RationAdjust ==
    ASSUME RationInv, BoundsInv, RationTypes, RationTypes',
           NEW g \in Actors, Adjust(g)
    PROVE  RationInv'
  <1>t. pc \in [Actors -> Points] /\ job \in [Actors -> Adjustments]
    BY DEF BoundsInv, BoundsTypes
  <1> USE DEF Recorded
  <1>1. Elsewhere(g) /\ UNCHANGED <<rationVars, rigged>>
    BY <1>t DEF Adjust, CheckEnabled, Acquire, Apply, Record, Trim, Cut,
       Signal, Leave, Return, GoTo, Elsewhere, workVars
  <1>2. /\ pc[g] \in Adjusting /\ pc'[g] \in Adjusting \union {"idle"}
        /\ g \in Monitors => pc'[g] # "idle"
    BY <1>t DEF Adjust, CheckEnabled, Acquire, Apply, Record, Trim, Cut,
       Signal, Leave, Return, GoTo, Adjusting
  <1>3. g \in Monitors => job'[g].why = job[g].why
    BY <1>t DEF Adjust, CheckEnabled, Acquire, Apply, Record, Trim, Cut,
       Signal, Leave, Adjustments
  <1>4. \A h \in Actors \ {g} : lock = h => lock' = h
    BY CountersAreBounded
       DEF Adjust, CheckEnabled, Acquire, Apply, Record, Trim, Cut, Signal,
           BoundsInv, LockHeld
  <1>5. Forcing(g)' => job'[g].why = "low"
    <2>1. CASE Record(g) \/ Trim(g) \/ Cut(g)
      <3>1. UNCHANGED <<lock, job>>
        BY <2>1 DEF Record, Trim, Cut
      <3>2. Forcing(g)' => Forcing(g)
        BY <1>t, <2>1, <3>1 DEF Record, Trim, Cut, GoTo, Forcing
      <3> QED
        BY <3>1, <3>2 DEF RationInv
    <2>2. CASE CheckEnabled(g) \/ Acquire(g) \/ Signal(g)
      <3>1. pc'[g] \in {"lock", "apply", "after", "idle"}
        BY <1>t, <2>2 DEF CheckEnabled, Acquire, Signal, Leave, Return, GoTo
      <3> QED
        BY <3>1 DEF Forcing
    <2>3. CASE Apply(g)
      <3>1. pc'[g] = "record" /\ lock' = g
        BY <1>t, <2>3 DEF Apply, GoTo, BoundsInv, LockHeld
      <3> QED
        BY <3>1 DEF Forcing
    <2> QED
      BY <2>1, <2>2, <2>3 DEF Adjust
  <1>6. \A h \in Actors : Forcing(h)' => job'[h].why = "low"
    BY <1>1, <1>4, <1>5, OthersForce
  <1> QED
    BY <1>1, <1>2, <1>3, <1>6, RationAside

\* A number that stands, or is set to zero, has not grown.
LEMMA KeptOrCleared ==
    \A n, m, p, q : /\ n \in Nat /\ p \in Nat
                    /\ m = n
                    /\ q = 0 \/ q = p
                    => m <= n /\ q <= p
  OBVIOUS

\* Every step keeps the ration.
LEMMA RationNext ==
    BoundsInv /\ CtlTypeOK /\ StoryInv /\ RationInv /\ [CtlNext]_ctlVars
      => RationInv'
  <1> SUFFICES ASSUME BoundsInv, CtlTypeOK, StoryInv, RationInv,
                      [CtlNext]_ctlVars
               PROVE  RationInv'
    OBVIOUS
  <1>t. /\ BoundsTypes /\ RationTypes /\ RationTypes'
        /\ pc \in [Actors -> Points] /\ job \in [Actors -> Adjustments]
    BY TypeByGroups, TypeEverybody DEF BoundsTypes
  <1>1. ASSUME NEW c \in Callers, NEW request \in Requests, Call(c, request)
        PROVE  RationInv'
    <2> c \in Actors /\ c \notin Monitors
      BY ControllerAssumption DEF Actors
    <2>1. /\ Elsewhere(c) /\ UNCHANGED <<rationVars, rigged, lock>>
          /\ pc'[c] = "check"
      BY <1>1, <1>t DEF Call, GoTo, Elsewhere
    <2>2. \A h \in Actors : Forcing(h)' => job'[h].why = "low"
      BY <2>1, OthersForce DEF Forcing
    <2> QED
      BY <1>t, <2>1, <2>2, RationAside
  <1>2. ASSUME NEW m \in Monitors, Monitor(m) PROVE RationInv'
    BY <1>2, <1>t, RationMonitor, RationWeigh, RationGrow, RationGrown
       DEF Monitor
  <1>3. ASSUME NEW g \in Actors, Adjust(g) PROVE RationInv'
    BY <1>t, <1>3, RationAdjust
  <1>4. ASSUME NEW c \in {"scale down", "scale up"}, CooldownElapses(c)
        PROVE  RationInv'
    <2>1. UNCHANGED <<pc, job, ups, rigged, lock>> /\ cooling' = cooling \ {c}
          /\ grown' = (IF c = "scale up" THEN 0 ELSE grown)
      BY <1>4 DEF CooldownElapses, workVars
    <2>2. Growing' = Growing /\ Allowed' = Allowed
      BY <2>1 DEF Growing, Allowed
    <2>3. ups' <= ups /\ grown' <= grown
      <3>1. ups \in Nat /\ grown \in Nat
        BY <1>t DEF RationTypes
      <3>2. ups' = ups
        BY <1>4 DEF CooldownElapses
      <3>3. grown' = 0 \/ grown' = grown
        BY <2>1, Zenon
      <3> QED
        BY <3>1, <3>2, <3>3, KeptOrCleared, Zenon
    <2>4. "scale up" \notin cooling' => grown' = 0
      BY <2>1 DEF RationInv
    <2>5. \A h \in Actors : Forcing(h)' => job'[h].why = "low"
      BY <2>1 DEF Forcing, RationInv
    <2> QED
      BY <1>t, <2>1, <2>2, <2>3, <2>4, <2>5, RationKept
  <1>5. CASE \/ SetScaling \/ MemoryChanges \/ TakeSignal \/ TakePause
             \/ UNCHANGED ctlVars
    <2>1. UNCHANGED <<rationVars, pc, job, rigged, lock>>
      BY <1>5 DEF SetScaling, MemoryChanges, TakeSignal, TakePause, workVars,
         ctlVars
    <2>2. Growing' = Growing /\ Allowed' = Allowed
      BY <2>1 DEF Growing, Allowed
    <2> QED
      BY <2>1, <2>2 DEF rationVars, RationInv, Forcing
  <1> QED
    BY <1>1, <1>2, <1>3, <1>4, <1>5 DEF CtlNext, World

\* However many monitors overlap, each grows the count once in a cooldown
\* (handleLowMemoryUsage, RecordScaleUp).
THEOREM GrowthCoolsDownHolds == CtlSpec => []GrowthCoolsDown
  <1>1. CtlTypeOK /\ RationInv => GrowthCoolsDown
    <2> SUFFICES ASSUME CtlTypeOK, RationInv PROVE GrowthCoolsDown
      OBVIOUS
    <2>1. RationTypes
      BY TypeByGroups
    <2>2. PICK a, b, c \in Int :
            /\ a = grown /\ b = Cardinality(Growing)
            /\ c = Cardinality(Monitors)
      BY <2>1, GrowingCount, LimitsCount, RationNumbers
    <2>3. b >= 0
      BY <2>2, GrowingCount
    <2>4. a + b <= c
      BY <2>2 DEF RationInv
    <2>5. a <= c
      BY <2>3, <2>4
    <2> QED
      BY <2>2, <2>5 DEF GrowthCoolsDown
  <1> QED
    BY <1>1, BoundsInit, BoundsNext, CtlTypeInit, CtlTypeNext, StoryInit,
       StoryNext, RationInit, RationNext, PTL DEF CtlSpec

\* However many monitors overlap, consecutiveScaleUps passes its limit by fewer
\* than there are monitors, until a branch for the tests was taken
\* (handleLowMemoryUsage).
THEOREM GrowthIsLimitedHolds == CtlSpec => []GrowthIsLimited
  <1>1. CtlTypeOK /\ RationInv => GrowthIsLimited
    <2> SUFFICES ASSUME CtlTypeOK, RationInv, ~rigged, Monitors # {}
                 PROVE  ups < MaxConsecutiveScales + Cardinality(Monitors)
      BY DEF GrowthIsLimited
    <2>1. RationTypes
      BY TypeByGroups
    <2>2. PICK d, e, f \in Int :
            /\ d = ups /\ e = Cardinality(Allowed)
            /\ f = MaxConsecutiveScales + Cardinality(Monitors)
      BY <2>1, GrowingCount, LimitsCount, RationNumbers
    <2>3. e >= 0
      BY <2>2, GrowingCount
    <2>4. d + e < f
      BY <2>2 DEF RationInv
    <2>5. d < f
      BY <2>3, <2>4
    <2> QED
      BY <2>2, <2>5
  <1> QED
    BY <1>1, BoundsInit, BoundsNext, CtlTypeInit, CtlTypeNext, StoryInit,
       StoryNext, RationInit, RationNext, PTL DEF CtlSpec

-----------------------------------------------------------------------------
(***************************************************************************)
(* After scaling was disabled, a goroutine that made the adjustment it had *)
(* begun is past the points from which it could make another.              *)
(***************************************************************************)
Settled == {"idle", "check", "trim", "cut", "signal", "forced", "after"}

SettleInv ==
    ~enabled => \A g \in Actors :
                  /\ late[g] <= 1
                  /\ late[g] = 1 => pc[g] \in Settled

\* A goroutine that moves, and is not where it could make another adjustment
\* unless it has made none or scaling is enabled.
LEMMA SettleMoves ==
    ASSUME SettleInv, BoundsTypes, OtherTypes, NEW g \in Actors, Elsewhere(g),
           UNCHANGED <<enabled, late>>,
           enabled \/ pc[g] \notin Settled \/ pc'[g] \in Settled
    PROVE  SettleInv'
  BY DEF SettleInv, Elsewhere

\* A goroutine that records its adjustment.
LEMMA SettleRecords ==
    ASSUME SettleInv, BoundsTypes, OtherTypes, NEW g \in Actors, Elsewhere(g),
           UNCHANGED enabled, Late(g), pc[g] \notin Settled, pc'[g] \in Settled
    PROVE  SettleInv'
  <1> SUFFICES ASSUME ~enabled, NEW h \in Actors
               PROVE  late'[h] <= 1 /\ (late'[h] = 1 => pc'[h] \in Settled)
    BY DEF SettleInv
  <1>t. late \in [Actors -> Nat]
    BY DEF OtherTypes
  <1>1. CASE h # g
    <2>1. late'[h] = late[h] /\ pc'[h] = pc[h]
      BY <1>t, <1>1 DEF Late, Elsewhere
    <2> QED
      BY <2>1 DEF SettleInv
  <1>2. CASE h = g
    <2>1. late[g] \in Nat /\ late[g] <= 1 /\ late[g] # 1
      BY <1>t DEF SettleInv
    <2>2. late[g] = 0
      BY <2>1
    <2>3. late'[g] = 1
      BY <1>t, <2>2 DEF Late
    <2> QED
      BY <1>2, <2>3
  <1> QED
    BY <1>1, <1>2

\* Every step keeps it.
LEMMA SettleNext ==
    CtlTypeOK /\ SettleInv /\ [CtlNext]_ctlVars => SettleInv'
  <1> SUFFICES ASSUME CtlTypeOK, SettleInv, [CtlNext]_ctlVars
               PROVE  SettleInv'
    OBVIOUS
  <1>t. /\ BoundsTypes /\ OtherTypes
        /\ pc \in [Actors -> Points] /\ job \in [Actors -> Adjustments]
        /\ late \in [Actors -> Nat]
    BY TypeByGroups DEF BoundsTypes, OtherTypes
  <1>1. ASSUME NEW m \in Monitors, Monitor(m) PROVE SettleInv'
    <2> m \in Actors
      BY DEF Actors
    <2>1. Elsewhere(m) /\ UNCHANGED <<enabled, late>>
      BY <1>1, <1>t DEF Monitor, Tick, Shrink, ReadCount, Weigh, Grow,
         ForceCount, ForceEnds, AfterGrowth, AfterShrinking, AfterCritical,
         Return, GoTo, Elsewhere, worldVars
    <2>2. enabled \/ pc[m] \notin Settled \/ pc'[m] \in Settled
      BY <1>1, <1>t DEF Monitor, Tick, Shrink, ReadCount, Weigh, Grow,
         ForceCount, ForceEnds, AfterGrowth, AfterShrinking, AfterCritical,
         Return, GoTo, Settled
    <2> QED
      BY <1>t, <2>1, <2>2, SettleMoves
  <1>2. ASSUME NEW c \in Callers, NEW request \in Requests, Call(c, request)
        PROVE  SettleInv'
    <2> c \in Actors
      BY DEF Actors
    <2>1. /\ Elsewhere(c) /\ UNCHANGED <<enabled, late>> /\ pc'[c] = "check"
      BY <1>2, <1>t DEF Call, GoTo, Elsewhere, worldVars
    <2> QED
      BY <1>t, <2>1, SettleMoves DEF Settled
  <1>3. ASSUME NEW g \in Actors, Adjust(g) PROVE SettleInv'
    <2>1. CASE Record(g)
      <3>1. /\ Elsewhere(g) /\ UNCHANGED enabled /\ Late(g)
            /\ pc[g] = "record" /\ pc'[g] = "trim"
        BY <1>t, <2>1 DEF Record, GoTo, Elsewhere, worldVars
      <3> QED
        BY <1>t, <3>1, SettleRecords DEF Settled
    <2>2. CASE CheckEnabled(g)
      <3>1. /\ Elsewhere(g) /\ UNCHANGED <<enabled, late>>
            /\ enabled \/ pc'[g] \in {"idle", "after"}
        BY <1>t, <2>2 DEF CheckEnabled, ScalingIsOn, Leave, Return, GoTo,
           Elsewhere, worldVars
      <3> QED
        BY <1>t, <3>1, SettleMoves DEF Settled
    <2>3. CASE Acquire(g) \/ Apply(g)
      <3>1. /\ Elsewhere(g) /\ UNCHANGED <<enabled, late>>
            /\ pc[g] \in {"lock", "apply"}
        BY <1>t, <2>3 DEF Acquire, Apply, GoTo, Elsewhere, worldVars
      <3> QED
        BY <1>t, <3>1, SettleMoves DEF Settled
    <2>4. CASE Trim(g) \/ Cut(g) \/ Signal(g)
      <3>1. /\ Elsewhere(g) /\ UNCHANGED <<enabled, late>>
            /\ pc'[g] \in {"cut", "signal", "forced", "idle", "after"}
        BY <1>t, <2>4 DEF Trim, Cut, Signal, Recorded, Leave, Return, GoTo,
           Elsewhere, worldVars
      <3> QED
        BY <1>t, <3>1, SettleMoves DEF Settled
    <2> QED
      BY <1>3, <2>1, <2>2, <2>3, <2>4 DEF Adjust
  <1>4. CASE SetScaling
    <2>1. \A g \in Actors : late'[g] = 0
      BY <1>4 DEF SetScaling
    <2> QED
      BY <2>1 DEF SettleInv
  <1>5. CASE \/ MemoryChanges \/ TakeSignal \/ TakePause
             \/ \E c \in {"scale down", "scale up"} : CooldownElapses(c)
             \/ UNCHANGED ctlVars
    <2>1. UNCHANGED <<enabled, late, pc>>
      BY <1>5 DEF MemoryChanges, TakeSignal, TakePause, CooldownElapses,
         workVars, worldVars, ctlVars
    <2> QED
      BY <2>1 DEF SettleInv
  <1> QED
    BY <1>1, <1>2, <1>3, <1>4, <1>5 DEF CtlNext, World

\* Once scaling is disabled each goroutine makes at most the one adjustment that
\* had passed its check, however many there are and however often scaling is
\* switched (AdjustWorkerCount, AdjustBasedOnResourceUsage).
THEOREM DisabledSettlesHolds == CtlSpec => []DisabledSettles
  <1>1. CtlInit => SettleInv
    BY DEF CtlInit, SettleInv
  <1>2. SettleInv => DisabledSettles
    BY DEF SettleInv, DisabledSettles
  <1> QED
    BY <1>1, <1>2, BoundsInit, BoundsNext, CtlTypeInit, CtlTypeNext,
       SettleNext, PTL DEF CtlSpec
=============================================================================
