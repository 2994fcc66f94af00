---------------------------- MODULE PartsProofs ----------------------------
(***************************************************************************)
(* The object pool, the loop of the resource monitor and the validation of *)
(* a configuration, each for every value of its constants: how the pool    *)
(* accounts for its objects, how cleanups are rationed, and what a         *)
(* configuration that NewManager accepts may be relied on for.             *)
(***************************************************************************)
EXTENDS ObjectPool, ResourceMonitor, Configuration, FiniteSetTheorems,
        SequenceTheorems, TLAPS

-----------------------------------------------------------------------------
(* The configuration. *)

Floats == Int \union {NaN}
Configs == [initial : Int, max : Int, min : Int, queue : Int, up : Floats,
            down : Floats, low : Floats, high : Floats, interval : Int]

Phases == {"building", "rejected", "made", "monitored", "crashed"}

\* A manager is made of an accepted configuration that has room for a queue,
\* and is monitored if a ticker can be made of its interval, too.
ConfigInv ==
    /\ config \in Configs
    /\ phase \in Phases
    /\ phase \in {"made", "monitored"} =>
         Accepted(config) /\ ~BadCapacity(config)
    /\ phase = "crashed" => BadCapacity(config) \/ BadTicker(config)
    /\ phase = "monitored" => ~BadTicker(config)

\* Every option sets numbers.
LEMMA OptionsSetNumbers ==
    ASSUME config \in Configs, Settings
    PROVE  config' \in Configs
  <1>1. CASE \E n \in Counts : \/ config' = [config EXCEPT !.initial = n]
                               \/ config' = [config EXCEPT !.max = n]
                               \/ config' = [config EXCEPT !.min = n]
                               \/ config' = [config EXCEPT !.queue = n]
    BY <1>1, ConfigAssumption DEF Configs, Floats
  <1>2. CASE \E f, g \in Factors :
               config' = [config EXCEPT !.up = f, !.down = g]
    BY <1>2, ConfigAssumption DEF Configs, Floats
  <1>3. CASE \E l, h \in Marks : config' = [config EXCEPT !.low = l, !.high = h]
    BY <1>3, ConfigAssumption DEF Configs, Floats
  <1>4. CASE \E d \in Intervals : config' = [config EXCEPT !.interval = d]
    BY <1>4, ConfigAssumption DEF Configs, Floats
  <1> QED
    BY <1>1, <1>2, <1>3, <1>4 DEF Settings

\* A configuration that is monitored was accepted first.
LEMMA ConfigInvHolds == ConfigSpec => []ConfigInv
  <1>1. ConfigInit => ConfigInv
    BY DEF ConfigInit, ConfigInv, DefaultConfig, Configs, Floats, Phases
  <1>2. ConfigInv /\ [ConfigNext]_configVars => ConfigInv'
    <2> SUFFICES ASSUME ConfigInv, [ConfigNext]_configVars PROVE ConfigInv'
      OBVIOUS
    <2>1. CASE ApplyOption
      <3>1. config' \in Configs
        BY <2>1, OptionsSetNumbers DEF ApplyOption, ConfigInv
      <3> QED
        BY <2>1, <3>1 DEF ApplyOption, ConfigInv
    <2>2. CASE NewManager
      BY <2>2 DEF NewManager, ConfigInv, Phases
    <2>3. CASE StartManager
      BY <2>3 DEF StartManager, ConfigInv, Phases
    <2>4. CASE UNCHANGED configVars
      <3>1. config' = config /\ phase' = phase
        BY <2>4 DEF configVars
      <3>2. /\ Accepted(config') <=> Accepted(config)
            /\ BadCapacity(config') <=> BadCapacity(config)
            /\ BadTicker(config') <=> BadTicker(config)
        BY <3>1, Zenon
      <3> QED
        BY <3>1, <3>2 DEF ConfigInv
    <2> QED
      BY <2>1, <2>2, <2>3, <2>4 DEF ConfigNext
  <1> QED
    BY <1>1, <1>2, PTL DEF ConfigSpec

\* From a high mark on, the critical mark is no lower, unless it is capped.
LEMMA CriticalIsHigh ==
    ASSUME NEW c \in Configs, ValidMarks(c)
    PROVE  /\ c.high # NaN /\ c.high <= 95 => CriticalMark(c) >= c.high
           /\ Compares(c.low, c.high) /\ c.low <= 95 =>
                CriticalMark(c) >= c.low
  <1>1. SUFFICES ASSUME c.high # NaN
                 PROVE  /\ c.high <= 95 => CriticalMark(c) >= c.high
                        /\ c.low # NaN /\ c.low <= 95 =>
                             CriticalMark(c) >= c.low
    BY DEF Compares
  <1>2. PICK h \in Int : h = c.high
    BY <1>1 DEF Configs, Floats
  <1>3. h >= 0
    BY <1>1, <1>2, ConfigAssumption DEF ValidMarks, Below, Compares
  <1>4. c.low # NaN => c.low \in Int /\ c.low < h
    BY <1>1, <1>2 DEF Configs, Floats, ValidMarks, Compares
  <1>5. CriticalMark(c) = IF 3 * h > 190 THEN 95 ELSE (3 * h + 1) \div 2
    BY <1>1, <1>2 DEF CriticalMark
  <1>6. 3 * h > 190 \/ (3 * h + 1) \div 2 >= h
    BY <1>3
  <1> QED
    BY <1>2, <1>3, <1>4, <1>5, <1>6

\* Whatever options are applied in whatever order, a manager has worker counts
\* and a queue size the pool and the controller can work with and, unless they
\* are NaN or past 95%, marks in their order; and only a capacity or an interval
\* that Validate does not refuse ends the process (NewManager, Start,
\* monitorResources).
THEOREM ValidConfigIsUsableHolds == ConfigSpec => []ValidConfigIsUsable
  <1>1. ConfigInv => ValidConfigIsUsable
    <2> SUFFICES ASSUME ConfigInv PROVE ValidConfigIsUsable
      OBVIOUS
    <2>1. ASSUME phase \in {"made", "monitored"}
          PROVE  /\ config.min \in 1..config.initial
                 /\ config.initial \in 1..config.max
                 /\ config.max <= MostSignals
                 /\ config.queue \in 0..MostTasks
                 /\ config.up # NaN => config.up >= 10
                 /\ config.high # NaN /\ config.high <= 95 =>
                      CriticalMark(config) >= config.high
                 /\ Compares(config.low, config.high) /\ config.low <= 95 =>
                      CriticalMark(config) >= config.low
      <3>1. config \in Configs /\ Accepted(config) /\ ~BadCapacity(config)
        BY <2>1 DEF ConfigInv
      <3>2. /\ config.high # NaN /\ config.high <= 95 =>
                 CriticalMark(config) >= config.high
            /\ Compares(config.low, config.high) /\ config.low <= 95 =>
                 CriticalMark(config) >= config.low
        BY <3>1, CriticalIsHigh DEF Accepted
      <3>3. /\ config.min \in 1..config.initial
            /\ config.initial \in 1..config.max
            /\ config.max <= MostSignals
            /\ config.queue \in 0..MostTasks
        BY <3>1, ConfigAssumption DEF Configs, Accepted, ValidWorkers,
           ValidCounts, BadCapacity
      <3>4. config.up # NaN => config.up >= 10
        BY <3>1, ConfigAssumption DEF Configs, Floats, Accepted, ValidFactors,
           Below, Compares
      <3> QED
        BY <3>2, <3>3, <3>4
    <2> QED
      BY <2>1 DEF ConfigInv, ValidConfigIsUsable
  <1> QED
    BY <1>1, ConfigInvHolds, PTL

-----------------------------------------------------------------------------
(* The resource monitor. *)

Spots == {"waiting", "sampled", "looked", "cleaning", "finished"}

\* A loop that is not in a cleanup began its last one no later than the last
\* cleanup of any loop ended, and nothing lies in the future.
MonitorInv ==
    /\ clock \in Int
    /\ lastCleanup \in Int
    /\ lastCleanup <= clock
    /\ at \in [Loops -> Spots]
    /\ begun \in [Loops -> Int]
    /\ \A l \in Loops : /\ begun[l] <= clock
                        /\ at[l] # "cleaning" => begun[l] <= lastCleanup
    /\ samples \in Seq(Int)
    /\ Len(samples) <= SampleCap

\* A sample that is added keeps the history within its limit.
LEMMA SampleKeepsHistory ==
    ASSUME samples \in Seq(Int), Len(samples) <= SampleCap,
           NEW l \in Loops, Sample(l)
    PROVE  /\ samples' \in Seq(Int)
           /\ Len(samples') \in Len(samples)..SampleCap
           /\ samples'[Len(samples')] = usage'
  <1>1. usage' \in Int
    BY MonitorAssumption DEF Sample
  <1>2. CASE Len(samples) >= SampleCap
    <2>1. samples' = Append(Tail(samples), usage')
      BY <1>2 DEF Sample
    <2>2. /\ Tail(samples) \in Seq(Int)
          /\ Len(Tail(samples)) = Len(samples) - 1
      BY <1>2, MonitorAssumption, HeadTailProperties, EmptySeq
    <2>3. Len(samples) = SampleCap /\ SampleCap \in Nat
      BY <1>2, MonitorAssumption
    <2> QED
      BY <1>1, <2>1, <2>2, <2>3, AppendProperties
  <1>3. CASE ~(Len(samples) >= SampleCap)
    <2>1. samples' = Append(samples, usage')
      BY <1>3 DEF Sample
    <2> QED
      BY <1>1, <1>3, <2>1, AppendProperties, MonitorAssumption
  <1> QED
    BY <1>2, <1>3

\* Every step of a loop or of the clock keeps the order of the cleanups.
LEMMA MonitorInvNext == MonitorInv /\ [MonitorNext]_monitorVars => MonitorInv'
  <1> SUFFICES ASSUME MonitorInv, [MonitorNext]_monitorVars
               PROVE  MonitorInv'
    OBVIOUS
  <1>1. CASE TimePasses
    BY <1>1 DEF MonitorInv, TimePasses
  <1>2. ASSUME NEW l \in Loops, Sample(l) PROVE MonitorInv'
    <2>1. samples' \in Seq(Int) /\ Len(samples') <= SampleCap
      BY <1>2, SampleKeepsHistory, MonitorAssumption DEF MonitorInv
    <2> QED
      BY <1>2, <2>1 DEF MonitorInv, Sample, Goes, Spots
  <1>3. ASSUME NEW l \in Loops, Look(l) \/ NoCleanup(l) \/ Finish(l)
        PROVE  MonitorInv'
    BY <1>3 DEF MonitorInv, Look, NoCleanup, Finish, Goes, Spots
  <1>4. ASSUME NEW l \in Loops, BeginCleanup(l) PROVE MonitorInv'
    BY <1>4 DEF MonitorInv, BeginCleanup, Goes, Spots
  <1>5. ASSUME NEW l \in Loops, EndCleanup(l) PROVE MonitorInv'
    BY <1>5 DEF MonitorInv, EndCleanup, CleanupTime, Goes, Spots
  <1>6. CASE UNCHANGED monitorVars
    BY <1>6 DEF MonitorInv, monitorVars
  <1> QED
    BY <1>1, <1>2, <1>3, <1>4, <1>5, <1>6 DEF MonitorNext

\* However many loops run, whatever a collection takes and whatever the usage,
\* a loop leaves more than the minimum interval between two of its cleanups,
\* and the history of samples is current and within its limit (monitorMemory,
\* UpdateMemStats).
THEOREM CleanupIsRationedHolds == MonitorSpec => CleanupIsRationed
  <1>1. MonitorInit => MonitorInv
    <2> SUFFICES ASSUME MonitorInit PROVE MonitorInv
      OBVIOUS
    <2>1. samples \in Seq(Int) /\ Len(samples) <= SampleCap
      BY MonitorAssumption DEF MonitorInit
    <2> QED
      BY <2>1 DEF MonitorInit, MonitorInv, Spots
  <1>2. MonitorInv /\ [MonitorNext]_monitorVars =>
          [/\ \A l \in Loops : begun'[l] # begun[l]
                                 => begun'[l] - begun[l] > MinInterval
           /\ Len(samples') \in Len(samples)..SampleCap
           /\ usage' # usage => samples'[Len(samples')] = usage'
          ]_monitorVars
    <2> SUFFICES ASSUME MonitorInv, MonitorNext
                 PROVE  /\ \A l \in Loops : begun'[l] # begun[l]
                             => begun'[l] - begun[l] > MinInterval
                        /\ Len(samples') \in Len(samples)..SampleCap
                        /\ usage' # usage => samples'[Len(samples')] = usage'
      BY Zenon
    <2>1. CASE \E l \in Loops : Sample(l)
      <3>1. PICK l \in Loops : Sample(l)
        BY <2>1
      <3>2. begun' = begun
        BY <3>1 DEF Sample
      <3> QED
        BY <3>1, <3>2, SampleKeepsHistory DEF MonitorInv
    <2>2. CASE ~\E l \in Loops : Sample(l)
      <3>1. samples' = samples /\ usage' = usage
        BY <2>2 DEF MonitorNext, TimePasses, Look, BeginCleanup, NoCleanup,
           EndCleanup, Finish
      <3>2. Len(samples) \in Len(samples)..SampleCap
        BY MonitorAssumption DEF MonitorInv
      <3>3. ASSUME NEW l \in Loops, begun'[l] # begun[l]
            PROVE  begun'[l] - begun[l] > MinInterval
        <4>1. PICK m \in Loops : BeginCleanup(m)
          BY <2>2, <3>3 DEF MonitorNext, TimePasses, Look, NoCleanup,
             EndCleanup, Finish
        <4>2. m = l /\ begun'[l] = clock
          BY <3>3, <4>1 DEF BeginCleanup, MonitorInv
        <4>3. begun[l] <= lastCleanup /\ clock - lastCleanup > MinInterval
          BY <4>1, <4>2 DEF BeginCleanup, MonitorInv, CleanupDue, Goes
        <4> QED
          BY <4>2, <4>3, MonitorAssumption DEF MonitorInv
      <3> QED
        BY <3>1, <3>2, <3>3
    <2> QED
      BY <2>1, <2>2
  <1> QED
    BY <1>1, <1>2, MonitorInvNext, PTL DEF MonitorSpec, CleanupIsRationed

-----------------------------------------------------------------------------
(* The object pool. *)

Made == 1..made
InPool(o) == \E k \in 1..Len(idle) : idle[k] = o
WithUser(o) == \E u \in Users : o \in held[u]

ObjectTypes ==
    /\ fillLimit \in Int
    /\ life \in {"filling", "ready", "failed"}
    /\ made \in Nat
    /\ idle \in Seq(Nat)
    /\ held \in [Users -> SUBSET Nat]

\* Every object that was made, and no other, is in one place.
OnePlace ==
    /\ \A j, k \in 1..Len(idle) : idle[j] = idle[k] => j = k
    /\ \A u, v \in Users : \A o \in held[u] : o \in held[v] => u = v
    /\ \A o : InPool(o) => ~WithUser(o) /\ o \notin discarded
    /\ \A o : WithUser(o) => o \notin discarded
    /\ \A o : o \in Made <=> InPool(o) \/ WithUser(o) \/ o \in discarded

\* The pool is filled and kept within its limits.
FillInv ==
    /\ life = "filling" => Len(idle) <= InitialFill
    /\ fillLimit >= 0 /\ life = "ready"
         => Len(idle) <= InitialFill \/ Len(idle) <= fillLimit
    /\ answer = "exhausted" => fillLimit = 0

\* The elements of a sequence with one more at its end.
LEMMA InLonger ==
    ASSUME NEW s \in Seq(Nat), NEW e \in Nat
    PROVE  /\ Append(s, e) \in Seq(Nat)
           /\ Len(Append(s, e)) = Len(s) + 1
           /\ \A k \in 1..Len(s) : Append(s, e)[k] = s[k]
           /\ Append(s, e)[Len(s) + 1] = e
  BY AppendProperties

\* The elements of a sequence without its last.
LEMMA InShorter ==
    ASSUME NEW s \in Seq(Nat), s # <<>>
    PROVE  /\ Front(s) \in Seq(Nat)
           /\ Len(s) \in Nat \ {0}
           /\ Len(Front(s)) = Len(s) - 1
           /\ \A k \in 1..(Len(s) - 1) : Front(s)[k] = s[k]
           /\ Last(s) = s[Len(s)]
           /\ Last(s) \in Nat
  <1>1. Len(s) \in Nat \ {0}
    BY EmptySeq
  <1>2. PICK n \in Int : n = Len(s) - 1
    BY <1>1
  <1>3. \A i \in 1..n : s[i] \in Nat
    BY <1>1, <1>2
  <1>4. /\ SubSeq(s, 1, n) \in Seq(Nat)
        /\ Len(SubSeq(s, 1, n)) = (IF 1 <= n THEN n - 1 + 1 ELSE 0)
        /\ \A i \in 1..(n - 1 + 1) : SubSeq(s, 1, n)[i] = s[1 + i - 1]
    <2>1. 1 \in Int /\ n \in Int /\ \A i \in 1..n : s[i] \in Nat
      BY <1>3
    <2> QED
      BY ONLY <2>1, s \in Seq(Nat), SubSeqProperties
  <1>5. n \in Nat /\ n - 1 + 1 = n
    BY <1>1, <1>2
  <1>6. Len(SubSeq(s, 1, n)) = n
    BY <1>4, <1>5
  <1>7. \A i \in 1..n : SubSeq(s, 1, n)[i] = s[i]
    BY <1>4, <1>5
  <1>8. Last(s) = s[Len(s)] /\ Last(s) \in Nat
    BY <1>1 DEF Last
  <1>9. Front(s) = SubSeq(s, 1, n)
    BY <1>2 DEF Front
  <1> QED
    BY <1>1, <1>2, <1>4, <1>6, <1>7, <1>8, <1>9

\* The pool begins empty, with nothing made.
LEMMA ObjectInvInit == ObjectInit => ObjectTypes /\ OnePlace /\ FillInv
  <1> SUFFICES ASSUME ObjectInit PROVE ObjectTypes /\ OnePlace /\ FillInv
    OBVIOUS
  <1>1. Len(idle) = 0 /\ idle \in Seq(Nat)
    BY DEF ObjectInit
  <1>2. OnePlace
    BY <1>1 DEF ObjectInit, OnePlace, Made, InPool, WithUser
  <1> QED
    BY <1>1, <1>2, ObjectPoolAssumption DEF ObjectInit, ObjectTypes, FillInv

\* An object comes into the pool: a new one, or one a user gives back.
LEMMA ComesIn ==
    ASSUME ObjectTypes, NEW e \in Nat, idle' = Append(idle, e)
    PROVE  /\ idle' \in Seq(Nat)
           /\ Len(idle') = Len(idle) + 1
           /\ \A o : InPool(o)' <=> InPool(o) \/ o = e
           /\ OnePlace /\ ~InPool(e) =>
                \A j, k \in 1..Len(idle') : idle'[j] = idle'[k] => j = k
  <1>1. /\ idle' \in Seq(Nat)
        /\ Len(idle') = Len(idle) + 1
        /\ \A k \in 1..Len(idle) : idle'[k] = idle[k]
        /\ idle'[Len(idle) + 1] = e
    BY InLonger DEF ObjectTypes
  <1>2. Len(idle) \in Nat
    BY DEF ObjectTypes
  <1>3. \A k : k \in 1..Len(idle') <=> k \in 1..Len(idle) \/ k = Len(idle) + 1
    BY <1>1, <1>2
  <1>4. \A o : InPool(o)' <=> InPool(o) \/ o = e
    BY <1>1, <1>3 DEF InPool
  <1>5. ASSUME OnePlace, ~InPool(e)
        PROVE  \A j, k \in 1..Len(idle') : idle'[j] = idle'[k] => j = k
    BY <1>1, <1>3, <1>5 DEF OnePlace, InPool
  <1> QED
    BY <1>1, <1>4, <1>5

\* The last object leaves the pool.
LEMMA GoesOut ==
    ASSUME ObjectTypes, OnePlace, idle # <<>>, idle' = Front(idle)
    PROVE  /\ idle' \in Seq(Nat)
           /\ Len(idle') <= Len(idle)
           /\ Last(idle) \in Nat
           /\ InPool(Last(idle))
           /\ \A o : InPool(o)' <=> InPool(o) /\ o # Last(idle)
           /\ \A j, k \in 1..Len(idle') : idle'[j] = idle'[k] => j = k
  <1>1. /\ idle' \in Seq(Nat)
        /\ Len(idle) \in Nat \ {0}
        /\ Len(idle') = Len(idle) - 1
        /\ \A k \in 1..(Len(idle) - 1) : idle'[k] = idle[k]
        /\ Last(idle) = idle[Len(idle)]
        /\ Last(idle) \in Nat
    BY InShorter DEF ObjectTypes
  <1>2. \A k : k \in 1..Len(idle) <=> k \in 1..Len(idle') \/ k = Len(idle)
    BY <1>1
  <1>3. Len(idle) \notin 1..Len(idle')
    BY <1>1
  <1>4. \A j, k \in 1..Len(idle) : idle[j] = idle[k] => j = k
    BY DEF OnePlace
  <1>5. \A o : InPool(o)' <=> InPool(o) /\ o # Last(idle)
    <2>1. \A k \in 1..Len(idle') : idle'[k] = idle[k] /\ k # Len(idle)
      <3>1. 1..Len(idle') = 1..(Len(idle) - 1)
        BY <1>1
      <3> QED
        BY <1>1, <1>3, <3>1
    <2>2. \A k \in 1..Len(idle') : idle'[k] # idle[Len(idle)]
      BY ONLY <1>2, <1>4, <2>1
    <2> QED
      BY <1>1, <1>2, <2>1, <2>2 DEF InPool
  <1>6. \A j, k \in 1..Len(idle') : idle'[j] = idle'[k] => j = k
    <2>1. 1..Len(idle') = 1..(Len(idle) - 1)
      BY <1>1
    <2>2. \A k \in 1..Len(idle') : k \in 1..Len(idle)
      BY <1>2
    <2>3. \A k \in 1..Len(idle') : idle'[k] = idle[k]
      BY <1>1, <2>1
    <2> QED
      BY ONLY <1>4, <2>2, <2>3
  <1> QED
    BY <1>1, <1>2, <1>5, <1>6 DEF InPool

\* Every call of NewPool, Get and Put keeps each object in one place.
LEMMA OnePlaceNext ==
    ObjectTypes /\ OnePlace /\ [ObjectNext]_objectVars
      => ObjectTypes' /\ OnePlace'
  <1> SUFFICES ASSUME ObjectTypes, OnePlace, [ObjectNext]_objectVars
               PROVE  ObjectTypes' /\ OnePlace'
    OBVIOUS
  <1>k. ASSUME UNCHANGED <<made, idle, held, discarded, fillLimit>>,
               life' \in {"filling", "ready", "failed"}
        PROVE  ObjectTypes' /\ OnePlace'
    BY <1>k DEF ObjectTypes, OnePlace, Made, InPool, WithUser
  <1>n. /\ made + 1 \in Nat
        /\ \A o : o \in 1..(made + 1) <=> o \in Made \/ o = made + 1
        /\ made + 1 \notin Made
    BY DEF ObjectTypes, Made
  <1>1. CASE Fill
    <2>1. CASE UNCHANGED <<made, idle>>
      BY <1>1, <1>k, <2>1 DEF Fill
    <2>2. CASE made' = made + 1 /\ idle' = Append(idle, made + 1)
      <3>1. UNCHANGED <<fillLimit, held, discarded, life>>
        BY <1>1, <1>n, <2>2 DEF Fill, ObjectTypes
      <3>2. ~InPool(made + 1)
        BY <1>n DEF OnePlace
      <3>3. /\ idle' \in Seq(Nat)
            /\ \A o : InPool(o)' <=> InPool(o) \/ o = made + 1
            /\ \A j, k \in 1..Len(idle') : idle'[j] = idle'[k] => j = k
        BY <1>n, <2>2, <3>2, ComesIn
      <3>4. \A o : WithUser(o)' <=> WithUser(o)
        BY <3>1 DEF WithUser
      <3>5. \A o : o \in Made' <=> o \in Made \/ o = made + 1
        BY <1>n, <2>2 DEF Made
      <3>6. OnePlace'
        BY <1>n, <3>1, <3>3, <3>4, <3>5 DEF OnePlace
      <3> QED
        BY <1>n, <2>2, <3>1, <3>3, <3>6 DEF ObjectTypes
    <2> QED
      BY <1>1, <2>1, <2>2 DEF Fill
  <1>2. CASE FillFails \/ GetRefused
    BY <1>2, <1>k DEF FillFails, GetRefused, ObjectTypes
  <1>3. ASSUME NEW u \in Users, GetIdle(u) PROVE ObjectTypes' /\ OnePlace'
    <2>1. /\ UNCHANGED <<fillLimit, life, made, discarded>>
          /\ held' = [held EXCEPT ![u] = @ \union {Last(idle)}]
          /\ idle # <<>> /\ idle' = Front(idle)
      BY <1>3 DEF GetIdle, WithoutLast
    <2>2. /\ idle' \in Seq(Nat)
          /\ Last(idle) \in Nat
          /\ InPool(Last(idle))
          /\ \A o : InPool(o)' <=> InPool(o) /\ o # Last(idle)
          /\ \A j, k \in 1..Len(idle') : idle'[j] = idle'[k] => j = k
      BY <2>1, GoesOut
    <2>3. \A v \in Users : held'[v] = IF v = u THEN held[u] \union {Last(idle)}
                                      ELSE held[v]
      BY <2>1 DEF ObjectTypes
    <2>4. \A o : WithUser(o)' <=> WithUser(o) \/ o = Last(idle)
      BY <2>3 DEF WithUser
    <2>5. Made' = Made
      BY <2>1 DEF Made
    <2>6. \A v, w \in Users : \A o \in held'[v] : o \in held'[w] => v = w
      BY <2>2, <2>3 DEF OnePlace, WithUser
    <2>7. OnePlace'
      BY <2>1, <2>2, <2>4, <2>5, <2>6 DEF OnePlace
    <2> QED
      BY <2>1, <2>2, <2>7 DEF ObjectTypes
  <1>4. ASSUME NEW u \in Users, GetNew(u) PROVE ObjectTypes' /\ OnePlace'
    <2>1. CASE UNCHANGED <<made, held>>
      BY <1>4, <1>k, <2>1 DEF GetNew, ObjectTypes
    <2>2. CASE /\ made' = made + 1
               /\ held' = [held EXCEPT ![u] = @ \union {made + 1}]
      <3>1. UNCHANGED <<fillLimit, life, idle, discarded>>
        BY <1>4 DEF GetNew
      <3>2. \A v \in Users : held'[v] = IF v = u THEN held[u] \union {made + 1}
                                        ELSE held[v]
        BY <2>2 DEF ObjectTypes
      <3>3. \A o : WithUser(o)' <=> WithUser(o) \/ o = made + 1
        BY <3>2 DEF WithUser
      <3>4. \A o : InPool(o)' <=> InPool(o)
        BY <3>1 DEF InPool
      <3>5. \A o : o \in Made' <=> o \in Made \/ o = made + 1
        BY <1>n, <2>2 DEF Made
      <3>6. /\ ~WithUser(made + 1) /\ ~InPool(made + 1)
            /\ made + 1 \notin discarded
        BY <1>n DEF OnePlace
      <3>7. \A v, w \in Users : \A o \in held'[v] : o \in held'[w] => v = w
        BY <3>2, <3>6 DEF OnePlace, WithUser
      <3>8. OnePlace'
        BY <3>1, <3>3, <3>4, <3>5, <3>6, <3>7 DEF OnePlace
      <3> QED
        BY <1>n, <2>2, <3>1, <3>8 DEF ObjectTypes
    <2> QED
      BY <1>4, <2>1, <2>2 DEF GetNew
  <1>5. ASSUME NEW u \in Users, Put(u) PROVE ObjectTypes' /\ OnePlace'
    <2>1. PICK e \in held[u] :
            /\ held' = [held EXCEPT ![u] = @ \ {e}]
            /\ IF BelowLimit
               THEN idle' = Append(idle, e) /\ UNCHANGED discarded
               ELSE discarded' = discarded \union {e} /\ UNCHANGED idle
      BY <1>5 DEF Put
    <2>2. UNCHANGED <<fillLimit, life, made>>
      BY <1>5 DEF Put
    <2>3. \A v \in Users : held'[v] = IF v = u THEN held[u] \ {e} ELSE held[v]
      BY <2>1 DEF ObjectTypes
    <2>4. e \in Nat /\ WithUser(e) /\ ~InPool(e) /\ e \notin discarded
      BY <2>1 DEF ObjectTypes, OnePlace, WithUser
    <2>5. \A o : WithUser(o)' <=> WithUser(o) /\ o # e
      BY <2>1, <2>3 DEF WithUser, OnePlace
    <2>6. Made' = Made
      BY <2>2 DEF Made
    <2>7. \A v, w \in Users : \A o \in held'[v] : o \in held'[w] => v = w
      BY <2>3 DEF OnePlace
    <2>8. CASE BelowLimit
      <3>1. idle' = Append(idle, e) /\ UNCHANGED discarded
        BY <2>1, <2>8
      <3>2. /\ idle' \in Seq(Nat)
            /\ \A o : InPool(o)' <=> InPool(o) \/ o = e
            /\ \A j, k \in 1..Len(idle') : idle'[j] = idle'[k] => j = k
        BY <2>4, <3>1, ComesIn
      <3>3. OnePlace'
        BY <2>4, <2>5, <2>6, <2>7, <3>1, <3>2 DEF OnePlace
      <3> QED
        BY <2>1, <2>2, <3>2, <3>3 DEF ObjectTypes
    <2>9. CASE ~BelowLimit
      <3>1. discarded' = discarded \union {e} /\ UNCHANGED idle
        BY <2>1, <2>9
      <3>2. \A o : InPool(o)' <=> InPool(o)
        BY <3>1 DEF InPool
      <3>3. OnePlace'
        BY <2>4, <2>5, <2>6, <2>7, <3>1, <3>2 DEF OnePlace
      <3> QED
        BY <2>1, <2>2, <3>1, <3>3 DEF ObjectTypes
    <2> QED
      BY <2>8, <2>9
  <1>6. CASE UNCHANGED objectVars
    BY <1>6, <1>k DEF objectVars, ObjectTypes
  <1> QED
    BY <1>1, <1>2, <1>3, <1>4, <1>5, <1>6 DEF ObjectNext

\* Every call keeps the pool within its limits.
LEMMA FillNext ==
    ObjectTypes /\ FillInv /\ [ObjectNext]_objectVars => FillInv'
  <1> SUFFICES ASSUME ObjectTypes, FillInv, [ObjectNext]_objectVars
               PROVE  FillInv'
    OBVIOUS
  <1>l. Len(idle) \in Nat /\ fillLimit \in Int /\ made \in Nat
    BY DEF ObjectTypes
  <1>1. CASE Fill
    <2>1. CASE Len(idle) < InitialFill
      <3>1. Len(idle') = Len(idle) + 1 /\ life' = life /\ life = "filling"
        BY <1>1, <1>l, <2>1, InLonger DEF Fill, ObjectTypes
      <3>2. Len(idle) + 1 <= InitialFill
        BY <1>l, <2>1, ObjectPoolAssumption
      <3> QED
        BY <1>1, <3>1, <3>2 DEF Fill, FillInv
    <2>2. CASE ~(Len(idle) < InitialFill)
      BY <1>1, <2>2 DEF Fill, FillInv
    <2> QED
      BY <2>1, <2>2
  <1>2. CASE FillFails
    BY <1>2 DEF FillFails, FillInv
  <1>3. CASE GetRefused
    <2>1. fillLimit = 0
      BY <1>3, <1>l DEF GetRefused, BelowLimit, ObjectTypes
    <2> QED
      BY <1>3, <2>1 DEF GetRefused, FillInv
  <1>4. ASSUME NEW u \in Users, GetIdle(u) PROVE FillInv'
    <2>1. Len(idle') = Len(idle) - 1 /\ Len(idle) \in Nat \ {0}
      BY <1>4, InShorter DEF GetIdle, WithoutLast, ObjectTypes
    <2>2. Len(idle) <= InitialFill => Len(idle') <= InitialFill
      BY <2>1, ObjectPoolAssumption
    <2>3. Len(idle) <= fillLimit => Len(idle') <= fillLimit
      BY <1>l, <2>1
    <2> QED
      BY <1>4, <2>2, <2>3 DEF GetIdle, FillInv
  <1>5. ASSUME NEW u \in Users, GetNew(u) PROVE FillInv'
    BY <1>5 DEF GetNew, FillInv
  <1>6. ASSUME NEW u \in Users, Put(u) PROVE FillInv'
    <2>1. PICK e \in held[u] : IF BelowLimit THEN idle' = Append(idle, e)
                               ELSE UNCHANGED idle
      BY <1>6 DEF Put
    <2>2. life = "ready" /\ UNCHANGED <<fillLimit, life, answer>>
      BY <1>6 DEF Put
    <2>3. CASE ~BelowLimit
      BY <2>1, <2>2, <2>3 DEF FillInv
    <2>4. CASE BelowLimit
      <3>1. Len(idle') = Len(idle) + 1
        BY <2>1, <2>4, InLonger DEF ObjectTypes
      <3>2. fillLimit >= 0 => Len(idle') <= fillLimit
        BY <1>l, <2>4, <3>1 DEF BelowLimit
      <3> QED
        BY <2>2, <3>2 DEF FillInv
    <2> QED
      BY <2>3, <2>4
  <1>7. CASE UNCHANGED objectVars
    BY <1>7 DEF objectVars, FillInv
  <1> QED
    BY <1>1, <1>2, <1>3, <1>4, <1>5, <1>6, <1>7 DEF ObjectNext

\* An object that is in one place is nowhere else.
LEMMA OnePlaceCounts ==
    ASSUME ObjectTypes, OnePlace
    PROVE  /\ \A o \in Made : Cardinality(PlacesOf(o)) = 1
           /\ \A o : o \notin Made => PlacesOf(o) = {}
  <1>d. DOMAIN idle = 1..Len(idle)
    BY DEF ObjectTypes
  <1>1. ASSUME NEW o \in Made PROVE \E p : PlacesOf(o) = {p}
    <2>1. CASE InPool(o)
      <3>1. PICK k \in 1..Len(idle) : idle[k] = o
        BY <2>1 DEF InPool
      <3>2. /\ \A j \in 1..Len(idle) : idle[j] = o => j = k
            /\ ~WithUser(o) /\ o \notin discarded
        BY <2>1, <3>1 DEF OnePlace
      <3>3. PlacesOf(o) = {<<"idle", k>>}
        BY <1>d, <3>1, <3>2 DEF PlacesOf, WithUser
      <3> QED
        BY <3>3
    <2>2. CASE WithUser(o)
      <3>1. PICK u \in Users : o \in held[u]
        BY <2>2 DEF WithUser
      <3>2. /\ \A v \in Users : o \in held[v] => v = u
            /\ ~InPool(o) /\ o \notin discarded
        BY <2>2, <3>1 DEF OnePlace
      <3>3. PlacesOf(o) = {<<"held", u>>}
        BY <1>d, <3>1, <3>2 DEF PlacesOf, InPool
      <3> QED
        BY <3>3
    <2>3. CASE o \in discarded
      <3>1. ~InPool(o) /\ ~WithUser(o)
        BY <2>3 DEF OnePlace
      <3>2. PlacesOf(o) = {<<"discarded", 0>>}
        BY <1>d, <2>3, <3>1 DEF PlacesOf, InPool, WithUser
      <3> QED
        BY <3>2
    <2> QED
      BY <2>1, <2>2, <2>3 DEF OnePlace
  <1>2. ASSUME NEW o, o \notin Made PROVE PlacesOf(o) = {}
    BY <1>2, <1>d DEF OnePlace, PlacesOf, InPool, WithUser
  <1> QED
    BY <1>1, <1>2, FS_Singleton

\* For any number of users, any limit and any failures of the factory, no two
\* users share an object and none is lost; and a limit above zero never refuses
\* an object (NewPool, Get, Put).
THEOREM ObjectsAccountedHolds == ObjectSpec => []ObjectsAccounted
  <1>1. ObjectTypes /\ OnePlace /\ FillInv /\ [ObjectNext]_objectVars
          => (ObjectTypes /\ OnePlace /\ FillInv)'
    BY OnePlaceNext, FillNext
  <1>2. ObjectTypes /\ OnePlace /\ FillInv => ObjectsAccounted
    <2> SUFFICES ASSUME ObjectTypes, OnePlace, FillInv PROVE ObjectsAccounted
      OBVIOUS
    <2>1. \A o \in Objects : o > made => o \notin Made
      BY ObjectPoolAssumption DEF Objects, Made, ObjectTypes
    <2> QED
      BY <2>1, OnePlaceCounts DEF ObjectsAccounted, FillInv, Made
  <1> QED
    BY <1>1, <1>2, ObjectInvInit, PTL DEF ObjectSpec
=============================================================================
