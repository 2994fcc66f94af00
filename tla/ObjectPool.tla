----------------------------- MODULE ObjectPool -----------------------------
(***************************************************************************)
(* The generic object pool of internal/factory/factory.go: users take      *)
(* objects from it and give them back, each call under one mutex; the      *)
(* factory makes objects and may fail.                                     *)
(***************************************************************************)
EXTENDS Integers, Sequences, FiniteSets, SequencesExt

CONSTANTS
    Users,        \* goroutines that call Get and Put
    InitialFill,  \* initialSize given to NewPool
    FillLimits,   \* what NewPool may be given as maxSize
    MaxMade       \* bound on the objects the factory makes

ASSUME ObjectPoolAssumption ==
    /\ InitialFill \in Nat      \* make([]T, 0, n) panics below 0
    /\ FillLimits \subseteq Int
    /\ MaxMade \in Nat

VARIABLES
    fillLimit,  \* maxSize; negative for no limit
    life,       \* whether NewPool is at work, has returned, or has failed
    made,       \* how many objects the factory has made
    idle,       \* the pool's objects, the last one given out first
    held,       \* the objects each user has
    discarded,  \* the objects Put did not keep
    answer      \* what the last Get returned

objectVars == <<fillLimit, life, made, idle, held, discarded, answer>>

Objects == 1..MaxMade

ObjectInit ==
    /\ fillLimit \in FillLimits
    /\ life = "filling"
    /\ made = 0
    /\ idle = <<>>
    /\ held = [u \in Users |-> {}]
    /\ discarded = {}
    /\ answer = "none"

\* NewPool makes the first objects, and gives up if the factory fails.
Fill ==
    /\ life = "filling"
    /\ made < MaxMade                                        \* model bound
    /\ IF Len(idle) < InitialFill
       THEN /\ made' = made + 1
            /\ idle' = Append(idle, made + 1)
            /\ UNCHANGED life
       ELSE life' = "ready" /\ UNCHANGED <<made, idle>>
    /\ UNCHANGED <<fillLimit, held, discarded, answer>>

FillFails ==
    /\ life = "filling"
    /\ Len(idle) < InitialFill
    /\ life' = "failed"
    /\ UNCHANGED <<fillLimit, made, idle, held, discarded, answer>>

\* The limit is compared with the number of idle objects.
BelowLimit == fillLimit < 0 \/ Len(idle) < fillLimit

ButLeavesIt == idle
WithoutLast == Front(idle)

GetIdle(u) ==
    /\ life = "ready"
    /\ idle # <<>>
    /\ held' = [held EXCEPT ![u] = @ \union {Last(idle)}]
    /\ idle' = WithoutLast
    /\ answer' = "object"
    /\ UNCHANGED <<fillLimit, life, made, discarded>>

\* An empty pool asks the factory, whose error Get returns.
GetNew(u) ==
    /\ life = "ready"
    /\ idle = <<>>
    /\ BelowLimit
    /\ \/ /\ made < MaxMade                                  \* model bound
          /\ made' = made + 1
          /\ held' = [held EXCEPT ![u] = @ \union {made + 1}]
          /\ answer' = "object"
       \/ answer' = "factory" /\ UNCHANGED <<made, held>>
    /\ UNCHANGED <<fillLimit, life, idle, discarded>>

GetRefused ==
    /\ life = "ready"
    /\ idle = <<>>
    /\ ~BelowLimit
    /\ answer' = "exhausted"
    /\ UNCHANGED <<fillLimit, life, made, idle, held, discarded>>

Put(u) ==
    /\ life = "ready"
    /\ \E o \in held[u] :
         /\ held' = [held EXCEPT ![u] = @ \ {o}]
         /\ IF BelowLimit
            THEN idle' = Append(idle, o) /\ UNCHANGED discarded
            ELSE discarded' = discarded \union {o} /\ UNCHANGED idle
    /\ UNCHANGED <<fillLimit, life, made, answer>>

ObjectNext ==
    \/ Fill
    \/ FillFails
    \/ GetRefused
    \/ \E u \in Users : GetIdle(u) \/ GetNew(u) \/ Put(u)

ObjectSpec == ObjectInit /\ [][ObjectNext]_objectVars

-----------------------------------------------------------------------------
(* Properties. *)

\* The places of object o: in the pool, with a user, or thrown away.
PlacesOf(o) ==
    {<<"idle", k>> : k \in {k \in DOMAIN idle : idle[k] = o}}
    \union {<<"held", u>> : u \in {u \in Users : o \in held[u]}}
    \union (IF o \in discarded THEN {<<"discarded", 0>>} ELSE {})

\* No two users ever share an object and none is forgotten; the pool keeps at
\* most as many as its limit or its first filling allows; and the limit holds
\* nobody back: only a pool of limit 0 ever refuses, however many objects are
\* out, for Get counts the objects it has not given out (Get, Put).
ObjectsAccounted ==
    /\ \A o \in 1..made : Cardinality(PlacesOf(o)) = 1
    /\ \A o \in Objects : o > made => PlacesOf(o) = {}
    /\ fillLimit >= 0 /\ life = "ready"
         => Len(idle) <= InitialFill \/ Len(idle) <= fillLimit
    /\ answer = "exhausted" => fillLimit = 0
=============================================================================
