----------------------------- MODULE QueueProofs -----------------------------
(***************************************************************************)
(* The heap of the priority queue, for any number of tasks and whatever    *)
(* the clock says: it stays a heap whose items know their places, and it   *)
(* gives out its tasks as PriorityOrder promises.                          *)
(***************************************************************************)
EXTENDS PriorityQueue, SequenceTheorems, WellFoundedInduction, TLAPS

-----------------------------------------------------------------------------
(* Induction.  Its rules take an operator, and so they are used through the *)
(* least member of a set of counterexamples.                                *)

\* Every set of naturals that is not empty has a least member.
LEMMA LeastNatural ==
    ASSUME NEW T \in SUBSET Nat, T # {}
    PROVE  \E x \in T : \A y \in T : ~(y < x)
<1> DEFINE R == {ss \in Nat \X Nat : ss[1] < ss[2]}
<1>1. IsWellFoundedOn(R, Nat)
  BY NatLessThanWellFounded DEF OpToRel
<1>2. \A x, y \in T : y < x => <<y, x>> \in R
  OBVIOUS
<1> HIDE DEF R
<1>3. \E x \in T : \A y \in T : ~(<<y, x>> \in R)
  BY <1>1, WFMin
<1> QED
  BY <1>2, <1>3

\* The loop of up makes the heap its definition says: a place's result depends
\* on that of its parent, which is a smaller number.
LEMMA UpEquation ==
    \A j \in Nat : Up[j] = [h \in Seq(Item) |->
      LET i == j \div 2 IN
      IF i = 0 \/ ~Less(h, j, i) THEN h ELSE Up[i][Swap(h, i, j)]]
<1> DEFINE Body(f, j) == [h \in Seq(Item) |->
             LET i == j \div 2 IN
             IF i = 0 \/ ~Less(h, j, i) THEN h ELSE f[i][Swap(h, i, j)]]
           Below(f, n) == \A m \in Nat : m < n => f[m] = Body(f, m)
<1>1. ASSUME NEW f, NEW g, NEW n \in Nat,
             \A m \in Nat : m < n => f[m] = g[m]
      PROVE  Body(f, n) = Body(g, n)
  <2>1. n \div 2 # 0 => f[n \div 2] = g[n \div 2]
    <3>1. n \div 2 \in Nat /\ (n \div 2 # 0 => n \div 2 < n)
      OBVIOUS
    <3> QED
      BY <1>1, <3>1
  <2> QED
    BY <2>1
<1> HIDE DEF Body
\* Two functions that are right below n agree there.
<1>2. ASSUME NEW f, NEW g, NEW n \in Nat, Below(f, n), Below(g, n)
      PROVE  \A m \in Nat : m < n => f[m] = g[m]
  <2> DEFINE T == {m \in Nat : m < n /\ f[m] # g[m]}
  <2>1. SUFFICES T = {}
    OBVIOUS
  <2>2. SUFFICES ASSUME NEW x \in T, \A y \in T : ~(y < x) PROVE FALSE
    BY LeastNatural
  <2>3. \A m \in Nat : m < x => f[m] = g[m]
    BY <2>2
  <2>4. Body(f, x) = Body(g, x)
    BY <1>1, <2>3
  <2> QED
    BY <1>2, <2>4
\* Below every n there is one.
<1>3. \A n \in Nat : \E f : Below(f, n)
  <2> DEFINE T == {n \in Nat : ~\E f : Below(f, n)}
  <2>1. SUFFICES T = {}
    OBVIOUS
  <2>2. SUFFICES ASSUME NEW x \in T, \A y \in T : ~(y < x) PROVE FALSE
    BY LeastNatural
  <2>3. x # 0
    <3>1. Below(0, 0)
      OBVIOUS
    <3> QED
      BY <3>1
  <2>4. x - 1 \in Nat /\ x - 1 \notin T
    BY <2>2, <2>3
  <2>5. PICK f : Below(f, x - 1)
    BY <2>4
  <2> DEFINE g == [m \in Nat |-> IF m = x - 1 THEN Body(f, m) ELSE f[m]]
  <2>6. \A m \in Nat : m < x - 1 => g[m] = f[m]
    OBVIOUS
  <2>7. g[x - 1] = Body(f, x - 1)
    BY <2>4
  <2> HIDE DEF g
  <2>8. Body(f, x - 1) = Body(g, x - 1)
    BY <1>1, <2>4, <2>6
  <2>9. ASSUME NEW m \in Nat, m < x - 1 PROVE g[m] = Body(g, m)
    <3>1. \A k \in Nat : k < m => f[k] = g[k]
      BY <2>4, <2>6, <2>9
    <3>2. Body(f, m) = Body(g, m)
      BY <1>1, <3>1
    <3> QED
      BY <2>5, <2>6, <2>9, <3>2
  <2>10. \A m \in Nat : m < x => m < x - 1 \/ m = x - 1
    BY <2>4
  <2>11. Below(g, x)
    BY <2>7, <2>8, <2>9, <2>10
  <2> QED
    BY <2>11
<1> DEFINE Right(n) == CHOOSE f : Below(f, n)
           F == [n \in Nat |-> Right(n + 1)[n]]
<1>4. \A n \in Nat : Below(Right(n), n)
  BY <1>3
<1> HIDE DEF Right
<1>5. ASSUME NEW n \in Nat PROVE F[n] = Body(F, n)
  <2>1. Below(Right(n + 1), n + 1)
    BY <1>4
  <2>2. ASSUME NEW m \in Nat, m < n + 1 PROVE F[m] = Right(n + 1)[m]
    <3>1. Below(Right(m + 1), m + 1)
      BY <1>4
    <3>2. Below(Right(n + 1), m + 1)
      BY <2>1, <2>2
    <3> QED
      BY <1>2, <3>1, <3>2
  <2>3. Body(F, n) = Body(Right(n + 1), n)
    BY <1>1, <2>2
  <2> QED
    BY <2>1, <2>2, <2>3
<1>6. F = [n \in Nat |-> Body(F, n)]
  BY <1>5
<1>7. \E f : f = [j \in Nat |-> Body(f, j)]
  BY <1>6
<1>8. Up = [j \in Nat |-> Body(Up, j)]
  BY <1>7 DEF Up, Body
<1> QED
  BY <1>8 DEF Body

\* So does the loop of down: a place's result depends on that of a child of
\* it, which is a larger number and at most n.
LEMMA DownEquation ==
    \A n, i \in Nat : Down[n][i] = [h \in Seq(Item) |->
      LET j == SmallerChild(h, i, n) IN
      IF j = 0 \/ ~Less(h, j, i) THEN h ELSE Down[n][j][Swap(h, i, j)]]
<1> DEFINE Body(f, n, i) == [h \in Seq(Item) |->
             LET j == SmallerChild(h, i, n) IN
             IF j = 0 \/ ~Less(h, j, i) THEN h ELSE f[j][Swap(h, i, j)]]
           Above(f, n, s) ==
             \A m \in Nat : m + s > n => f[m] = Body(f, n, m)
<1>1. ASSUME NEW f, NEW g, NEW n \in Nat, NEW i \in Nat,
             \A m \in Nat : m > i => f[m] = g[m]
      PROVE  Body(f, n, i) = Body(g, n, i)
  <2>1. \A h : \/ SmallerChild(h, i, n) = 0
               \/ SmallerChild(h, i, n) \in Nat /\ SmallerChild(h, i, n) > i
    BY DEF SmallerChild
  <2>2. \A h : \/ SmallerChild(h, i, n) = 0
               \/ f[SmallerChild(h, i, n)] = g[SmallerChild(h, i, n)]
    BY <1>1, <2>1
  <2> QED
    BY <2>2
<1>2. ASSUME NEW n \in Nat, NEW f, NEW m \in Nat, m > n
      PROVE  Body(f, n, m) = [h \in Seq(Item) |-> h]
  <2>1. \A h : SmallerChild(h, m, n) = 0
    BY <1>2 DEF SmallerChild
  <2> QED
    BY <2>1
<1> HIDE DEF Body
\* Upwards of any place there is a function that is right.
<1>3. ASSUME NEW n \in Nat PROVE \A s \in Nat : \E f : Above(f, n, s)
  <2> DEFINE T == {s \in Nat : ~\E f : Above(f, n, s)}
  <2>1. SUFFICES T = {}
    OBVIOUS
  <2>2. SUFFICES ASSUME NEW x \in T, \A y \in T : ~(y < x) PROVE FALSE
    BY LeastNatural
  <2>3. x # 0
    <3> DEFINE g == [m \in Nat |-> [h \in Seq(Item) |-> h]]
    <3>1. ASSUME NEW m \in Nat, m > n PROVE g[m] = Body(g, n, m)
      <4>1. Body(g, n, m) = [h \in Seq(Item) |-> h]
        BY <1>2, <3>1
      <4> QED
        BY <4>1
    <3>2. \A m \in Nat : m + 0 > n => m > n
      OBVIOUS
    <3> HIDE DEF g
    <3>3. Above(g, n, 0)
      BY <3>1, <3>2
    <3>4. \E k : Above(k, n, 0)
      BY <3>3
    <3> HIDE DEF Above
    <3> QED
      BY <3>4
  <2>4. x - 1 \in Nat /\ x - 1 \notin T
    BY <2>2, <2>3
  <2>5. PICK f : Above(f, n, x - 1)
    BY <2>4
  <2> DEFINE g == [m \in Nat |->
                     IF m + x = n + 1 THEN Body(f, n, m) ELSE f[m]]
  <2>6. /\ \A m \in Nat : m + x > n + 1 => g[m] = f[m]
        /\ \A m \in Nat : m + x = n + 1 => g[m] = Body(f, n, m)
    BY <2>4
  <2> HIDE DEF g
  <2>7. ASSUME NEW m \in Nat, m + x > n PROVE g[m] = Body(g, n, m)
    <3>1. \A k \in Nat : k > m => k + x > n + 1
      BY <2>4, <2>7
    <3>2. \A k \in Nat : k > m => f[k] = g[k]
      BY <2>6, <3>1
    <3>3. Body(f, n, m) = Body(g, n, m)
      BY <1>1, <3>2
    <3>4. CASE m + x = n + 1
      BY <2>6, <3>3, <3>4
    <3>5. CASE m + x > n + 1
      <4>1. m + (x - 1) > n
        BY <2>4, <3>5
      <4>2. f[m] = Body(f, n, m)
        BY <2>5, <4>1
      <4> QED
        BY <2>6, <3>3, <3>5, <4>2
    <3>6. m + x = n + 1 \/ m + x > n + 1
      BY <2>4, <2>7
    <3> QED
      BY <3>4, <3>5, <3>6
  <2> QED
    BY <2>7
<1>4. ASSUME NEW n \in Nat PROVE \E f : f = [i \in Nat |-> Body(f, n, i)]
  <2>1. PICK f : Above(f, n, n + 1)
    <3>1. n + 1 \in Nat
      OBVIOUS
    <3> HIDE DEF Above
    <3> QED
      BY <1>3, <3>1
  <2> DEFINE g == [m \in Nat |-> f[m]]
  <2>2. \A i \in Nat : g[i] = Body(g, n, i)
    <3> SUFFICES ASSUME NEW i \in Nat PROVE g[i] = Body(g, n, i)
      OBVIOUS
    <3>1. i + (n + 1) > n
      OBVIOUS
    <3>2. Body(f, n, i) = Body(g, n, i)
      BY <1>1
    <3> QED
      BY <2>1, <3>1, <3>2
  <2>3. g = [i \in Nat |-> Body(g, n, i)]
    BY <2>2
  <2> QED
    BY <2>3
<1> DEFINE Right(n) == CHOOSE f : f = [i \in Nat |-> Body(f, n, i)]
           F == [n \in Nat |-> Right(n)]
<1>5. \A n \in Nat : Right(n) = [i \in Nat |-> Body(Right(n), n, i)]
  BY <1>4
<1> HIDE DEF Right
<1>6. F = [n \in Nat |-> [i \in Nat |-> Body(F[n], n, i)]]
  BY <1>5
<1>7. \E f : f = [n \in Nat |-> [i \in Nat |-> Body(f[n], n, i)]]
  BY <1>6
<1>8. Down = [n \in Nat |-> [i \in Nat |-> Body(Down[n], n, i)]]
  BY <1>7 DEF Down, Body
<1>9. \A n, i \in Nat : Down[n][i] = Body(Down[n], n, i)
  BY <1>8
<1> QED
  BY <1>9 DEF Body

-----------------------------------------------------------------------------
(* The order of the items, and the exchange of two.                         *)

\* What PriorityOrder sees of an item.
EntryOf(item) == [task |-> item.task, stamp |-> item.stamp]
EntriesOf(h) == {EntryOf(h[k]) : k \in DOMAIN h}

\* An array of items that know their places, of different tasks.
Sound(h) ==
    /\ h \in Seq(Item)
    /\ \A k \in 1..Len(h) : h[k].index = k
    /\ \A k, m \in 1..Len(h) : h[k].task = h[m].task => k = m

\* The first n items are in the order of a heap.
Ordered(h, n) == \A k \in 2..n : ~Less(h, k, k \div 2)

\* An item has an entry, and Less compares the entries.
LEMMA EntryOfItem ==
    /\ \A a \in Item : EntryOf(a) \in Order!Entry
    /\ \A h : \A k, m : Less(h, k, m)
         <=> Order!Before(EntryOf(h[k]), EntryOf(h[m]))
  BY DEF Item, EntryOf, Order!Entry, Order!Before, Less

\* Before is a strict order.
LEMMA BeforeIsStrict ==
    ASSUME NEW a \in Order!Entry, NEW b \in Order!Entry
    PROVE  /\ ~Order!Before(a, a)
           /\ Order!Before(a, b) => ~Order!Before(b, a)
<1>1. /\ Urgency[a.task] \in Int /\ Urgency[b.task] \in Int
      /\ a.stamp \in Int /\ b.stamp \in Int
  BY QueueAssumption DEF Order!Entry
<1> QED
  BY <1>1 DEF Order!Before

\* Of three entries, if none comes before the next, the first does not come
\* before the last.
LEMMA NotBeforeIsTransitive ==
    ASSUME NEW a \in Order!Entry, NEW b \in Order!Entry,
           NEW c \in Order!Entry,
           ~Order!Before(a, b), ~Order!Before(b, c)
    PROVE  ~Order!Before(a, c)
<1>1. /\ Urgency[a.task] \in Int /\ Urgency[b.task] \in Int
      /\ Urgency[c.task] \in Int
      /\ a.stamp \in Int /\ b.stamp \in Int /\ c.stamp \in Int
  BY QueueAssumption DEF Order!Entry
<1> QED
  BY <1>1 DEF Order!Before

\* The same of the items of an array.
LEMMA LessOrders ==
    ASSUME NEW h \in Seq(Item), NEW k \in 1..Len(h), NEW m \in 1..Len(h),
           NEW p \in 1..Len(h)
    PROVE  /\ ~Less(h, k, k)
           /\ Less(h, k, m) => ~Less(h, m, k)
           /\ ~Less(h, k, m) /\ ~Less(h, m, p) => ~Less(h, k, p)
<1>1. h[k] \in Item /\ h[m] \in Item /\ h[p] \in Item
  BY ElementOfSeq
<1>2. /\ EntryOf(h[k]) \in Order!Entry /\ EntryOf(h[m]) \in Order!Entry
      /\ EntryOf(h[p]) \in Order!Entry
  BY <1>1, EntryOfItem
<1> QED
  BY <1>2, EntryOfItem, BeforeIsStrict, NotBeforeIsTransitive

\* An item keeps its entry when it is told its place.
LEMMA Retold ==
    ASSUME NEW a \in Item, NEW k \in Int
    PROVE  /\ [a EXCEPT !.index = k] \in Item
           /\ [a EXCEPT !.index = k].index = k
           /\ EntryOf([a EXCEPT !.index = k]) = EntryOf(a)
  BY DEF Item, EntryOf

\* Swap exchanges the entries of two items and tells the items their places.
LEMMA SwapExchanges ==
    ASSUME NEW h, Sound(h), NEW i \in 1..Len(h), NEW j \in 1..Len(h)
    PROVE  /\ Sound(Swap(h, i, j)) /\ Len(Swap(h, i, j)) = Len(h)
           /\ EntryOf(Swap(h, i, j)[i]) = EntryOf(h[j])
           /\ EntryOf(Swap(h, i, j)[j]) = EntryOf(h[i])
           /\ \A k \in 1..Len(h) :
                k # i /\ k # j => Swap(h, i, j)[k] = h[k]
           /\ EntriesOf(Swap(h, i, j)) = EntriesOf(h)
<1> DEFINE g == Swap(h, i, j)
<1>1. /\ h \in Seq(Item) /\ Len(h) \in Nat /\ DOMAIN h = 1..Len(h)
      /\ h[i] \in Item /\ h[j] \in Item
      /\ \A k \in 1..Len(h) : h[k] \in Item
  BY LenProperties, ElementOfSeq DEF Sound
<1>2. /\ DOMAIN g = 1..Len(h)
      /\ g[j] = [h[i] EXCEPT !.index = j]
      /\ i # j => g[i] = [h[j] EXCEPT !.index = i]
      /\ \A k \in 1..Len(h) : k # i /\ k # j => g[k] = h[k]
  BY <1>1 DEF Swap
<1> HIDE DEF g
<1>3. g[j] \in Item /\ g[j].index = j /\ EntryOf(g[j]) = EntryOf(h[i])
  <2>1. j \in Int /\ h[i] \in Item /\ g[j] = [h[i] EXCEPT !.index = j]
    BY <1>1, <1>2
  <2> QED
    BY <2>1, Retold
<1>4. g[i] \in Item /\ g[i].index = i /\ EntryOf(g[i]) = EntryOf(h[j])
  <2>1. CASE i = j
    BY <1>3, <2>1
  <2>2. CASE i # j
    <3>1. i \in Int /\ h[j] \in Item /\ g[i] = [h[j] EXCEPT !.index = i]
      BY <1>1, <1>2, <2>2
    <3> QED
      BY <3>1, Retold
  <2> QED
    BY <2>1, <2>2
<1>5. \A k \in 1..Len(h) : g[k] \in Item /\ g[k].index = k
  BY <1>1, <1>2, <1>3, <1>4 DEF Sound
<1>6. g \in Seq(Item) /\ Len(g) = Len(h)
  <2>1. g = [k \in 1..Len(h) |-> g[k]]
    BY <1>2 DEF g, Swap
  <2> QED
    BY <1>1, <1>2, <1>5, <2>1, IsASeq, LenProperties
<1> DEFINE other(k) == IF k = i THEN j ELSE IF k = j THEN i ELSE k
<1>7. \A k \in 1..Len(h) : /\ other(k) \in 1..Len(h)
                           /\ EntryOf(g[k]) = EntryOf(h[other(k)])
                           /\ EntryOf(h[k]) = EntryOf(g[other(k)])
  BY <1>2, <1>3, <1>4
<1>8. EntriesOf(g) = EntriesOf(h)
  <2> HIDE DEF other, EntryOf
  <2>1. EntriesOf(g) = {EntryOf(g[k]) : k \in 1..Len(h)}
    BY <1>2 DEF EntriesOf
  <2>2. EntriesOf(h) = {EntryOf(h[k]) : k \in 1..Len(h)}
    BY <1>1 DEF EntriesOf
  <2>3. \A k \in 1..Len(h) : /\ EntryOf(g[k]) \in EntriesOf(h)
                              /\ EntryOf(h[k]) \in EntriesOf(g)
    <3> SUFFICES ASSUME NEW k \in 1..Len(h)
                 PROVE  /\ EntryOf(g[k]) \in EntriesOf(h)
                        /\ EntryOf(h[k]) \in EntriesOf(g)
      OBVIOUS
    <3>1. other(k) \in 1..Len(h)
      BY <1>7
    <3>2. /\ EntryOf(g[k]) = EntryOf(h[other(k)])
          /\ EntryOf(h[k]) = EntryOf(g[other(k)])
      BY <1>7
    <3> QED
      BY <2>1, <2>2, <3>1, <3>2
  <2>4. EntriesOf(g) \subseteq EntriesOf(h)
    BY ONLY <2>1, <2>3
  <2>5. EntriesOf(h) \subseteq EntriesOf(g)
    BY ONLY <2>2, <2>3
  <2> QED
    BY ONLY <2>4, <2>5
<1>9. \A k, m \in 1..Len(h) : other(k) = other(m) => k = m
  OBVIOUS
<1>10. \A k \in 1..Len(h) : g[k].task = h[other(k)].task
  BY <1>7 DEF EntryOf
<1>11. \A k, m \in 1..Len(h) : g[k].task = g[m].task => k = m
  <2> HIDE DEF other
  <2> SUFFICES ASSUME NEW k \in 1..Len(h), NEW m \in 1..Len(h),
                      g[k].task = g[m].task
               PROVE  k = m
    OBVIOUS
  <2>1. other(k) \in 1..Len(h) /\ other(m) \in 1..Len(h)
    BY <1>7
  <2>2. h[other(k)].task = h[other(m)].task
    BY <1>10
  <2>3. other(k) = other(m)
    BY <2>1, <2>2 DEF Sound
  <2> QED
    BY <1>9, <2>3
<1> QED
  BY <1>2, <1>3, <1>4, <1>5, <1>6, <1>8, <1>11 DEF Sound, g

-----------------------------------------------------------------------------
(* The loop of up.                                                          *)

\* A place's parent is a place before it.
LEMMA ParentBefore ==
    \A k \in Nat : k >= 2 => /\ k \div 2 \in Nat /\ k \div 2 >= 1
                             /\ k \div 2 < k
OBVIOUS

\* The heap is in order but for the item at place j, which may have to rise:
\* what is below j comes after what is above it.
RisesAt(h, j) ==
    /\ \A k \in 2..Len(h) : k # j => ~Less(h, k, k \div 2)
    /\ \A k \in 2..Len(h) :
         k \div 2 = j /\ j \div 2 >= 1 => ~Less(h, k, j \div 2)

\* What the exchange of two places means for the order.
LEMMA LessAfterSwap ==
    ASSUME NEW h, Sound(h), NEW i \in 1..Len(h), NEW j \in 1..Len(h),
           NEW k \in 1..Len(h), NEW m \in 1..Len(h)
    PROVE  LET was(p) == IF p = i THEN j ELSE IF p = j THEN i ELSE p
           IN  Less(Swap(h, i, j), k, m) <=> Less(h, was(k), was(m))
<1> DEFINE was(p) == IF p = i THEN j ELSE IF p = j THEN i ELSE p
           g == Swap(h, i, j)
<1>1. ASSUME NEW p \in 1..Len(h)
      PROVE  EntryOf(g[p]) = EntryOf(h[was(p)])
  <2>1. CASE p = i
    BY <2>1, SwapExchanges
  <2>2. CASE p = j
    BY <2>2, SwapExchanges
  <2>3. CASE p # i /\ p # j
    <3>1. g[p] = h[p]
      BY <2>3, SwapExchanges
    <3> QED
      BY <2>3, <3>1
  <2> QED
    BY <2>1, <2>2, <2>3
<1> HIDE DEF g, was
<1>2. Less(g, k, m) <=> Less(h, was(k), was(m))
  BY <1>1, EntryOfItem
<1> QED
  BY <1>2 DEF g, was

\* One turn of the loop: the item rises to its parent's place.
LEMMA UpTurn ==
    ASSUME NEW h, Sound(h), NEW j \in 1..Len(h), RisesAt(h, j),
           NEW i, i = j \div 2, i # 0, Less(h, j, i)
    PROVE  /\ i \in 1..Len(h) /\ i < j
           /\ Sound(Swap(h, i, j)) /\ Len(Swap(h, i, j)) = Len(h)
           /\ EntriesOf(Swap(h, i, j)) = EntriesOf(h)
           /\ RisesAt(Swap(h, i, j), i)
<1>1. h \in Seq(Item) /\ Len(h) \in Nat
  BY LenProperties DEF Sound
<1>2. j >= 2 /\ i \in 1..Len(h) /\ i < j
  <2>1. j = 1 => i = 0
    OBVIOUS
  <2>2. j >= 2
    BY <2>1
  <2> QED
    BY <1>1, <2>2, ParentBefore
<1> DEFINE g == Swap(h, i, j)
           was(p) == IF p = i THEN j ELSE IF p = j THEN i ELSE p
<1>3. /\ Sound(g) /\ Len(g) = Len(h) /\ EntriesOf(g) = EntriesOf(h)
  BY <1>2, SwapExchanges
<1>4. \A k, m \in 1..Len(h) : Less(g, k, m) <=> Less(h, was(k), was(m))
  BY <1>2, LessAfterSwap
<1> HIDE DEF g
<1>5. ~Less(h, i, j)
  BY <1>1, <1>2, LessOrders
<1>6. ASSUME NEW k \in 2..Len(h), k # i PROVE ~Less(g, k, k \div 2)
  <2>1. k \in 1..Len(h) /\ k \div 2 \in 1..Len(h) /\ k \div 2 < k
    BY <1>1, ParentBefore
  <2> DEFINE p == k \div 2
  <2>2. Less(g, k, p) <=> Less(h, was(k), was(p))
    BY <1>4, <2>1
  <2>3. k # j => ~Less(h, k, p)
    BY DEF RisesAt
  <2>4. p = j /\ i >= 1 => ~Less(h, k, i)
    BY DEF RisesAt
  <2> HIDE DEF p
  <2>5. CASE k = j
    BY <1>2, <1>5, <2>2, <2>5 DEF p
  <2>6. CASE k # j /\ p = i
    BY <1>1, <1>2, <1>5, <1>6, <2>1, <2>2, <2>3, <2>6, LessOrders DEF p
  <2>7. CASE k # j /\ p = j
    BY <1>2, <1>6, <2>2, <2>4, <2>7 DEF p
  <2>8. CASE k # j /\ p # i /\ p # j
    BY <1>6, <2>2, <2>3, <2>8 DEF p
  <2> QED
    BY <2>5, <2>6, <2>7, <2>8 DEF p
<1>7. ASSUME NEW k \in 2..Len(h), k \div 2 = i, i \div 2 >= 1
      PROVE  ~Less(g, k, i \div 2)
  <2> DEFINE q == i \div 2
  <2>1. /\ k \in 1..Len(h) /\ i < k /\ i \in 2..Len(h)
        /\ q \in 1..Len(h) /\ q < i
    <3>1. i >= 2
      BY <1>2, <1>7
    <3> QED
      BY <1>1, <1>2, <1>7, <3>1, ParentBefore
  <2>2. ~Less(h, i, q)
    BY <1>2, <2>1 DEF RisesAt
  <2>3. k # j => ~Less(h, k, i)
    BY <1>7 DEF RisesAt
  <2>4. Less(g, k, q) <=> Less(h, was(k), was(q))
    BY <1>4, <2>1
  <2> HIDE DEF q
  <2>5. CASE k = j
    BY <1>2, <2>1, <2>2, <2>4, <2>5 DEF q
  <2>6. CASE k # j
    <3>1. ~Less(h, k, q)
      BY <1>1, <1>2, <2>1, <2>2, <2>3, <2>6, LessOrders
    <3> QED
      BY <1>2, <2>1, <2>4, <2>6, <3>1 DEF q
  <2> QED
    BY <2>5, <2>6 DEF q
<1> QED
  BY <1>2, <1>3, <1>6, <1>7 DEF RisesAt, g

\* When the loop stops the heap is in order.
LEMMA UpStops ==
    ASSUME NEW h, Sound(h), NEW j \in 1..Len(h), RisesAt(h, j),
           j \div 2 = 0 \/ ~Less(h, j, j \div 2)
    PROVE  Ordered(h, Len(h))
<1>1. j >= 2 => j \div 2 # 0
  BY ParentBefore
<1>2. ASSUME NEW k \in 2..Len(h) PROVE ~Less(h, k, k \div 2)
  <2>1. CASE k = j
    BY <1>1, <2>1
  <2>2. CASE k # j
    BY <2>2 DEF RisesAt
  <2> QED
    BY <2>1, <2>2
<1> QED
  BY <1>2 DEF Ordered

\* What up makes of a heap whose item at place j may have to rise: a heap of
\* the same entries.
LEMMA UpOrders ==
    ASSUME NEW h, Sound(h), NEW j \in 1..Len(h), RisesAt(h, j)
    PROVE  /\ Sound(Up[j][h]) /\ Len(Up[j][h]) = Len(h)
           /\ Ordered(Up[j][h], Len(h))
           /\ EntriesOf(Up[j][h]) = EntriesOf(h)
<1> DEFINE Made(a, g) == /\ Sound(g) /\ Len(g) = Len(a)
                         /\ Ordered(g, Len(a)) /\ EntriesOf(g) = EntriesOf(a)
           Fit(a, m) == Sound(a) /\ m \in 1..Len(a) /\ RisesAt(a, m)
           T == {m \in Nat : \E a : Fit(a, m) /\ ~Made(a, Up[m][a])}
<1>1. ASSUME NEW m \in T, \A y \in T : ~(y < m) PROVE FALSE
  <2>1. PICK a : Fit(a, m) /\ ~Made(a, Up[m][a])
    OBVIOUS
  <2> DEFINE i == m \div 2
             g == Swap(a, i, m)
  <2>2. a \in Seq(Item) /\ m \in Nat
    BY <2>1 DEF Sound
  <2>3. Up[m][a] = IF i = 0 \/ ~Less(a, m, i) THEN a ELSE Up[i][g]
    <3>1. Up[m] = [x \in Seq(Item) |->
            LET y == m \div 2 IN
            IF y = 0 \/ ~Less(x, m, y) THEN x ELSE Up[y][Swap(x, y, m)]]
      BY <2>2, UpEquation
    <3> QED
      BY <2>2, <3>1
  <2>4. CASE i = 0 \/ ~Less(a, m, i)
    BY <2>1, <2>3, <2>4, UpStops
  <2>5. CASE i # 0 /\ Less(a, m, i)
    <3>1. /\ i \in 1..Len(a) /\ i < m /\ Sound(g) /\ Len(g) = Len(a)
          /\ EntriesOf(g) = EntriesOf(a) /\ RisesAt(g, i)
      BY <2>1, <2>5, UpTurn
    <3>2. Up[m][a] = Up[i][g]
      BY <2>3, <2>5
    <3>3. i \in Nat /\ i \notin T
      BY <1>1, <2>2, <3>1
    <3> HIDE DEF i, g
    <3>4. Fit(g, i)
      BY <3>1
    <3>5. Made(g, Up[i][g])
      <4> HIDE DEF Made, Fit
      <4> QED
        BY <3>3, <3>4
    <3>6. Made(a, Up[m][a])
      BY <3>1, <3>2, <3>5
    <3> QED
      BY <2>1, <3>6
  <2> QED
    BY <2>4, <2>5
<1>2. T = {}
  <2> HIDE DEF T
  <2>1. T \subseteq Nat
    BY DEF T
  <2> QED
    BY <1>1, <2>1, LeastNatural
<1>3. Fit(h, j) /\ j \in Nat
  OBVIOUS
<1>4. Made(h, Up[j][h])
  <2> HIDE DEF Made, Fit
  <2> QED
    BY <1>2, <1>3
<1> QED
  BY <1>4

-----------------------------------------------------------------------------
(* The loop of down.                                                        *)

\* The first n items are in order but for the item at place i, which may have
\* to sink: what is below i comes after what is above it.
SinksAt(h, i, n) ==
    /\ \A k \in 2..n : k \div 2 # i => ~Less(h, k, k \div 2)
    /\ \A k \in 2..n :
         k \div 2 = i /\ i \div 2 >= 1 => ~Less(h, k, i \div 2)

\* A place's children are 2i and 2i + 1.
LEMMA Children ==
    \A i \in Nat : \A k \in Nat : k \div 2 = i => k = 2 * i \/ k = 2 * i + 1
OBVIOUS

\* No child of i comes before the smaller one.
LEMMA SmallerChildIs ==
    ASSUME NEW h \in Seq(Item), NEW n \in 0..Len(h), NEW i \in Nat, i >= 1,
           NEW j, j = SmallerChild(h, i, n)
    PROVE  /\ j = 0 => \A k \in 2..n : k \div 2 # i
           /\ j # 0 => /\ j \in 2..n /\ j > i /\ j \div 2 = i
                       /\ \A k \in 2..n : k \div 2 = i => ~Less(h, k, j)
<1>1. Len(h) \in Nat /\ n \in Nat
  BY LenProperties
<1>2. \A k \in 2..n : k \div 2 = i => k = 2 * i \/ k = 2 * i + 1
  BY <1>1, Children
<1>3. /\ 2 * i \in Nat /\ 2 * i >= 2 /\ 2 * i > i
      /\ (2 * i) \div 2 = i /\ (2 * i + 1) \div 2 = i
  OBVIOUS
<1>4. CASE 2 * i > n
  <2>1. j = 0
    BY <1>4 DEF SmallerChild
  <2> QED
    BY <1>1, <1>2, <1>3, <1>4, <2>1
<1>5. CASE ~(2 * i > n) /\ 2 * i < n /\ Less(h, 2 * i + 1, 2 * i)
  <2>1. j = 2 * i + 1 /\ j \in 2..n /\ 2 * i \in 2..n
    BY <1>1, <1>3, <1>5 DEF SmallerChild
  <2>2. j \in 1..Len(h) /\ 2 * i \in 1..Len(h)
    BY <1>1, <2>1
  <2>3. ~Less(h, j, j) /\ ~Less(h, 2 * i, j)
    BY <1>5, <2>1, <2>2, LessOrders
  <2> QED
    BY <1>2, <1>3, <2>1, <2>3
<1>6. CASE ~(2 * i > n) /\ ~(2 * i < n /\ Less(h, 2 * i + 1, 2 * i))
  <2>1. j = 2 * i /\ j \in 2..n
    BY <1>1, <1>3, <1>6 DEF SmallerChild
  <2>2. ~Less(h, j, j)
    BY <1>1, <2>1, LessOrders
  <2>3. ASSUME NEW k \in 2..n, k = 2 * i + 1 PROVE ~Less(h, k, j)
    <3>1. 2 * i < n
      BY <1>1, <1>3, <2>3
    <3> QED
      BY <1>6, <2>1, <2>3, <3>1
  <2> QED
    BY <1>2, <1>3, <2>1, <2>2, <2>3
<1> QED
  BY <1>4, <1>5, <1>6

\* One turn of the loop: the item sinks to the place of its smaller child.
LEMMA DownTurn ==
    ASSUME NEW h, Sound(h), NEW n \in 0..Len(h), NEW i \in Nat, i >= 1,
           SinksAt(h, i, n),
           NEW j, j = SmallerChild(h, i, n), j # 0, Less(h, j, i)
    PROVE  /\ j \in Nat /\ j > i
           /\ Sound(Swap(h, i, j)) /\ Len(Swap(h, i, j)) = Len(h)
           /\ EntriesOf(Swap(h, i, j)) = EntriesOf(h)
           /\ \A k \in 1..Len(h) : k > n => Swap(h, i, j)[k] = h[k]
           /\ SinksAt(Swap(h, i, j), j, n)
<1>1. h \in Seq(Item) /\ Len(h) \in Nat /\ n \in Nat /\ 2..n \subseteq 1..Len(h)
  BY LenProperties DEF Sound
<1>2. /\ j \in 2..n /\ j > i /\ j \div 2 = i
      /\ \A k \in 2..n : k \div 2 = i => ~Less(h, k, j)
  BY <1>1, SmallerChildIs
<1>3. i \in 1..Len(h) /\ j \in 1..Len(h) /\ i <= n /\ j <= n
  BY <1>1, <1>2
<1> DEFINE g == Swap(h, i, j)
           was(p) == IF p = i THEN j ELSE IF p = j THEN i ELSE p
<1>4. /\ Sound(g) /\ Len(g) = Len(h) /\ EntriesOf(g) = EntriesOf(h)
      /\ \A k \in 1..Len(h) : k > n => g[k] = h[k]
  <2>1. \A k \in 1..Len(h) : k > n => k # i /\ k # j
    BY <1>1, <1>2, <1>3
  <2> QED
    BY <1>3, <2>1, SwapExchanges
<1>5. \A k, m \in 1..Len(h) : Less(g, k, m) <=> Less(h, was(k), was(m))
  BY <1>3, LessAfterSwap
<1> HIDE DEF g
<1>6. ~Less(h, i, j)
  BY <1>1, <1>3, LessOrders
<1>7. ASSUME NEW k \in 2..n, k \div 2 # j PROVE ~Less(g, k, k \div 2)
  <2> DEFINE p == k \div 2
  <2>1. k \in 1..Len(h) /\ p \in 1..Len(h) /\ p < k
    BY <1>1, ParentBefore
  <2>2. Less(g, k, p) <=> Less(h, was(k), was(p))
    BY <1>5, <2>1
  <2>3. p # i => ~Less(h, k, p)
    BY DEF SinksAt
  <2>4. p = i => ~Less(h, k, j)
    BY <1>2
  <2>5. k = i => ~Less(h, j, p)
    <3>1. k = i => p >= 1 /\ i \div 2 = p
      BY <2>1
    <3> QED
      BY <1>2, <3>1 DEF SinksAt
  <2>6. p # j
    BY <1>7
  <2> HIDE DEF p
  <2>7. CASE k = j
    <3>1. p = i
      BY <1>2, <2>7 DEF p
    <3> QED
      BY <1>2, <1>6, <2>2, <2>7, <3>1 DEF p
  <2>8. CASE k = i
    <3>1. p # i
      BY <2>1, <2>8
    <3> QED
      BY <2>2, <2>5, <2>6, <2>8, <3>1 DEF p
  <2>9. CASE k # j /\ k # i
    BY <2>2, <2>3, <2>4, <2>6, <2>9 DEF p
  <2> QED
    BY <2>7, <2>8, <2>9
<1>8. ASSUME NEW k \in 2..n, k \div 2 = j, j \div 2 >= 1
      PROVE  ~Less(g, k, j \div 2)
  <2>1. k \in 1..Len(h) /\ j < k
    BY <1>1, <1>8, ParentBefore
  <2>2. k # i /\ k # j /\ j # i
    BY <1>2, <1>3, <2>1
  <2>3. Less(g, k, i) <=> Less(h, k, j)
    BY <1>3, <1>5, <2>1, <2>2
  <2>4. ~Less(h, k, j)
    BY <1>8, <2>2 DEF SinksAt
  <2> QED
    BY <1>2, <2>3, <2>4
<1> QED
  BY <1>2, <1>4, <1>7, <1>8 DEF SinksAt, g

\* When the loop stops the first n items are in order.
LEMMA DownStops ==
    ASSUME NEW h, Sound(h), NEW n \in 0..Len(h), NEW i \in Nat, i >= 1,
           SinksAt(h, i, n),
           NEW j, j = SmallerChild(h, i, n), j = 0 \/ ~Less(h, j, i)
    PROVE  Ordered(h, n)
<1>1. /\ h \in Seq(Item) /\ Len(h) \in Nat /\ n \in Nat
      /\ 2..n \subseteq 1..Len(h)
  BY LenProperties DEF Sound
<1>2. /\ j = 0 => \A k \in 2..n : k \div 2 # i
      /\ j # 0 => /\ j \in 2..n /\ j > i
                  /\ \A k \in 2..n : k \div 2 = i => ~Less(h, k, j)
  BY <1>1, SmallerChildIs
<1>3. ASSUME NEW k \in 2..n PROVE ~Less(h, k, k \div 2)
  <2>1. CASE k \div 2 # i
    BY <2>1 DEF SinksAt
  <2>2. CASE k \div 2 = i
    <3>1. j # 0
      BY <1>2, <2>2
    <3>2. /\ j \in 1..Len(h) /\ i \in 1..Len(h) /\ k \in 1..Len(h)
      BY <1>1, <1>2, <3>1
    <3>3. ~Less(h, k, j) /\ ~Less(h, j, i)
      BY <1>2, <2>2, <3>1
    <3> QED
      BY <1>1, <2>2, <3>2, <3>3, LessOrders
  <2> QED
    BY <2>1, <2>2
<1> QED
  BY <1>3 DEF Ordered

\* What down makes of a heap whose item at place i may have to sink: a heap of
\* the same entries, that leaves the items beyond n alone.
LEMMA DownOrders ==
    ASSUME NEW h, Sound(h), NEW n \in 0..Len(h), NEW i \in Nat, i >= 1,
           SinksAt(h, i, n)
    PROVE  /\ Sound(Down[n][i][h]) /\ Len(Down[n][i][h]) = Len(h)
           /\ Ordered(Down[n][i][h], n)
           /\ EntriesOf(Down[n][i][h]) = EntriesOf(h)
           /\ \A k \in 1..Len(h) : k > n => Down[n][i][h][k] = h[k]
<1> DEFINE Made(a, g) ==
             /\ Sound(g) /\ Len(g) = Len(a) /\ Ordered(g, n)
             /\ EntriesOf(g) = EntriesOf(a)
             /\ \A k \in 1..Len(a) : k > n => g[k] = a[k]
           Fit(a, m) ==
             /\ Sound(a) /\ n \in 0..Len(a) /\ m \in Nat /\ m >= 1
             /\ SinksAt(a, m, n)
           T == {s \in Nat : \E a, m : /\ Fit(a, m) /\ m + s > n
                                        /\ ~Made(a, Down[n][m][a])}
<1>0. n \in Nat
  OBVIOUS
<1>1. ASSUME NEW s \in T, \A y \in T : ~(y < s) PROVE FALSE
  <2>1. PICK a, m : Fit(a, m) /\ m + s > n /\ ~Made(a, Down[n][m][a])
    OBVIOUS
  <2> DEFINE j == SmallerChild(a, m, n)
             g == Swap(a, m, j)
  <2>2. a \in Seq(Item) /\ m \in Nat /\ s \in Nat
    BY <2>1 DEF Sound
  <2>3. Down[n][m][a] = IF j = 0 \/ ~Less(a, j, m) THEN a ELSE Down[n][j][g]
    <3>1. Down[n][m] = [x \in Seq(Item) |->
            LET y == SmallerChild(x, m, n) IN
            IF y = 0 \/ ~Less(x, y, m) THEN x ELSE Down[n][y][Swap(x, m, y)]]
      BY <1>0, <2>2, DownEquation
    <3> QED
      BY <2>2, <3>1
  <2>4. CASE j = 0 \/ ~Less(a, j, m)
    <3>1. Ordered(a, n)
      BY <2>1, <2>4, DownStops
    <3> QED
      BY <2>1, <2>3, <2>4, <3>1
  <2>5. CASE j # 0 /\ Less(a, j, m)
    <3>1. /\ j \in Nat /\ j > m /\ Sound(g) /\ Len(g) = Len(a)
          /\ EntriesOf(g) = EntriesOf(a) /\ SinksAt(g, j, n)
          /\ \A k \in 1..Len(a) : k > n => g[k] = a[k]
      BY <2>1, <2>5, DownTurn
    <3>2. Down[n][m][a] = Down[n][j][g]
      BY <2>3, <2>5
    <3> HIDE DEF j, g
    <3>3. Fit(g, j)
      BY <2>1, <2>2, <3>1
    <3>4. s # 0
      <4>1. j <= n
        <5>1. n \in 0..Len(a) /\ m \in Nat /\ m >= 1
          BY <2>1
        <5> QED
          BY <1>0, <2>2, <2>5, <5>1, SmallerChildIs DEF j
      <4>2. m + s > n
        BY <2>1
      <4> HIDE DEF T, Fit, Made
      <4> QED
        BY <1>0, <2>2, <3>1, <4>1, <4>2
    <3>5. s - 1 \in Nat /\ j + (s - 1) > n /\ s - 1 < s
      BY <1>0, <2>1, <2>2, <3>1, <3>4
    <3>6. s - 1 \notin T
      BY <1>1, <3>5
    <3>7. Made(g, Down[n][j][g])
      <4> HIDE DEF Made, Fit
      <4> QED
        BY <3>3, <3>5, <3>6
    <3>8. Made(a, Down[n][m][a])
      BY <3>1, <3>2, <3>7
    <3> QED
      BY <2>1, <3>8
  <2> QED
    BY <2>4, <2>5
<1>2. T = {}
  <2> HIDE DEF T
  <2>1. T \subseteq Nat
    BY DEF T
  <2> QED
    BY <1>1, <2>1, LeastNatural
<1>3. Fit(h, i) /\ n + 1 \in Nat /\ i + (n + 1) > n
  BY <1>0
<1>4. Made(h, Down[n][i][h])
  <2> HIDE DEF Made, Fit
  <2> QED
    BY <1>2, <1>3
<1> QED
  BY <1>4

-----------------------------------------------------------------------------
(* Push and Pop.                                                            *)

\* In a heap in order no item comes before the first.
LEMMA RootFirst ==
    ASSUME NEW h, Sound(h), Ordered(h, Len(h)), NEW k \in 1..Len(h)
    PROVE  ~Less(h, k, 1)
<1> DEFINE T == {m \in 1..Len(h) : Less(h, m, 1)}
<1>1. h \in Seq(Item) /\ Len(h) \in Nat
  BY LenProperties DEF Sound
<1>2. ASSUME NEW m \in T, \A y \in T : ~(y < m) PROVE FALSE
  <2> DEFINE p == m \div 2
  <2>1. m \in 1..Len(h) /\ 1 \in 1..Len(h) /\ Less(h, m, 1)
    BY <1>1
  <2>2. m >= 2
    <3>1. m # 1
      BY <1>1, <2>1, LessOrders
    <3> QED
      BY <1>1, <2>1, <3>1
  <2>3. p \in 1..Len(h) /\ p < m /\ m \in 2..Len(h)
    BY <1>1, <2>1, <2>2, ParentBefore
  <2>4. ~Less(h, m, p)
    BY <2>3 DEF Ordered
  <2>5. p \notin T
    BY <1>2, <2>3
  <2>6. ~Less(h, p, 1)
    BY <2>3, <2>5
  <2> HIDE DEF p, T
  <2> QED
    BY <1>1, <2>1, <2>3, <2>4, <2>6, LessOrders
<1>3. T = {}
  <2> HIDE DEF T
  <2>1. T \subseteq Nat
    BY <1>1 DEF T
  <2> QED
    BY <1>2, <2>1, LeastNatural
<1> QED
  BY <1>3

\* What the queue keeps: a heap in order, whose items know their places.
QueueInv == Sound(heap) /\ Ordered(heap, Len(heap))

\* The new item goes to the end, from where it may have to rise.
LEMMA PlacedRises ==
    ASSUME NEW h, Sound(h), Ordered(h, Len(h)), NEW item \in Item,
           \A k \in 1..Len(h) : h[k].task # item.task
    PROVE  /\ Sound(Placed(h, item)) /\ Len(Placed(h, item)) = Len(h) + 1
           /\ RisesAt(Placed(h, item), Len(h) + 1)
           /\ EntriesOf(Placed(h, item)) = EntriesOf(h) \union {EntryOf(item)}
<1> DEFINE n == Len(h) + 1
           new == [item EXCEPT !.index = n]
           g == Placed(h, item)
<1>1. /\ h \in Seq(Item) /\ Len(h) \in Nat /\ n \in Nat /\ n >= 1
      /\ DOMAIN h = 1..Len(h)
      /\ \A k \in 1..Len(h) : h[k] \in Item /\ h[k].index = k
  BY LenProperties, ElementOfSeq DEF Sound
<1>2. /\ new \in Item /\ new.index = n /\ EntryOf(new) = EntryOf(item)
  <2>1. n \in Int
    BY <1>1
  <2> HIDE DEF n, EntryOf
  <2> QED
    BY <2>1, Retold
<1>3. /\ new.task = item.task
  BY <1>2 DEF EntryOf
<1> HIDE DEF new
<1>4. /\ g \in Seq(Item) /\ Len(g) = n /\ DOMAIN g = 1..n
      /\ g[n] = new /\ \A k \in 1..Len(h) : g[k] = h[k]
  BY <1>1, <1>2, AppendProperties, LenProperties DEF Placed, new
<1> HIDE DEF g
<1>5. \A k \in 1..n : k \in 1..Len(h) \/ k = n
  BY <1>1
<1>6. Sound(g)
  <2>1. \A k \in 1..n : g[k].index = k
    BY <1>1, <1>2, <1>4, <1>5
  <2>2. ASSUME NEW k \in 1..n, NEW m \in 1..n, g[k].task = g[m].task
        PROVE  k = m
    <3>1. CASE k \in 1..Len(h) /\ m \in 1..Len(h)
      BY <1>4, <2>2, <3>1 DEF Sound
    <3>2. CASE ~(k \in 1..Len(h) /\ m \in 1..Len(h))
      <4> HIDE DEF n
      <4> QED
        BY <1>3, <1>4, <1>5, <2>2, <3>2
    <3> QED
      BY <3>1, <3>2
  <2> QED
    BY <1>4, <2>1, <2>2 DEF Sound
<1>7. RisesAt(g, n)
  <2>1. ASSUME NEW k \in 2..n, k # n PROVE ~Less(g, k, k \div 2)
    <3>1. k \in 2..Len(h) /\ k \in 1..Len(h) /\ k \div 2 \in 1..Len(h)
      BY <1>1, <2>1, ParentBefore
    <3>2. ~Less(h, k, k \div 2)
      BY <3>1 DEF Ordered
    <3>3. g[k] = h[k] /\ g[k \div 2] = h[k \div 2]
      BY <1>4, <3>1
    <3> QED
      BY <3>2, <3>3, EntryOfItem
  <2>2. \A k \in 2..n : k \div 2 # n
    BY <1>1, ParentBefore
  <2> QED
    BY <1>4, <2>1, <2>2 DEF RisesAt
<1>8. EntriesOf(g) = EntriesOf(h) \union {EntryOf(item)}
  <2>1. EntriesOf(g) = {EntryOf(g[k]) : k \in 1..n}
    BY <1>4 DEF EntriesOf
  <2>2. EntriesOf(h) = {EntryOf(h[k]) : k \in 1..Len(h)}
    BY <1>1 DEF EntriesOf
  <2>3. 1..Len(h) \subseteq 1..n /\ n \in 1..n
    BY <1>1
  <2>4. EntriesOf(g) \subseteq EntriesOf(h) \union {EntryOf(item)}
    <3> HIDE DEF n, EntryOf, EntriesOf
    <3> QED
      BY <1>2, <1>4, <1>5, <2>1, <2>2
  <2>5. EntriesOf(h) \union {EntryOf(item)} \subseteq EntriesOf(g)
    <3> HIDE DEF n, EntryOf, EntriesOf
    <3> QED
      BY <1>2, <1>4, <2>1, <2>2, <2>3
  <2> QED
    BY <2>4, <2>5
<1> QED
  BY <1>4, <1>6, <1>7, <1>8 DEF g

\* Push leaves a heap, with the entry of the new task among those it held.
LEMMA PushInserts ==
    ASSUME QueueInv, NEW t \in Jobs, NEW now \in Stamps, Push(t, now)
    PROVE  /\ QueueInv'
           /\ EntriesOf(heap)'
                = EntriesOf(heap) \union {[task |-> t, stamp |-> now]}
           /\ \A w \in EntriesOf(heap) : w.task # t
<1> DEFINE item == [task |-> t, stamp |-> now, index |-> 0]
           g == Placed(heap, item)
           n == Len(heap) + 1
<1>1. /\ heap \in Seq(Item) /\ Len(heap) \in Nat /\ DOMAIN heap = 1..Len(heap)
  BY LenProperties DEF QueueInv, Sound
<1>2. item \in Item /\ EntryOf(item) = [task |-> t, stamp |-> now]
      /\ item.task = t
  BY DEF Item, EntryOf
<1>3. /\ heap' = Up[n][g]
      /\ \A k \in 1..Len(heap) : heap[k].task # t
  BY <1>1 DEF Push
<1> HIDE DEF item
<1>4. /\ Sound(g) /\ Len(g) = n /\ RisesAt(g, n)
      /\ EntriesOf(g) = EntriesOf(heap) \union {EntryOf(item)}
  BY <1>2, <1>3, PlacedRises DEF QueueInv
<1>5. n \in 1..Len(g)
  BY <1>1, <1>4
<1> HIDE DEF g, n
<1>6. /\ Sound(heap') /\ Len(heap') = Len(g) /\ Ordered(heap', Len(g))
      /\ EntriesOf(heap') = EntriesOf(g)
  BY <1>3, <1>4, <1>5, UpOrders
<1>7. \A w \in EntriesOf(heap) : w.task # t
  BY <1>1, <1>3 DEF EntriesOf, EntryOf
<1>8. EntriesOf(heap)' = EntriesOf(heap')
  BY DEF EntriesOf
<1>9. QueueInv'
  BY <1>6 DEF QueueInv, Sound, Ordered, Less
<1> QED
  BY <1>2, <1>4, <1>6, <1>7, <1>8, <1>9

\* What Pop has when down is done: the items but the first are a heap, which
\* the first follows.
LEMMA SunkHeap ==
    ASSUME QueueInv, NEW n, n = Len(heap), n # 0,
           NEW s, s = Down[n - 1][1][Swap(heap, 1, n)]
    PROVE  /\ Sound(s) /\ Len(s) = n /\ Ordered(s, n - 1)
           /\ EntriesOf(s) = EntriesOf(heap)
           /\ EntryOf(s[n]) = EntryOf(heap[1])
<1> DEFINE g == Swap(heap, 1, n)
<1>1. /\ heap \in Seq(Item) /\ n \in Nat /\ n >= 1
      /\ 1 \in 1..n /\ n \in 1..n /\ n - 1 \in Nat /\ n - 1 < n
  BY LenProperties DEF QueueInv, Sound
<1>2. Sound(heap) /\ Ordered(heap, n)
  BY DEF QueueInv
<1>3. /\ Sound(g) /\ Len(g) = n /\ EntriesOf(g) = EntriesOf(heap)
      /\ EntryOf(g[n]) = EntryOf(heap[1])
      /\ \A k \in 1..n : k # 1 /\ k # n => g[k] = heap[k]
  BY <1>1, <1>2, SwapExchanges
<1> HIDE DEF g
<1>4. SinksAt(g, 1, n - 1)
  <2>1. ASSUME NEW k \in 2..(n - 1), k \div 2 # 1
        PROVE  ~Less(g, k, k \div 2)
    <3> DEFINE p == k \div 2
    <3>1. k \in 2..n /\ k \in 1..n /\ k # 1 /\ k # n
      BY <1>1
    <3>2. p \in 1..n /\ p # 1 /\ p # n
      BY <1>1, <2>1, <3>1, ParentBefore
    <3>3. ~Less(heap, k, p)
      BY <1>2, <3>1 DEF Ordered
    <3> HIDE DEF p
    <3>4. g[k] = heap[k] /\ g[p] = heap[p]
      BY <1>3, <3>1, <3>2
    <3>5. ~Less(g, k, p)
      BY <3>3, <3>4, EntryOfItem
    <3> QED
      BY <3>5 DEF p
  <2>2. ~(1 \div 2 >= 1)
    OBVIOUS
  <2> QED
    BY <2>1, <2>2 DEF SinksAt
<1>5. n - 1 \in 0..Len(g) /\ s = Down[n - 1][1][g]
  BY <1>1, <1>3 DEF g
<1>6. /\ Sound(s) /\ Len(s) = n /\ Ordered(s, n - 1)
      /\ EntriesOf(s) = EntriesOf(g)
      /\ \A k \in 1..n : k > n - 1 => s[k] = g[k]
  BY <1>3, <1>4, <1>5, DownOrders
<1>7. s[n] = g[n]
  BY <1>1, <1>6
<1> QED
  BY <1>3, <1>6, <1>7

\* A heap in order stays one without its last item, and loses that item's
\* entry only.
LEMMA LastLeaves ==
    ASSUME NEW s, Sound(s), NEW n, n = Len(s), n # 0, Ordered(s, n - 1),
           NEW r, r = SubSeq(s, 1, n - 1)
    PROVE  /\ Sound(r) /\ Len(r) = n - 1 /\ Ordered(r, n - 1)
           /\ EntriesOf(r) = EntriesOf(s) \ {EntryOf(s[n])}
<1>1. /\ s \in Seq(Item) /\ n \in Nat /\ n >= 1 /\ DOMAIN s = 1..n
      /\ n - 1 \in Nat /\ n \in 1..n /\ 1..(n - 1) \subseteq 1..n
      /\ \A k \in 1..n : k = n \/ k \in 1..(n - 1)
  BY LenProperties DEF Sound
<1>2. /\ r \in Seq(Item) /\ Len(r) = n - 1 /\ DOMAIN r = 1..(n - 1)
      /\ \A k \in 1..(n - 1) : r[k] = s[k]
  <2>1. r \in Seq(Item)
    BY <1>1, SubSeqProperties
  <2>2. Len(r) = n - 1 /\ \A k \in 1..(n - 1) : r[k] = s[k]
    BY <1>1, SubSeqProperties
  <2> QED
    BY <2>1, <2>2, LenProperties
<1>3. Sound(r)
  <2>1. \A k \in 1..(n - 1) : r[k].index = k
    BY <1>1, <1>2 DEF Sound
  <2>2. ASSUME NEW k \in 1..(n - 1), NEW m \in 1..(n - 1),
               r[k].task = r[m].task
        PROVE  k = m
    <3>1. k \in 1..n /\ m \in 1..n /\ s[k].task = s[m].task
      BY <1>1, <1>2, <2>2
    <3> QED
      BY <3>1 DEF Sound
  <2> QED
    BY <1>2, <2>1, <2>2 DEF Sound
<1>4. Ordered(r, n - 1)
  <2> SUFFICES ASSUME NEW k \in 2..(n - 1) PROVE ~Less(r, k, k \div 2)
    BY DEF Ordered
  <2> DEFINE p == k \div 2
  <2>1. k \in 1..(n - 1) /\ p \in 1..(n - 1)
    BY <1>1, ParentBefore
  <2>2. ~Less(s, k, p)
    BY DEF Ordered
  <2> HIDE DEF p
  <2>3. r[k] = s[k] /\ r[p] = s[p]
    BY <1>2, <2>1
  <2>4. ~Less(r, k, p)
    BY <2>2, <2>3, EntryOfItem
  <2> QED
    BY <2>4 DEF p
<1>5. EntriesOf(r) = EntriesOf(s) \ {EntryOf(s[n])}
  <2>1. EntriesOf(r) = {EntryOf(r[k]) : k \in 1..(n - 1)}
    BY <1>2 DEF EntriesOf
  <2>2. EntriesOf(s) = {EntryOf(s[k]) : k \in 1..n}
    BY <1>1 DEF EntriesOf
  <2>3. \A k \in 1..n : EntryOf(s[k]) = EntryOf(s[n]) => k = n
    <3>1. \A k \in 1..n : EntryOf(s[k]) = EntryOf(s[n])
                            => s[k].task = s[n].task
      BY DEF EntryOf
    <3> QED
      BY <1>1, <3>1 DEF Sound
  <2>4. n \notin 1..(n - 1)
    BY <1>1
  <2> HIDE DEF EntryOf, EntriesOf
  <2>5. ASSUME NEW e \in EntriesOf(r)
        PROVE  e \in EntriesOf(s) /\ e # EntryOf(s[n])
    <3>1. PICK k \in 1..(n - 1) : e = EntryOf(s[k])
      BY <1>2, <2>1
    <3> QED
      BY <1>1, <2>2, <2>3, <2>4, <3>1
  <2>6. ASSUME NEW e \in EntriesOf(s), e # EntryOf(s[n])
        PROVE  e \in EntriesOf(r)
    <3>1. PICK k \in 1..n : e = EntryOf(s[k])
      BY <2>2
    <3>2. k \in 1..(n - 1)
      BY <1>1, <2>6, <3>1
    <3> QED
      BY <1>2, <2>1, <3>1, <3>2
  <2> QED
    BY <2>5, <2>6
<1> QED
  BY <1>2, <1>3, <1>4, <1>5

\* Pop from a queue that is not empty leaves a heap, and takes the entry of
\* its first item away.
LEMMA PopRemoves ==
    ASSUME QueueInv, Len(heap) # 0, Pop
    PROVE  /\ QueueInv'
           /\ EntriesOf(heap)' = EntriesOf(heap) \ {EntryOf(heap[1])}
           /\ yielded' = EntryOf(heap[1]).task
<1> DEFINE n == Len(heap)
           s == Down[n - 1][1][Swap(heap, 1, n)]
<1>1. yielded' = s[n].task /\ heap' = SubSeq(s, 1, n - 1)
  BY DEF Pop
<1>2. /\ Sound(s) /\ Len(s) = n /\ Ordered(s, n - 1)
      /\ EntriesOf(s) = EntriesOf(heap)
      /\ EntryOf(s[n]) = EntryOf(heap[1])
  BY SunkHeap
<1>3. n # 0
  OBVIOUS
<1> HIDE DEF s, n
<1>4. /\ Sound(heap') /\ Len(heap') = n - 1 /\ Ordered(heap', n - 1)
      /\ EntriesOf(heap') = EntriesOf(s) \ {EntryOf(s[n])}
  BY <1>1, <1>2, <1>3, LastLeaves
<1>5. QueueInv'
  BY <1>4 DEF QueueInv, Sound, Ordered, Less
<1>6. s[n].task = EntryOf(s[n]).task
  BY DEF EntryOf
<1>7. EntriesOf(heap)' = EntriesOf(heap')
  BY DEF EntriesOf
<1> QED
  BY <1>1, <1>2, <1>4, <1>5, <1>6, <1>7

-----------------------------------------------------------------------------
(* What the queue promises.                                                 *)

\* The queue is always a heap of items that know their places.
LEMMA QueueInvHolds == QueueSpec => []QueueInv
<1>1. QueueInit => QueueInv
  <2> SUFFICES ASSUME heap = <<>> PROVE QueueInv
    BY DEF QueueInit
  <2>1. heap \in Seq(Item) /\ Len(heap) = 0
    BY EmptySeq
  <2> QED
    BY <2>1 DEF QueueInv, Sound, Ordered
<1>2. QueueInv /\ [QueueNext]_queueVars => QueueInv'
  <2> SUFFICES ASSUME QueueInv, [QueueNext]_queueVars PROVE QueueInv'
    OBVIOUS
  <2>1. CASE \E t \in Jobs, now \in Stamps : Push(t, now)
    BY <2>1, PushInserts
  <2>2. CASE Pop
    <3>1. CASE Len(heap) = 0
      BY <2>2, <3>1 DEF Pop, QueueInv, Sound, Ordered, Less
    <3>2. CASE Len(heap) # 0
      BY <2>2, <3>2, PopRemoves
    <3> QED
      BY <3>1, <3>2
  <2>3. CASE UNCHANGED queueVars
    BY <2>3 DEF queueVars, QueueInv, Sound, Ordered, Less
  <2> QED
    BY <2>1, <2>2, <2>3 DEF QueueNext
<1> QED
  BY <1>1, <1>2, PTL DEF QueueSpec

\* Every item knows its place and none comes before its parent, after every
\* sequence of pushes and pops (Push, Pop and the heap's Swap).
THEOREM HeapWellFormedHolds == QueueSpec => []HeapWellFormed
<1>1. QueueInv => HeapWellFormed
  <2> SUFFICES ASSUME QueueInv, NEW k \in DOMAIN heap
               PROVE  /\ heap[k].index = k
                      /\ k > 1 => ~Less(heap, k, k \div 2)
    BY DEF HeapWellFormed
  <2>1. k \in 1..Len(heap) /\ Len(heap) \in Nat
    BY LenProperties DEF QueueInv, Sound
  <2>2. k > 1 => k \in 2..Len(heap)
    BY <2>1
  <2> QED
    BY <2>1, <2>2 DEF QueueInv, Sound, Ordered
<1> QED
  BY <1>1, QueueInvHolds, PTL

\* Every push inserts a task and every pop removes one that none comes before,
\* or finds the queue empty: the heap does what PriorityOrder promises.
THEOREM PriorityOrderImplemented == QueueSpec => ImplementsPriorityOrder
<1>1. QueueInit => Order!Init
  BY DEF QueueInit, Order!Init
<1>2. QueueInv /\ [QueueNext]_queueVars
        => [Order!Next]_<<{[task |-> heap[k].task, stamp |-> heap[k].stamp] :
                             k \in DOMAIN heap}, yielded>>
  <2> DEFINE waiting ==
        {[task |-> heap[k].task, stamp |-> heap[k].stamp] : k \in DOMAIN heap}
  <2> SUFFICES ASSUME QueueInv, [QueueNext]_queueVars
               PROVE  \/ Order!Next
                      \/ waiting' = waiting /\ yielded' = yielded
    OBVIOUS
  <2>1. waiting = EntriesOf(heap) /\ waiting' = EntriesOf(heap)'
    BY DEF EntriesOf, EntryOf
  <2>2. ASSUME NEW t \in Jobs, NEW now \in Stamps, Push(t, now)
        PROVE  Order!Insert
    <3> DEFINE e == [task |-> t, stamp |-> now]
    <3>1. e \in Order!Entry /\ e.task = t
      BY DEF Order!Entry
    <3>2. /\ waiting' = waiting \union {e}
          /\ \A w \in waiting : w.task # t
      BY <2>1, <2>2, PushInserts
    <3>3. yielded' = yielded
      BY <2>2 DEF Push
    <3> HIDE DEF e
    <3> QED
      BY <3>1, <3>2, <3>3 DEF Order!Insert
  <2>3. CASE Pop /\ Len(heap) = 0
    <3>1. heap = <<>>
      BY <2>3, EmptySeq DEF QueueInv, Sound
    <3>2. Order!Empty
      BY <2>3, <3>1 DEF Pop, Order!Empty
    <3> QED
      BY <3>2 DEF Order!Next
  <2>4. CASE Pop /\ Len(heap) # 0
    <3> DEFINE e == EntryOf(heap[1])
    <3>1. waiting' = waiting \ {e} /\ yielded' = e.task
      BY <2>1, <2>4, PopRemoves
    <3>2. /\ heap \in Seq(Item) /\ Len(heap) \in Nat /\ 1 \in 1..Len(heap)
          /\ DOMAIN heap = 1..Len(heap)
      BY <2>4, LenProperties DEF QueueInv, Sound
    <3>3. e \in waiting
      BY <2>1, <3>2 DEF EntriesOf
    <3>4. \A k \in 1..Len(heap) : ~Less(heap, k, 1)
      BY RootFirst DEF QueueInv
    <3>5. \A k \in 1..Len(heap) : ~Order!Before(EntryOf(heap[k]), e)
      BY <3>4, EntryOfItem
    <3>6. \A w \in waiting : ~Order!Before(w, e)
      BY <2>1, <3>2, <3>5 DEF EntriesOf
    <3> HIDE DEF e
    <3>7. Order!Remove
      BY <3>1, <3>3, <3>6 DEF Order!Remove
    <3> QED
      BY <3>7 DEF Order!Next
  <2>5. CASE UNCHANGED queueVars
    BY <2>5 DEF queueVars
  <2> QED
    BY <2>2, <2>3, <2>4, <2>5 DEF QueueNext, Order!Next
<1> QED
  BY <1>1, <1>2, QueueInvHolds, PTL
     DEF QueueSpec, ImplementsPriorityOrder, Order!Spec
=============================================================================
