------------------------- MODULE EvictionPoolProofs -------------------------
(***************************************************************************)
(* Proofs about EvictionPool, for every set of keys, every size of the     *)
(* pool and of the samples, and every clock.                               *)
(*                                                                         *)
(* That the pool is sorted is inductive, given the types of its slots.     *)
(* What it keeps is proved by counting: an offer moves the slots it keeps  *)
(* one to one, so that as many idle times of at least n are left as there  *)
(* were, and the new one is added to them.                                 *)
(***************************************************************************)
EXTENDS EvictionPool, NumberLemmas, FiniteSetTheorems, TLAPS

-----------------------------------------------------------------------------
(***************************************************************************)
(* Idle times.                                                             *)
(***************************************************************************)
LEMMA IdleTimeType ==
  ASSUME NEW now \in 0..ClockMax, NEW at \in 0..ClockMax
  PROVE  IdleTime(now, at) \in 0..ClockMax
BY ClockAssumption DEF IdleTime

\* The clock's arithmetic.
LEMMA OneTurn ==
  ASSUME NEW n \in Nat, NEW r \in 0..n
  PROVE  r % (n + 1) = r /\ (r + (n + 1)) % (n + 1) = r
OBVIOUS

LEMMA IdleTimeBound ==
  ASSUME NEW now \in 0..ClockMax, NEW ago \in 0..ClockMax
  PROVE  IdleTime(now, (now + (ClockMax + 1) - ago) % (ClockMax + 1)) \in {ago, ago - 1}
<1> DEFINE at == (now + (ClockMax + 1) - ago) % (ClockMax + 1)
<1>0. ClockMax \in Nat
  BY ClockAssumption
<1>1. CASE now >= ago
  <2>1. now - ago \in 0..ClockMax /\ now + (ClockMax + 1) - ago = (now - ago) + (ClockMax + 1)
    BY <1>0, <1>1
  <2>2. at = now - ago
    BY <1>0, <2>1, OneTurn
  <2> QED BY <1>0, <1>1, <2>2 DEF IdleTime
<1>2. CASE now < ago
  <2>1. now + (ClockMax + 1) - ago \in 0..ClockMax
    BY <1>0, <1>2
  <2>2. at = now + (ClockMax + 1) - ago
    BY <1>0, <2>1, OneTurn
  <2> QED BY <1>0, <1>2, <2>2 DEF IdleTime
<1> QED BY <1>0, <1>1, <1>2

-----------------------------------------------------------------------------
(***************************************************************************)
(* The pool.                                                               *)
(***************************************************************************)
Slots == {Empty} \cup {Entry(k, i) : k \in Keys, i \in Nat}

Sorted(p) ==
  \A i, j \in 1..PoolSize :
    i < j /\ p[j].used => p[i].used /\ p[i].idle <= p[j].idle

GoodPool(p) == p \in [1..PoolSize -> Slots] /\ Sorted(p)

LEMMA SlotFacts ==
  /\ Empty \in Slots /\ ~Empty.used
  /\ \A k \in Keys, i \in Nat :
       Entry(k, i) \in Slots /\ Entry(k, i).used /\ Entry(k, i).idle = i /\ Entry(k, i).key = k
  /\ \A s \in Slots : s.used \in BOOLEAN /\ (s.used => s.idle \in Nat /\ s.key \in Keys)
<1>1. Empty \in Slots /\ ~Empty.used
  BY DEF Slots, Empty
<1>2. \A k, i : Entry(k, i).used /\ Entry(k, i).idle = i /\ Entry(k, i).key = k
  BY DEF Entry
<1>3. \A k \in Keys, i \in Nat : Entry(k, i) \in Slots
  BY DEF Slots
<1>4. ASSUME NEW s \in Slots PROVE s.used \in BOOLEAN /\ (s.used => s.idle \in Nat /\ s.key \in Keys)
  <2>1. CASE s = Empty
    BY <2>1 DEF Empty
  <2>2. CASE s # Empty
    <3>1. PICK k \in Keys, i \in Nat : s = Entry(k, i)
      BY <2>2 DEF Slots
    <3>2. s = [used |-> TRUE, key |-> k, idle |-> i]
      BY <3>1 DEF Entry
    <3> QED BY <3>2
  <2> QED BY <2>1, <2>2
<1> QED BY <1>1, <1>2, <1>3, <1>4

\* The search ends at the first slot that is free or not of smaller idle time.
LEMMA PassedFacts ==
  ASSUME NEW p \in [1..PoolSize -> Slots], NEW idle \in Nat, NEW n, n = Passed(p, idle)
  PROVE  /\ n \in 0..PoolSize
         /\ \A i \in 1..n : p[i].used /\ p[i].idle < idle
         /\ n < PoolSize => ~p[n + 1].used \/ p[n + 1].idle >= idle
<1> DEFINE Stops == {i \in 0..PoolSize :
                      i < PoolSize => ~p[i + 1].used \/ p[i + 1].idle >= idle}
<1>0. PoolSize \in Nat \ {0}
  BY PoolAssumption
<1>1. Stops \subseteq Nat /\ PoolSize \in Stops
  BY <1>0
<1>2. PICK m \in Stops : \A i \in Stops : m <= i
  <2> HIDE DEF Stops
  <2> QED BY <1>1, LeastNumber
<1>3. ASSUME NEW i \in 1..m PROVE p[i].used /\ p[i].idle < idle
  <2>1. i - 1 \in 0..PoolSize /\ i - 1 < PoolSize /\ i - 1 \notin Stops /\ i \in 1..PoolSize
    BY <1>0, <1>2
  <2>2. ~(~p[(i - 1) + 1].used \/ p[(i - 1) + 1].idle >= idle) /\ (i - 1) + 1 = i
    BY <2>1
  <2>3. p[i] \in Slots
    BY <2>1
  <2> QED BY <2>2, <2>3, SlotFacts
<1>4. \E x \in 0..PoolSize :
        /\ \A i \in 1..x : p[i].used /\ p[i].idle < idle
        /\ x < PoolSize => ~p[x + 1].used \/ p[x + 1].idle >= idle
  BY <1>2, <1>3
<1> QED BY <1>4 DEF Passed

\* The four outcomes of an offer.
LEMMA OfferedCases ==
  ASSUME NEW p, GoodPool(p), NEW k \in Keys, NEW idle \in Nat, NEW q, q = Offered(p, k, idle),
         NEW n, n = Passed(p, idle)
  PROVE  \/ /\ n = 0 /\ Full(p) /\ q = p
         \/ /\ n < PoolSize /\ ~p[n + 1].used
            /\ q = [p EXCEPT ![n + 1] = Entry(k, idle)]
         \/ /\ n < PoolSize /\ ~Full(p)
            /\ q = [i \in 1..PoolSize |-> IF i <= n THEN p[i]
                                          ELSE IF i = n + 1 THEN Entry(k, idle) ELSE p[i - 1]]
         \/ /\ n > 0 /\ Full(p)
            /\ q = [i \in 1..PoolSize |-> IF i < n THEN p[i + 1]
                                          ELSE IF i = n THEN Entry(k, idle) ELSE p[i]]
<1>0. PoolSize \in Nat \ {0}
  BY PoolAssumption
<1>1. n \in 0..PoolSize /\ \A i \in 1..n : p[i].used /\ p[i].idle < idle
  BY PassedFacts DEF GoodPool
<1>2. ~Full(p) => n < PoolSize
  BY <1>0, <1>1 DEF Full
<1> QED BY <1>0, <1>1, <1>2 DEF Offered

\* An offer keeps the pool sorted.
LEMMA OfferedGood ==
  ASSUME NEW p, GoodPool(p), NEW k \in Keys, NEW idle \in Nat, NEW q, q = Offered(p, k, idle)
  PROVE  GoodPool(q)
<1> DEFINE n == Passed(p, idle)
           e == Entry(k, idle)
<1>0. PoolSize \in Nat \ {0}
  BY PoolAssumption
<1>1. /\ n \in 0..PoolSize
      /\ \A i \in 1..n : p[i].used /\ p[i].idle < idle
      /\ n < PoolSize => ~p[n + 1].used \/ p[n + 1].idle >= idle
  BY PassedFacts DEF GoodPool
<1>2. /\ p \in [1..PoolSize -> Slots]
      /\ \A i, j \in 1..PoolSize :
           i < j /\ p[j].used => p[i].used /\ p[i].idle <= p[j].idle
  BY DEF GoodPool, Sorted
<1>3. e \in Slots /\ e.used /\ e.idle = idle
  BY SlotFacts
<1>4. \A i \in 1..PoolSize : p[i].used => p[i].idle \in Nat
  BY <1>2, SlotFacts
<1>5. \/ /\ n = 0 /\ Full(p) /\ q = p
      \/ /\ n < PoolSize /\ ~p[n + 1].used
         /\ q = [p EXCEPT ![n + 1] = e]
      \/ /\ n < PoolSize /\ ~Full(p)
         /\ q = [i \in 1..PoolSize |-> IF i <= n THEN p[i]
                                       ELSE IF i = n + 1 THEN e ELSE p[i - 1]]
      \/ /\ n > 0 /\ Full(p)
         /\ q = [i \in 1..PoolSize |-> IF i < n THEN p[i + 1]
                                       ELSE IF i = n THEN e ELSE p[i]]
  BY OfferedCases
<1> HIDE DEF n, e
<1>6. CASE n = 0 /\ Full(p) /\ q = p
  BY <1>6
<1>7. CASE n < PoolSize /\ ~p[n + 1].used /\ q = [p EXCEPT ![n + 1] = e]
  <2>1. q \in [1..PoolSize -> Slots]
    BY <1>2, <1>3, <1>7
  <2>2. \A i \in 1..PoolSize : q[i] = IF i = n + 1 THEN e ELSE p[i]
    BY <1>2, <1>7
  <2>3. \A i \in 1..PoolSize : p[i].used => i <= n
    BY <1>0, <1>1, <1>2, <1>7
  <2>4. Sorted(q)
    BY <1>0, <1>1, <1>2, <1>3, <1>4, <2>2, <2>3 DEF Sorted
  <2> QED BY <2>1, <2>4 DEF GoodPool
<1>8. CASE /\ n < PoolSize /\ ~Full(p)
           /\ q = [i \in 1..PoolSize |-> IF i <= n THEN p[i]
                                         ELSE IF i = n + 1 THEN e ELSE p[i - 1]]
  <2>1. q \in [1..PoolSize -> Slots]
    BY <1>0, <1>1, <1>2, <1>3, <1>8
  <2>2. \A i \in 1..PoolSize : q[i] = IF i <= n THEN p[i] ELSE IF i = n + 1 THEN e ELSE p[i - 1]
    BY <1>8
  <2>3. \A i \in 1..PoolSize : i > n /\ p[i].used => p[i].idle >= idle
    BY <1>0, <1>1, <1>2, <1>4, <1>8
  <2>4. Sorted(q)
    <3> SUFFICES ASSUME NEW i \in 1..PoolSize, NEW j \in 1..PoolSize, i < j, q[j].used
                 PROVE  q[i].used /\ q[i].idle <= q[j].idle
      BY DEF Sorted
    <3>1. CASE j <= n
      BY <3>1, <1>0, <1>1, <1>2, <2>2
    <3>2. CASE j = n + 1
      BY <3>2, <1>0, <1>1, <1>3, <1>4, <2>2
    <3>3. CASE j > n + 1
      <4>1. q[j] = p[j - 1] /\ j - 1 \in 1..PoolSize /\ j - 1 > n
        BY <3>3, <1>0, <1>1, <2>2
      <4>2. p[j - 1].idle >= idle /\ p[j - 1].idle \in Nat /\ p[j - 1].used
        BY <4>1, <2>3, <1>4
      <4>3. CASE i <= n
        <5>1. q[i] = p[i] /\ p[i].used /\ p[i].idle < idle /\ p[i].idle \in Nat
          BY <4>3, <1>0, <1>1, <1>4, <2>2
        <5> QED BY <5>1, <4>1, <4>2
      <4>4. CASE i = n + 1
        <5>1. q[i] = e
          BY <4>4, <1>1, <2>2
        <5> QED BY <5>1, <4>1, <4>2, <1>3
      <4>5. CASE i > n + 1
        <5>1. q[i] = p[i - 1] /\ i - 1 \in 1..PoolSize /\ i - 1 < j - 1
          BY <4>5, <1>0, <1>1, <2>2
        <5> QED BY <5>1, <4>1, <4>2, <1>2
      <4> QED BY <1>1, <4>3, <4>4, <4>5
    <3> QED BY <1>1, <3>1, <3>2, <3>3
  <2> QED BY <2>1, <2>4 DEF GoodPool
<1>9. CASE /\ n > 0 /\ Full(p)
           /\ q = [i \in 1..PoolSize |-> IF i < n THEN p[i + 1]
                                         ELSE IF i = n THEN e ELSE p[i]]
  <2>1. q \in [1..PoolSize -> Slots]
    BY <1>0, <1>1, <1>2, <1>3, <1>9
  <2>2. \A i \in 1..PoolSize : q[i] = IF i < n THEN p[i + 1] ELSE IF i = n THEN e ELSE p[i]
    BY <1>9
  <2>3. \A i \in 1..PoolSize : p[i].used /\ p[i].idle \in Nat
    BY <1>0, <1>2, <1>4, <1>9 DEF Full
  <2>4. \A i \in 1..PoolSize : i > n => p[i].idle >= idle
    BY <1>0, <1>1, <1>2, <2>3
  <2>5. Sorted(q)
    <3> SUFFICES ASSUME NEW i \in 1..PoolSize, NEW j \in 1..PoolSize, i < j
                 PROVE  q[i].used /\ q[i].idle <= q[j].idle
      BY DEF Sorted
    <3>1. CASE i < n
      <4>1. q[i] = p[i + 1] /\ i + 1 \in 1..n /\ i + 1 \in 1..PoolSize
        BY <3>1, <1>0, <1>1, <2>2
      <4>2. p[i + 1].idle < idle /\ p[i + 1].used /\ p[i + 1].idle \in Nat
        BY <4>1, <1>1, <2>3
      <4>3. CASE j < n
        <5>1. q[j] = p[j + 1] /\ j + 1 \in 1..PoolSize /\ i + 1 < j + 1
          BY <4>3, <1>0, <1>1, <2>2
        <5> QED BY <5>1, <4>1, <4>2, <1>2, <2>3
      <4>4. CASE j = n
        BY <4>1, <4>2, <4>4, <1>3, <2>2
      <4>5. CASE j > n
        <5>1. q[j] = p[j] /\ p[j].idle >= idle /\ p[j].idle \in Nat
          BY <4>5, <1>1, <2>2, <2>3, <2>4
        <5> QED BY <5>1, <4>1, <4>2
      <4> QED BY <1>1, <4>3, <4>4, <4>5
    <3>2. CASE i = n
      BY <3>2, <1>1, <1>3, <2>2, <2>3, <2>4
    <3>3. CASE i > n
      BY <3>3, <1>1, <1>2, <2>2, <2>3
    <3> QED BY <1>1, <3>1, <3>2, <3>3
  <2> QED BY <2>1, <2>5 DEF GoodPool
<1> QED BY <1>5, <1>6, <1>7, <1>8, <1>9

-----------------------------------------------------------------------------
(***************************************************************************)
(* Counting.                                                               *)
(***************************************************************************)
\* The slots that AtLeast counts.
Old(p, n) == {i \in 1..PoolSize : p[i].used /\ p[i].idle >= n}

\* There are PoolSize slots.
LEMMA CountSlots ==
  ASSUME NEW A \in SUBSET (1..PoolSize)
  PROVE  IsFiniteSet(A) /\ Cardinality(A) \in Nat /\ Cardinality(A) <= PoolSize
<1>0. PoolSize \in Nat \ {0}
  BY PoolAssumption
<1>1. IsFiniteSet(1..PoolSize) /\ Cardinality(1..PoolSize) = PoolSize
  BY <1>0, FS_Interval
<1>2. IsFiniteSet(A) /\ Cardinality(A) <= PoolSize
  <2> DEFINE I == 1..PoolSize
  <2> HIDE DEF I
  <2>1. IsFiniteSet(I) /\ Cardinality(I) = PoolSize /\ A \in SUBSET I
    BY <1>1 DEF I
  <2> QED BY <2>1, FS_Subset
<1> QED BY <1>2, FS_CardinalityType

\* C is what A was moved to, one to one.
LEMMA CountMoved ==
  ASSUME NEW A \in SUBSET (1..PoolSize), NEW C, NEW f \in [A -> C],
         \A i, j \in A : f[i] = f[j] => i = j, \A c \in C : \E i \in A : f[i] = c
  PROVE  /\ IsFiniteSet(C) /\ Cardinality(A) \in Nat /\ Cardinality(C) = Cardinality(A)
<1>1. IsFiniteSet(A) /\ Cardinality(A) \in Nat
  BY CountSlots
<1>2. f \in Bijection(A, C)
  <2>1. f \in Injection(A, C)
    BY DEF Injection, IsInjective
  <2>2. f \in Surjection(A, C)
    BY DEF Surjection
  <2> QED BY <2>1, <2>2 DEF Bijection
<1>3. IsFiniteSet(C) /\ Cardinality(C) = Cardinality(A)
  <2>1. ExistsBijection(A, C)
    BY <1>2 DEF ExistsBijection
  <2> QED BY <2>1, <1>1, FS_Bijection
<1> QED BY <1>1, <1>3

\* What an offer leaves.
LEMMA OfferedKeeps ==
  ASSUME NEW p, GoodPool(p), NEW k \in Keys, NEW idle \in Nat, NEW q, q = Offered(p, k, idle),
         NEW m \in Nat, NEW all, all = AtLeast(p, m) + (IF idle >= m THEN 1 ELSE 0)
  PROVE  AtLeast(q, m) = IF all < PoolSize THEN all ELSE PoolSize
<1> DEFINE n == Passed(p, idle)
           e == Entry(k, idle)
           A == Old(p, m)
           B == Old(q, m)
<1>0. PoolSize \in Nat \ {0}
  BY PoolAssumption
<1>1. /\ n \in 0..PoolSize
      /\ \A i \in 1..n : p[i].used /\ p[i].idle < idle
      /\ n < PoolSize => ~p[n + 1].used \/ p[n + 1].idle >= idle
  BY PassedFacts DEF GoodPool
<1>2. /\ p \in [1..PoolSize -> Slots]
      /\ \A i, j \in 1..PoolSize :
           i < j /\ p[j].used => p[i].used /\ p[i].idle <= p[j].idle
  BY DEF GoodPool, Sorted
<1>3. e \in Slots /\ e.used /\ e.idle = idle
  BY SlotFacts
<1>4. \A i \in 1..PoolSize : p[i].used => p[i].idle \in Nat
  BY <1>2, SlotFacts
<1>5. \/ /\ n = 0 /\ Full(p) /\ q = p
      \/ /\ n < PoolSize /\ ~p[n + 1].used
         /\ q = [p EXCEPT ![n + 1] = e]
      \/ /\ n < PoolSize /\ ~Full(p)
         /\ q = [i \in 1..PoolSize |-> IF i <= n THEN p[i]
                                       ELSE IF i = n + 1 THEN e ELSE p[i - 1]]
      \/ /\ n > 0 /\ Full(p)
         /\ q = [i \in 1..PoolSize |-> IF i < n THEN p[i + 1]
                                       ELSE IF i = n THEN e ELSE p[i]]
  BY OfferedCases
<1>6. AtLeast(p, m) = Cardinality(A) /\ AtLeast(q, m) = Cardinality(B)
  BY DEF AtLeast, Old
<1>7. A \in SUBSET (1..PoolSize) /\ B \in SUBSET (1..PoolSize)
  BY DEF Old
<1>8. \A i \in 1..PoolSize : /\ i \in A <=> p[i].used /\ p[i].idle >= m
                             /\ i \in B <=> q[i].used /\ q[i].idle >= m
  BY DEF Old
<1> HIDE DEF n, e, A, B
\* Slots move and none that counts is lost.
<1>9. ASSUME NEW C, NEW x, x \notin C, NEW f \in [A -> C],
             \A i, j \in A : f[i] = f[j] => i = j, \A c \in C : \E i \in A : f[i] = c,
             B = IF idle >= m THEN C \cup {x} ELSE C
      PROVE  AtLeast(q, m) = IF all < PoolSize THEN all ELSE PoolSize
  <2>1. /\ Cardinality(A) \in Nat
        /\ Cardinality(B) = Cardinality(A) + (IF idle >= m THEN 1 ELSE 0)
        /\ Cardinality(B) <= PoolSize
    <3>1. /\ IsFiniteSet(C) /\ Cardinality(A) \in Nat /\ Cardinality(C) = Cardinality(A)
      BY <1>7, <1>9, CountMoved
    <3>2. Cardinality(C \cup {x}) = Cardinality(C) + 1
      BY <3>1, <1>9, FS_AddElement
    <3>3. Cardinality(B) = Cardinality(A) + (IF idle >= m THEN 1 ELSE 0)
      BY <3>1, <3>2, <1>9
    <3>4. Cardinality(B) <= PoolSize
      BY <1>7, CountSlots
    <3> QED BY <3>1, <3>3, <3>4
  <2> QED BY <2>1, <1>0, <1>6
\* All slots count, before and after.
<1>10. ASSUME A = 1..PoolSize, B = 1..PoolSize
       PROVE  AtLeast(q, m) = IF all < PoolSize THEN all ELSE PoolSize
  <2>1. Cardinality(1..PoolSize) = PoolSize
    BY <1>0, FS_Interval
  <2> QED BY <2>1, <1>0, <1>6, <1>10
<1>11. CASE n = 0 /\ Full(p) /\ q = p
  <2>1. \A i \in 1..PoolSize : p[i].used /\ p[i].idle >= idle /\ p[i].idle \in Nat
    BY <1>0, <1>1, <1>2, <1>4, <1>11 DEF Full
  <2>2. CASE idle >= m
    <3>1. A = 1..PoolSize /\ B = A
      BY <2>1, <2>2, <1>7, <1>8, <1>11
    <3> QED BY <3>1, <1>10
  <2>3. CASE ~(idle >= m)
    <3>1. B = A
      BY <1>7, <1>8, <1>11
    <3> DEFINE f == [i \in A |-> i]
    <3>2. f \in [A -> A] /\ \A i \in A : f[i] = i
      OBVIOUS
    <3>3. PoolSize + 1 \notin A
      BY <1>0, <1>7
    <3> HIDE DEF f
    <3> QED BY <3>1, <3>2, <3>3, <2>3, <1>9
  <2> QED BY <2>2, <2>3
<1>12. CASE n < PoolSize /\ ~p[n + 1].used /\ q = [p EXCEPT ![n + 1] = e]
  <2>1. n + 1 \in 1..PoolSize /\ \A i \in 1..PoolSize : q[i] = IF i = n + 1 THEN e ELSE p[i]
    BY <1>0, <1>1, <1>2, <1>12
  <2>2. n + 1 \notin A
    BY <2>1, <1>8, <1>12
  <2>3. B = IF idle >= m THEN A \cup {n + 1} ELSE A
    BY <2>1, <2>2, <1>3, <1>7, <1>8
  <2> DEFINE f == [i \in A |-> i]
  <2>4. f \in [A -> A] /\ \A i \in A : f[i] = i
    OBVIOUS
  <2> HIDE DEF f
  <2> QED BY <2>2, <2>3, <2>4, <1>9
<1>13. CASE /\ n < PoolSize /\ ~Full(p)
            /\ q = [i \in 1..PoolSize |-> IF i <= n THEN p[i]
                                          ELSE IF i = n + 1 THEN e ELSE p[i - 1]]
  <2> DEFINE f == [i \in A |-> IF i <= n THEN i ELSE i + 1]
             C == {f[i] : i \in A}
  <2>1. \A i \in A : i \in 1..PoolSize /\ i # PoolSize
    BY <1>0, <1>7, <1>8, <1>13 DEF Full
  <2>2. f \in [A -> C] /\ \A c \in C : \E i \in A : f[i] = c
    OBVIOUS
  <2>3. \A i \in A : f[i] = IF i <= n THEN i ELSE i + 1
    OBVIOUS
  <2>4. \A c : c \in C <=> \E i \in A : c = f[i]
    OBVIOUS
  <2> HIDE DEF f, C
  <2>5. \A i, j \in A : f[i] = f[j] => i = j
    BY <2>1, <2>3, <1>1
  <2>6. n + 1 \notin C
    BY <2>1, <2>3, <2>4, <1>1
  <2>7. \A i \in 1..PoolSize : q[i] = IF i <= n THEN p[i] ELSE IF i = n + 1 THEN e ELSE p[i - 1]
    BY <1>13
  <2>8. C \subseteq 1..PoolSize
    BY <2>1, <2>3, <2>4, <1>0, <1>1
  <2>9. ASSUME NEW c \in 1..PoolSize, c # n + 1 PROVE c \in B <=> c \in C
    <3>1. CASE c <= n
      <4>1. c \in B <=> c \in A
        BY <3>1, <2>7, <1>8
      <4>2. c \in A => f[c] = c
        BY <3>1, <2>3
      <4>3. \A i \in A : f[i] = c => i = c
        BY <3>1, <2>1, <2>3, <1>1
      <4> QED BY <4>1, <4>2, <4>3, <2>4
    <3>2. CASE c > n + 1
      <4>1. c - 1 \in 1..PoolSize /\ q[c] = p[c - 1]
        BY <3>2, <2>7, <1>0, <1>1
      <4>2. c \in B <=> c - 1 \in A
        BY <4>1, <1>8
      <4>3. c - 1 \in A => f[c - 1] = c
        BY <3>2, <2>3, <1>1
      <4>4. \A i \in A : f[i] = c => i = c - 1
        BY <3>2, <2>1, <2>3, <1>1
      <4> QED BY <4>2, <4>3, <4>4, <2>4
    <3> QED BY <3>1, <3>2, <2>9, <1>1
  <2>10. n + 1 \in 1..PoolSize /\ (n + 1 \in B <=> idle >= m)
    BY <2>7, <1>0, <1>1, <1>3, <1>8, <1>13
  <2>11. B = IF idle >= m THEN C \cup {n + 1} ELSE C
    <3>1. \A c \in B : c \in C \/ c = n + 1
      BY <2>9, <1>7
    <3>2. \A c \in C : c \in B
      BY <2>6, <2>8, <2>9
    <3>3. CASE idle >= m
      BY <3>1, <3>2, <3>3, <2>10
    <3>4. CASE ~(idle >= m)
      BY <3>1, <3>2, <3>4, <2>10
    <3> QED BY <3>3, <3>4
  <2> QED BY <2>2, <2>5, <2>6, <2>11, <1>9
<1>14. CASE /\ n > 0 /\ Full(p)
            /\ q = [i \in 1..PoolSize |-> IF i < n THEN p[i + 1]
                                          ELSE IF i = n THEN e ELSE p[i]]
  <2>0. \A i \in 1..PoolSize : p[i].used /\ p[i].idle \in Nat
    BY <1>0, <1>2, <1>4, <1>14 DEF Full
  <2>7. \A i \in 1..PoolSize : q[i] = IF i < n THEN p[i + 1] ELSE IF i = n THEN e ELSE p[i]
    BY <1>14
  <2>1. CASE 1 \in A
    <3>1. p[1].idle >= m /\ p[1].idle < idle /\ p[1].idle \in Nat
      BY <2>0, <2>1, <1>0, <1>1, <1>8, <1>14
    <3>2. \A i \in 1..PoolSize : p[i].idle >= m
      BY <3>1, <2>0, <1>0, <1>2
    <3>3. \A i \in 1..PoolSize : q[i].used /\ q[i].idle >= m
      <4> TAKE i \in 1..PoolSize
      <4>1. CASE i < n
        <5>1. q[i] = p[i + 1] /\ i + 1 \in 1..PoolSize
          BY <4>1, <2>7, <1>0, <1>1
        <5> QED BY <5>1, <3>2, <2>0
      <4>2. CASE i = n
        BY <4>2, <3>1, <2>7, <1>1, <1>3
      <4>3. CASE i > n
        BY <4>3, <3>2, <2>0, <2>7, <1>1
      <4> QED BY <4>1, <4>2, <4>3, <1>1
    <3>4. A = 1..PoolSize /\ B = 1..PoolSize
      BY <3>2, <3>3, <2>0, <1>7, <1>8
    <3> QED BY <3>4, <1>10
  <2>2. CASE 1 \notin A
    <3> DEFINE f == [i \in A |-> IF i <= n THEN i - 1 ELSE i]
               C == {f[i] : i \in A}
    <3>1. \A i \in A : i \in 1..PoolSize /\ i # 1
      BY <2>2, <1>7
    <3>2. f \in [A -> C] /\ \A c \in C : \E i \in A : f[i] = c
      OBVIOUS
    <3>3. \A i \in A : f[i] = IF i <= n THEN i - 1 ELSE i
      OBVIOUS
    <3>4. \A c : c \in C <=> \E i \in A : c = f[i]
      OBVIOUS
    <3> HIDE DEF f, C
    <3>5. \A i, j \in A : f[i] = f[j] => i = j
      BY <3>1, <3>3, <1>1
    <3>6. n \notin C
      BY <3>1, <3>3, <3>4, <1>1
    <3>8. C \subseteq 1..PoolSize
      BY <3>1, <3>3, <3>4, <1>0, <1>1
    <3>9. ASSUME NEW c \in 1..PoolSize, c # n PROVE c \in B <=> c \in C
      <4>1. CASE c > n
        <5>1. c \in B <=> c \in A
          BY <4>1, <2>7, <1>1, <1>8
        <5>2. c \in A => f[c] = c
          BY <4>1, <3>3, <1>1
        <5>3. \A i \in A : f[i] = c => i = c
          BY <4>1, <3>1, <3>3, <1>1
        <5> QED BY <5>1, <5>2, <5>3, <3>4
      <4>2. CASE c < n
        <5>1. c + 1 \in 1..PoolSize /\ q[c] = p[c + 1]
          BY <4>2, <2>7, <1>0, <1>1
        <5>2. c \in B <=> c + 1 \in A
          BY <5>1, <1>8
        <5>3. c + 1 \in A => f[c + 1] = c
          BY <4>2, <3>3, <1>1
        <5>4. \A i \in A : f[i] = c => i = c + 1
          BY <4>2, <3>1, <3>3, <1>1
        <5> QED BY <5>2, <5>3, <5>4, <3>4
      <4> QED BY <4>1, <4>2, <3>9, <1>1
    <3>10. n \in 1..PoolSize /\ (n \in B <=> idle >= m)
      BY <2>7, <1>0, <1>1, <1>3, <1>8, <1>14
    <3>11. B = IF idle >= m THEN C \cup {n} ELSE C
      <4>1. \A c \in B : c \in C \/ c = n
        BY <3>9, <1>7
      <4>2. \A c \in C : c \in B
        BY <3>6, <3>8, <3>9
      <4>3. CASE idle >= m
        BY <4>1, <4>2, <4>3, <3>10
      <4>4. CASE ~(idle >= m)
        BY <4>1, <4>2, <4>4, <3>10
      <4> QED BY <4>3, <4>4
    <3> QED BY <3>2, <3>5, <3>6, <3>11, <1>9
  <2> QED BY <2>1, <2>2
<1> QED BY <1>5, <1>11, <1>12, <1>13, <1>14

-----------------------------------------------------------------------------
(***************************************************************************)
(* The theorems.                                                           *)
(***************************************************************************)
Inv ==
  /\ GoodPool(ep) /\ todo \in Seq(Keys)
  /\ lru \in [Keys -> 0..ClockMax] /\ clock \in 0..ClockMax

\* An offer, from a state that satisfies the invariant.
LEMMA OfferIsSound ==
  ASSUME Inv, Offer
  PROVE  /\ Head(todo) \in Keys /\ Tail(todo) \in Seq(Keys)
         /\ IdleTime(clock, lru[Head(todo)]) \in Nat
<1>1. Head(todo) \in Keys /\ Tail(todo) \in Seq(Keys)
  BY DEF Inv, Offer
<1>2. IdleTime(clock, lru[Head(todo)]) \in 0..ClockMax
  BY <1>1, IdleTimeType DEF Inv
<1> QED BY <1>1, <1>2, ClockAssumption

LEMMA InvHolds == Spec => []Inv
<1>1. Init => Inv
  <2> SUFFICES ASSUME Init PROVE GoodPool(NewPool) /\ todo \in Seq(Keys)
    BY DEF Init, Inv
  <2>1. NewPool \in [1..PoolSize -> Slots] /\ \A i \in 1..PoolSize : ~NewPool[i].used
    BY SlotFacts DEF NewPool
  <2> QED BY <2>1 DEF GoodPool, Sorted, Init
<1>2. Inv /\ [Next]_vars => Inv'
  <2> SUFFICES ASSUME Inv, [Next]_vars PROVE Inv'
    OBVIOUS
  <2>0. /\ GoodPool(ep) /\ todo \in Seq(Keys)
        /\ lru \in [Keys -> 0..ClockMax] /\ clock \in 0..ClockMax
    BY DEF Inv
  <2>1. CASE Populate
    <3>1. \A s \in SomeKeys : s \in Seq(Keys)
      BY DEF SomeKeys
    <3> QED BY <2>0, <2>1, <3>1 DEF Populate, Inv, GoodPool, Sorted
  <2>2. CASE Offer
    <3> DEFINE q == Offered(ep, Head(todo), IdleTime(clock, lru[Head(todo)]))
    <3>1. Head(todo) \in Keys /\ IdleTime(clock, lru[Head(todo)]) \in Nat
          /\ Tail(todo) \in Seq(Keys)
      BY <2>2, OfferIsSound
    <3>2. ep' = q /\ todo' = Tail(todo) /\ lru' = lru /\ clock' = clock
      BY <2>2 DEF Offer
    <3>3. q = Offered(ep, Head(todo), IdleTime(clock, lru[Head(todo)]))
      OBVIOUS
    <3> HIDE DEF q
    <3>4. GoodPool(q)
      BY <2>0, <3>1, <3>3, OfferedGood
    <3> QED BY <2>0, <3>1, <3>2, <3>4 DEF Inv, GoodPool, Sorted
  <2>3. ASSUME NEW k \in Keys, Touch(k) PROVE Inv'
    BY <2>0, <2>3 DEF Touch, Inv, GoodPool, Sorted
  <2>4. CASE UNCHANGED vars
    BY <2>0, <2>4 DEF vars, Inv, GoodPool, Sorted
  <2> QED BY <2>1, <2>2, <2>3, <2>4 DEF Next
<1> QED BY <1>1, <1>2, PTL DEF Spec

\* Through every mixture of insertions with and without room the used slots are
\* the first ones, in ascending order of idle time (lru.go:91).
THEOREM PoolIsSortedHolds == Spec => []PoolIsSorted
<1>1. Inv => PoolIsSorted
  BY DEF Inv, GoodPool, Sorted, PoolIsSorted
<1> QED BY <1>1, InvHolds, PTL

\* For every clock, the estimate of an object's idle time is never too long, and
\* too short by one tick at most, across the wrap (lru.go:59).
THEOREM IdleIsALowerBoundHolds == Spec => []IdleIsALowerBound
<1>1. Inv => IdleIsALowerBound
  BY IdleTimeBound DEF Inv, IdleIsALowerBound
<1> QED BY <1>1, InvHolds, PTL

\* An offer leaves the PoolSize greatest of the idle times that were there and the
\* new one (lru.go:105, lru.go:116), for every size of the pool.
THEOREM PoolKeepsTheOldestHolds == Spec => PoolKeepsTheOldest
<1>1. ASSUME Inv, Offer, NEW n \in 0..ClockMax
      PROVE  LET all == AtLeast(ep, n)
                          + (IF IdleTime(clock, lru[Head(todo)]) >= n THEN 1 ELSE 0)
             IN AtLeast(ep', n) = IF all < PoolSize THEN all ELSE PoolSize
  <2> DEFINE k    == Head(todo)
             idle == IdleTime(clock, lru[Head(todo)])
             q    == Offered(ep, k, idle)
             all  == AtLeast(ep, n) + (IF idle >= n THEN 1 ELSE 0)
  <2>1. k \in Keys /\ idle \in Nat /\ GoodPool(ep) /\ n \in Nat
    BY <1>1, OfferIsSound, ClockAssumption DEF Inv
  <2>2. ep' = q
    BY <1>1 DEF Offer
  <2>3. q = Offered(ep, k, idle) /\ all = AtLeast(ep, n) + (IF idle >= n THEN 1 ELSE 0)
    OBVIOUS
  <2> HIDE DEF k, idle, q, all
  <2>4. AtLeast(q, n) = IF all < PoolSize THEN all ELSE PoolSize
    BY <2>1, <2>3, OfferedKeeps
  <2> QED BY <2>2, <2>4 DEF all, idle
<1>2. Inv => [Offer => \A n \in 0..ClockMax :
                LET all == AtLeast(ep, n)
                             + (IF IdleTime(clock, lru[Head(todo)]) >= n THEN 1 ELSE 0)
                IN AtLeast(ep', n) = IF all < PoolSize THEN all ELSE PoolSize]_vars
  BY <1>1
<1> QED BY <1>2, InvHolds, PTL DEF PoolKeepsTheOldest
=============================================================================
