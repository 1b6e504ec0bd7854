---------------------------- MODULE EvictionPool ----------------------------
(***************************************************************************)
(* The pool of eviction candidates of db/lru.go.  EvictionPoolPopulate     *)
(* samples keys and offers each of them, with the idle time of its object, *)
(* to an array that is kept in ascending order of idle time.  One action   *)
(* is one pass of its loop.  Between two calls objects are used, which     *)
(* changes their LRU field.                                                *)
(***************************************************************************)
EXTENDS Integers, Sequences, FiniteSets

CONSTANTS Keys,
          PoolSize,  \* EVPOOL_SIZE
          Samples,   \* MEMORY_SAMPLES
          ClockMax   \* LRU_CLOCK_MAX

VARIABLES ep,        \* LRU.ep, a sequence of slots
          todo,      \* the sampled keys still to be offered
          lru,       \* RedisObj.LRU of each key's object
          clock      \* LRU.lruClock, fixed by NewLRU

vars == <<ep, todo, lru, clock>>

ASSUME PoolAssumption  == PoolSize \in Nat \ {0} /\ Samples \in Nat
ASSUME ClockAssumption == ClockMax \in Nat

Empty == [used |-> FALSE]

Entry(k, idle) == [used |-> TRUE, key |-> k, idle |-> idle]

NewPool == [i \in 1..PoolSize |-> Empty]

\* Mutant: the clock is taken not to have wrapped.
IdleTime_NoWrap(now, at) == IF now >= at THEN now - at ELSE 0

\* estimateObjectIdleTime, in ticks of the clock.
IdleTime(now, at) == IF now >= at THEN now - at ELSE now + (ClockMax - at)

\* The number of used slots passed over by the search: those of smaller idle
\* time, from the left.
Passed(p, idle) ==
  CHOOSE n \in 0..PoolSize :
    /\ \A i \in 1..n : p[i].used /\ p[i].idle < idle
    /\ n < PoolSize => ~p[n + 1].used \/ p[n + 1].idle >= idle

Full(p) == p[PoolSize].used

\* Mutant: a full pool is shifted to the right, losing the best entry.
Offered_DropsBest(p, k, idle) ==
  LET n == Passed(p, idle)
  IN [i \in 1..PoolSize |-> IF i <= n THEN p[i]
                            ELSE IF i = n + 1 THEN Entry(k, idle) ELSE p[i - 1]]

\* Mutant: without room the entry takes the slot it came to, not the one before.
Offered_OffByOne(p, k, idle) ==
  LET n == Passed(p, idle)
  IN IF n = 0 /\ Full(p) THEN p
     ELSE IF ~Full(p)
     THEN [i \in 1..PoolSize |-> IF i <= n THEN p[i]
                                 ELSE IF i = n + 1 THEN Entry(k, idle) ELSE p[i - 1]]
     ELSE [i \in 1..PoolSize |-> IF i <= n /\ i < PoolSize THEN p[i + 1]
                                 ELSE IF i \in {n, n + 1} THEN Entry(k, idle) ELSE p[i]]

\* The body of the loop: nothing, when the pool is full of better keys; else the
\* entry takes the empty slot it came to; or, with room at the end, the slot it
\* came to, the rest moving right; or, without, the last slot passed, what was
\* passed moving left, so that the first is lost.
Offered(p, k, idle) ==
  LET n == Passed(p, idle)
  IN IF n = 0 /\ Full(p) THEN p
     ELSE IF n < PoolSize /\ ~p[n + 1].used THEN [p EXCEPT ![n + 1] = Entry(k, idle)]
     ELSE IF ~Full(p)
     THEN [i \in 1..PoolSize |-> IF i <= n THEN p[i]
                                 ELSE IF i = n + 1 THEN Entry(k, idle) ELSE p[i - 1]]
     ELSE [i \in 1..PoolSize |-> IF i < n THEN p[i + 1]
                                 ELSE IF i = n THEN Entry(k, idle) ELSE p[i]]

\* GetSomeKeys: different keys, in any order.
SomeKeys ==
  {s \in UNION {[1..n -> Keys] : n \in 0..Samples} :
     \A i, j \in 1..Len(s) : s[i] = s[j] => i = j}

Init ==
  /\ ep = NewPool /\ todo = <<>>
  /\ lru \in [Keys -> 0..ClockMax] /\ clock \in 0..ClockMax

\* EvictionPoolPopulate is called.
Populate ==
  /\ todo = <<>>
  /\ \E s \in SomeKeys : todo' = s
  /\ UNCHANGED <<ep, lru, clock>>

Offer ==
  /\ todo # <<>>
  /\ ep' = Offered(ep, Head(todo), IdleTime(clock, lru[Head(todo)]))
  /\ todo' = Tail(todo)
  /\ UNCHANGED <<lru, clock>>

\* Between two calls: the object of k is used or replaced.
Touch(k) ==
  /\ todo = <<>>
  /\ \E at \in 0..ClockMax : lru' = [lru EXCEPT ![k] = at]
  /\ UNCHANGED <<ep, todo, clock>>

Next == Populate \/ Offer \/ \E k \in Keys : Touch(k)

Spec == Init /\ [][Next]_vars

-----------------------------------------------------------------------------
(***************************************************************************)
(* Properties.                                                             *)
(***************************************************************************)
\* lru.go:91, "We insert keys on place in ascending idle time on the left": the
\* used slots are the first ones, in ascending order, through every mixture of
\* insertions with and without room.  PerformEvictions (lru.go:153) relies on
\* it to find the best candidate last.
PoolIsSorted ==
  \A i, j \in 1..PoolSize :
    i < j /\ ep[j].used => ep[i].used /\ ep[i].idle <= ep[j].idle

\* How many slots hold an idle time of at least n.
AtLeast(p, n) == Cardinality({i \in 1..PoolSize : p[i].used /\ p[i].idle >= n})

\* What an offer leaves are the PoolSize greatest idle times of those that were
\* there and the new one: no better candidate is given up for a worse one
\* (lru.go:105 and 116).
PoolKeepsTheOldest ==
  [][Offer => \A n \in 0..ClockMax :
       LET all == AtLeast(ep, n)
                    + (IF IdleTime(clock, lru[Head(todo)]) >= n THEN 1 ELSE 0)
       IN AtLeast(ep', n) = IF all < PoolSize THEN all ELSE PoolSize]_vars

\* lru.go:59, "the min number of milliseconds the object was never requested": for
\* an object used `ago' ticks before, less than a turn of the clock, the estimate
\* is never more than that, and at most one tick less, across the wrap.
IdleIsALowerBound ==
  \A ago \in 0..ClockMax :
    LET at == (clock + (ClockMax + 1) - ago) % (ClockMax + 1)
    IN IdleTime(clock, at) \in {ago, ago - 1}
=============================================================================
