------------------------------ MODULE Eviction ------------------------------
(***************************************************************************)
(* LRU.PerformEvictions (db/lru.go) on a database that string commands     *)
(* fill, with the pool of candidates that EvictionPoolPopulate fills from  *)
(* the keyspace.  A call of PerformEvictions is several actions: its start *)
(* and one action per pass of its outer loop.  Everything runs in one      *)
(* goroutine: no command is served before the call returns.                *)
(***************************************************************************)
EXTENDS StrCmd, FiniteSetsExt

CONSTANTS PoolSize, Samples,
          KeySize,    \* estimateMemoryUsage of each key
          MaxMemory   \* MAX_MEMORY

VARIABLES ep,         \* LRU.ep
          phase,      \* "idle", "evict" in PerformEvictions, "spin" in a loop without end
          toFree,     \* MemoryStatus.ToFree
          memFreed

lruVars == <<ep, phase, toFree, memFreed>>
allVars == <<vars, lruVars>>

ASSUME EvictionAssumption ==
  /\ PoolSize \in Nat \ {0} /\ Samples \in Nat /\ MaxMemory \in Nat
  /\ KeySize \in [Keys -> Nat \ {0}]

\* Every object's LRU field is lruClock(100, 100), a constant (db.go:187,
\* evict.go:68): all idle times are equal here.
Pool == INSTANCE EvictionPool
  WITH todo <- <<>>, lru <- [k \in Keys |-> 0], clock <- 0, ClockMax <- 0

\* How many times the size of a key is in usedMemory.
Charges(d, k) == d.charged[k] + d.expireCharged[k]

\* The keys that usedMemory counts: the others add nothing to it.
Charged(d) == {k \in Keys : Charges(d, k) # 0}

UsedMemory(d) == MapThenSumSet(LAMBDA k : Charges(d, k) * KeySize[k], Charged(d))

EvictionInit ==
  /\ Init /\ ep = Pool!NewPool
  /\ phase = "idle" /\ toFree = 0 /\ memFreed = 0

Serve == phase = "idle" /\ Command /\ UNCHANGED lruVars

\* EvictionPoolPopulate with the keyspace for both of its arguments.
Populate ==
  /\ phase = "idle"
  /\ \E s \in Pool!SomeKeys :
       /\ \A i \in 1..Len(s) : Exists(db, s[i])
       /\ ep' = FoldLeft(LAMBDA p, k : Pool!Offered(p, k, 0), ep, s)
  /\ UNCHANGED <<vars, phase, toFree, memFreed>>

\* getMaxmemoryState says there is too much: PerformEvictions goes on.
Begin ==
  /\ phase = "idle" /\ UsedMemory(db) > MaxMemory
  /\ phase' = "evict" /\ toFree' = UsedMemory(db) - MaxMemory /\ memFreed' = 0
  /\ UNCHANGED <<vars, ep>>

\* The slots of the pool whose key has a TTL.
Candidates == {i \in 1..PoolSize : ep[i].used /\ Expire!Get(db.expire, ep[i].key) # Missing}

\* Mutant: what a deletion gives back is counted twice.
Delta_Twice(d, e) == 2 * (UsedMemory(d) - UsedMemory(e))

Delta(d, e) == UsedMemory(d) - UsedMemory(e)

\* A pass of the outer loop that finds a key: from the back of the pool.
EvictBest ==
  /\ phase = "evict" /\ db.count # 0 /\ Candidates # {}
  /\ db' = GenericDelete(db, ep[Max(Candidates)].key)
  /\ memFreed' = memFreed + Delta(db, db')
  /\ phase' = IF memFreed' < toFree THEN "evict" ELSE "idle"
  /\ UNCHANGED <<reply, ep, toFree>>

\* No slot of the pool is left with a key to evict.  The inner loop looks at
\* the same pool again and again.  (Its way out, an empty keyspace, only moves
\* the search to the outer loop.)
EvictNone ==
  /\ phase = "evict" /\ (db.count = 0 \/ Candidates = {})
  /\ phase' = "spin"
  /\ UNCHANGED <<vars, ep, toFree, memFreed>>

PerformEvictions == Begin \/ EvictBest \/ EvictNone

EvictionNext == Serve \/ Populate \/ PerformEvictions

\* A call of PerformEvictions that has begun goes on.
EvictionSpec ==
  EvictionInit /\ [][EvictionNext]_allVars /\ WF_allVars(EvictBest \/ EvictNone)

-----------------------------------------------------------------------------
(***************************************************************************)
(* Properties.                                                             *)
(***************************************************************************)
\* PerformEvictions stops at the limit: before each deletion the memory in use
\* is above it, and when the call has returned it is not (lru.go:141).  The sum
\* of what the deletions gave back (lru.go:182) is what there was to free, though
\* each deletes from two tables, one of which may be rehashing.
EvictionsStopAtTheLimit ==
  [][phase = "evict" =>
       /\ db' # db => UsedMemory(db) > MaxMemory
       /\ phase' = "idle" => UsedMemory(db') <= MaxMemory]_allVars

\* A call of PerformEvictions that has begun returns, or runs out of
\* candidates: every deletion frees something, for a candidate in the expire
\* table is in the keyspace too (lru.go:180).
EvictionsProgress == phase = "evict" ~> phase \in {"idle", "spin"}

(***************************************************************************)
(* What a comment says, and the code does not do.                          *)
(***************************************************************************)
\* lru.go:85, "When we try to evict a key, and all the entries in the pool don't
\* exist we populate it again. This time we'll be sure that the pool has at
\* least one key that can be evicted, if there is at least one": the search for
\* a key does not go on for ever while the database has one.
PoolIsRepopulated ==
  phase = "spin" => \A k \in Keys : GetExpire(db, k) = Missing
=============================================================================
