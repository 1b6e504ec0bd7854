----------------------------- MODULE DictMemory -----------------------------
(***************************************************************************)
(* What the keyspace of a database adds to usedMemory (db/zmalloc.go), on  *)
(* the table of DictHeap: AddRaw charges the key once for each array that  *)
(* it links the new entry into, Delete takes one back for each array in    *)
(* which it finds the key, and the value, a *RedisObj, is never charged.   *)
(* The account of the expire table is kept in RedisDb.                     *)
(***************************************************************************)
EXTENDS DictHeap

CONSTANT MaxOverdraft   \* bound: how far below zero Delete takes the account of a key

ASSUME OverdraftAssumption == MaxOverdraft \in Nat

VARIABLE charged        \* how many times the size of each key is in usedMemory

memoryVars == <<vars, charged>>

\* findPositionForInsert charges (dict.go:271, 286, 294 and 306) where it counts.
TakeUp(k) == charged' = [charged EXCEPT ![k] = @ + h'.count - h.count]

\* Mutant: a deletion gives back one charge, whatever it removes.
GivenBack_OncePerCall(k) == IF GetEntry(heap, h, k) = Nil THEN 0 ELSE 1

\* In how many arrays Delete finds the key.
GivenBack(k) ==
  (IF Find(heap, Bucket(h, k), k) = Nil THEN 0 ELSE 1)
    + (IF Rehashing(h) /\ Find(FromOld(k).heap, NewBucket(h, k), k) # Nil THEN 1 ELSE 0)

GiveBack(k) ==
  IF role = "expire" \/ hung' THEN UNCHANGED charged
  ELSE /\ charged[k] - GivenBack(k) >= -MaxOverdraft
       /\ charged' = [charged EXCEPT ![k] = @ - GivenBack(k)]

MemoryInit == Init /\ charged = [k \in Keys |-> 0]

MemoryNext ==
  /\ ~hung /\ UNCHANGED role
  /\ \E k \in Keys :
       \/ Delete(k) /\ GiveBack(k)
       \/ role = "expire" /\ (\E v \in Values : Set(k, v)) /\ UNCHANGED charged
       \/ role = "keyspace" /\ LookupHangs(k) /\ UNCHANGED charged
       \/ role = "keyspace" /\ (\E v \in Values : Add(k, v)) /\ TakeUp(k)
       \/ role = "keyspace" /\ (\E v \in Values : Overwrite(k, v)) /\ UNCHANGED charged

MemorySpec == MemoryInit /\ [][MemoryNext]_memoryVars

-----------------------------------------------------------------------------
(***************************************************************************)
(* Properties.                                                             *)
(***************************************************************************)
\* How many pointers lead to an entry of k, from buckets and from other entries.
PointersTo(k) ==
  LET Leads(p) == p # Nil /\ heap[p].key = k
  IN Cardinality({i \in DOMAIN h.table : Leads(h.table[i])})
       + Cardinality({i \in DOMAIN h.rehashingTbl : Leads(h.rehashingTbl[i])})
       + Cardinality({p \in Entries(heap) : Leads(heap[p].next)})

\* How far the account of the keyspace can drift from its entries (dict.go:271, 294,
\* 183): it follows the POINTERS by which they hang, two for an entry that AddRaw
\* has put into both arrays.  Moving entries (dict.go:145), along chains that share
\* entries or run into themselves too, neither makes nor drops one, so insertion
\* and migration keep the account; a deletion may give back more than it takes
\* out of the table, where the entry it removes stays hanging elsewhere, but never
\* less.  So usedMemory, on which eviction decides, never counts more than what hangs
\* in the table.
MemoryFollowsPointers ==
  [][role = "keyspace" /\ ~hung' =>
       \A k \in Keys :
         LET paid   == charged'[k] - charged[k]
             gained == PointersTo(k)' - PointersTo(k)
         IN IF \E j \in Keys : Delete(j) THEN paid <= gained ELSE paid = gained]_memoryVars

\* What TestMemoryUsage (dict_test.go:100, "Memory usage after inserts is incorrect")
\* expects, and the code does not do: every entry is charged once.
EveryEntryIsChargedOnce ==
  role = "keyspace" =>
    \A k \in Keys : charged[k] = Cardinality({p \in Entries(heap) : heap[p].key = k})
=============================================================================
