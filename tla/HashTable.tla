----------------------------- MODULE HashTable -----------------------------
(***************************************************************************)
(* The incrementally rehashed hash table of db/dict.go, with the calls     *)
(* Set, Delete and Get: the ones its clients db/set.go and the expire      *)
(* table of db/db.go make.  (AddRaw, which aliases entries between the two *)
(* tables, needs pointers: see DictHeap, which also shows that the chains  *)
(* of entries are what this module says they are.)                         *)
(*                                                                         *)
(* Every chain operation of dict.go looks for one key and steps over all   *)
(* others, so all a caller can observe of a chain is the order of the      *)
(* entries of the SAME key.  A table is therefore a function from a key to *)
(* the sequence of values of its entries, in chain order: the head of the  *)
(* sequence is the entry a lookup finds.  A correct table has at most one  *)
(* entry per key; this one may have more.                                  *)
(***************************************************************************)
EXTENDS Integers, Sequences, FiniteSets

CONSTANTS Keys, Values, Missing,
          HashCode,          \* the 32-bit FNV-1a hash of each key
          InitSize,          \* NewHashTable's argument
          RehashingBuckets,  \* buckets moved by one rehashStep (10 in the code)
          MaxCount           \* bound: Set is not called once Count reaches it

VARIABLE h                   \* the fields of the HashTable struct

ASSUME MissingAssumption == Missing \notin Values
ASSUME HashAssumption    == HashCode \in [Keys -> Nat]
ASSUME SizeAssumption    == InitSize \in Nat \ {0}
ASSUME BucketsAssumption == RehashingBuckets \in Nat \ {0}
ASSUME BoundAssumption   == MaxCount \in Nat

(***************************************************************************)
(* Tables.                                                                 *)
(***************************************************************************)
NoEntries == [k \in Keys |-> <<>>]

Hash(k, n) == HashCode[k] % n

NewHashTable(n) ==
  [table |-> NoEntries, size |-> n, rehashingIdx |-> -1,
   rehashingSize |-> 0, rehashingTbl |-> NoEntries, count |-> 0]

Rehashing(t) == t.rehashingIdx >= 0

\* Len and Empty.
TableLen(t)   == t.count
TableEmpty(t) == t.count = 0

\* The load factor test of Set's deferred function: Count/Size > 0.7.
Overloaded(t) == 10 * t.count > 7 * t.size

(***************************************************************************)
(* Get: the new table first while rehashing, then the main one.            *)
(***************************************************************************)
Get(t, k) ==
  IF Rehashing(t) /\ t.rehashingTbl[k] # <<>> THEN Head(t.rehashingTbl[k])
  ELSE IF t.table[k] # <<>> THEN Head(t.table[k])
  ELSE Missing

(***************************************************************************)
(* rehashStep moves up to RehashingBuckets buckets.  Each entry of a moved *)
(* chain is pushed on the front of its new chain, so the entries of one    *)
(* key arrive in reverse order, ahead of those already there.  The step    *)
(* that moves the last bucket also installs the new table.                 *)
(***************************************************************************)
Backwards(s) == [i \in 1..Len(s) |-> s[Len(s) + 1 - i]]

\* Mutant: a step moves one bucket.
StepEnd_OneBucket(t) == t.rehashingIdx + 1

StepEnd(t) ==
  IF t.rehashingIdx + RehashingBuckets < t.size
  THEN t.rehashingIdx + RehashingBuckets ELSE t.size

\* Mutant: the first bucket of each step is skipped.
MovedKeys_SkipsFirst(t) ==
  {k \in Keys : t.rehashingIdx < Hash(k, t.size) /\ Hash(k, t.size) < StepEnd(t)}

MovedKeys(t) ==
  {k \in Keys : t.rehashingIdx <= Hash(k, t.size) /\ Hash(k, t.size) < StepEnd(t)}

\* Mutant: the moved buckets are not set to nil.
LeftBehind_KeepsBuckets(t) == t.table

LeftBehind(t) ==
  [k \in Keys |-> IF k \in MovedKeys(t) THEN <<>> ELSE t.table[k]]

\* Mutant: a moved chain replaces the new chain instead of going in front.
Migrated_DropsNewChain(t) ==
  [k \in Keys |-> IF k \in MovedKeys(t)
                  THEN Backwards(t.table[k]) ELSE t.rehashingTbl[k]]

Migrated(t) ==
  [k \in Keys |-> IF k \in MovedKeys(t)
                  THEN Backwards(t.table[k]) \o t.rehashingTbl[k]
                  ELSE t.rehashingTbl[k]]

\* Mutant: the end of the table is missed, the new table never installed.
RehashStep_MissesEnd(t) ==
  [table |-> LeftBehind(t), size |-> t.size, rehashingIdx |-> StepEnd(t),
   rehashingSize |-> t.rehashingSize, rehashingTbl |-> Migrated(t),
   count |-> t.count]

RehashStep(t) ==
  IF StepEnd(t) = t.size
  THEN [table |-> Migrated(t), size |-> t.rehashingSize, rehashingIdx |-> -1,
        rehashingSize |-> 0, rehashingTbl |-> NoEntries, count |-> t.count]
  ELSE [table |-> LeftBehind(t), size |-> t.size, rehashingIdx |-> StepEnd(t),
        rehashingSize |-> t.rehashingSize, rehashingTbl |-> Migrated(t),
        count |-> t.count]

StartRehashing(t) ==
  IF Rehashing(t) THEN t
  ELSE [t EXCEPT !.rehashingSize = 2 * t.size,
                 !.rehashingTbl = NoEntries,
                 !.rehashingIdx = 0]

(***************************************************************************)
(* Set.  While a rehash is (still) going on only the new table is searched *)
(* and written: an entry of k in a bucket that has not moved yet stays     *)
(* where it is.                                                            *)
(***************************************************************************)
\* Mutant: an overwrite appends a second entry.
Stored_Appends(s, v) == Append(s, v)

Stored(s, v) == IF s = <<>> THEN <<v>> ELSE [s EXCEPT ![1] = v]

Added(s) == IF s = <<>> THEN 1 ELSE 0

\* Set's leading rehashStep.
Stepped(t) == IF Rehashing(t) THEN RehashStep(t) ELSE t

Inserted(t, k, v) ==
  IF Rehashing(t)
  THEN [t EXCEPT !.rehashingTbl[k] = Stored(t.rehashingTbl[k], v),
                 !.count = t.count + Added(t.rehashingTbl[k])]
  ELSE [t EXCEPT !.table[k] = Stored(t.table[k], v),
                 !.count = t.count + Added(t.table[k])]

\* Mutant: the table is allowed to fill up before it is resized.
Resized_WhenFull(t) == IF t.count > t.size THEN StartRehashing(t) ELSE t

\* The deferred function.
Resized(t) == IF Overloaded(t) THEN StartRehashing(t) ELSE t

AfterSet(t, k, v) == Resized(Inserted(Stepped(t), k, v))

(***************************************************************************)
(* Delete: the first entry of k in each table.  Count is not touched.      *)
(***************************************************************************)
Rest(s) == IF s = <<>> THEN <<>> ELSE Tail(s)

AfterDelete(t, k) ==
  IF Rehashing(t)
  THEN [t EXCEPT !.table[k] = Rest(t.table[k]),
                 !.rehashingTbl[k] = Rest(t.rehashingTbl[k])]
  ELSE [t EXCEPT !.table[k] = Rest(t.table[k])]

\* Delete's result.
Deletes(t, k) ==
  t.table[k] # <<>> \/ (Rehashing(t) /\ t.rehashingTbl[k] # <<>>)

(***************************************************************************)
(* The specification: any sequence of calls.                               *)
(***************************************************************************)
Init == h = NewHashTable(InitSize)

Set(k, v) == h.count < MaxCount /\ h' = AfterSet(h, k, v)

Delete(k) == h' = AfterDelete(h, k)

Next == \E k \in Keys : Delete(k) \/ \E v \in Values : Set(k, v)

Spec == Init /\ [][Next]_h

(***************************************************************************)
(* The same calls from clients that never Set a key whose entry is still   *)
(* waiting in a bucket of the old table.                                   *)
(***************************************************************************)
NotLeftBehind(k) ==
  Rehashing(Stepped(h)) => Stepped(h).table[k] = <<>>

CarefulNext ==
  \E k \in Keys : \/ Delete(k)
                  \/ NotLeftBehind(k) /\ \E v \in Values : Set(k, v)

CarefulSpec == Init /\ [][CarefulNext]_h

-----------------------------------------------------------------------------
(***************************************************************************)
(* Properties.                                                             *)
(***************************************************************************)
TableType ==
  [table : [Keys -> Seq(Values)], size : Nat \ {0},
   rehashingIdx : Nat \cup {-1}, rehashingSize : Nat,
   rehashingTbl : [Keys -> Seq(Values)], count : Nat]

\* The fields of the HashTable struct (dict.go:35) have their types, between
\* any two calls.
TypeOK == h \in TableType

RehashBookkeeping ==
  IF Rehashing(h)
  THEN h.rehashingIdx < h.size /\ h.rehashingSize = 2 * h.size
  ELSE h.rehashingIdx = -1 /\ h.rehashingSize = 0 /\ h.rehashingTbl = NoEntries

PassedBucketsAreEmpty ==
  \A k \in Keys :
    Rehashing(h) /\ Hash(k, h.size) < h.rehashingIdx => h.table[k] = <<>>

\* Between calls a rehash that has begun has a bucket left to move, a new table
\* of twice the size, and no key in a bucket it has passed (dict.go:143): when
\* the last bucket has moved, dropping the old table (dict.go:158) loses
\* nothing.  When none is going on no entry is in the new table, so that Get,
\* Set and Delete may look at Table alone.
RehashIsSound == RehashBookkeeping /\ PassedBucketsAreEmpty

\* While a rehash is going on, Count exceeds the load factor by at most the
\* insertion that started it and one insertion per step made so far, so the
\* migration of dict.go:138 cannot be outrun by insertions.
RehashKeepsPace ==
  Rehashing(h) =>
    10 * RehashingBuckets * h.count
      <= 7 * RehashingBuckets * h.size + 10 * RehashingBuckets + 10 * h.rehashingIdx

\* The Set that ends a rehash does not begin the next one: what was inserted while
\* the rehash went on has not filled the new table (dict.go:157) over the load
\* factor that its deferred function tests (dict.go:61).  Otherwise a table would
\* double again and again with hardly a call without a rehash step between.
RehashMakesRoom ==
  [][Rehashing(h) /\ h'.size # h.size => ~Rehashing(h')]_h

\* Empty (dict.go:352) never says true of a table in which Get finds a key:
\* GetExpire (db.go:93) returns early on its word.
EmptyIsTruthful ==
  TableEmpty(h) => \A k \in Keys : Get(h, k) = Missing

\* Set(k, v) is seen by the next Get(k), whatever the rehash step, the table
\* switch or the start of a new rehash that the call includes.
ReadYourWrites ==
  [][\A k \in Keys, v \in Values : Set(k, v) => Get(h', k) = v]_h

\* A key appears only by a Set of that key and disappears only by a Delete of
\* it: moving buckets (rehashStep, called from any Set) loses no key and
\* brings none back.
KeysChangeOnRequest ==
  [][\A k \in Keys :
       (Get(h, k) = Missing) # (Get(h', k) = Missing)
         => Delete(k) \/ \E v \in Values : Set(k, v)]_h

\* Under CarefulSpec the table is a map: the calls of dict.go implement
\* KeyValueMap.
Map == INSTANCE KeyValueMap WITH dict <- [k \in Keys |-> Get(h, k)]

\* Every call of a careful client changes what Get returns exactly as a map
\* would: rehashing is invisible.
ImplementsMap == Map!Spec

\* Under CarefulSpec every key has at most one entry.
OneEntryPerKey ==
  \A k \in Keys : Len(h.table[k]) + Len(h.rehashingTbl[k]) <= 1

(***************************************************************************)
(* What comments and tests of the repository say, and Spec does not do.    *)
(***************************************************************************)
\* dict.go:100, "We should return after handling the RehashingTbl to avoid
\* double insertion": no key is in both tables.
NoDoubleInsertion ==
  \A k \in Keys : ~ (h.table[k] # <<>> /\ h.rehashingTbl[k] # <<>>)

\* TestHashTableResize (dict_test.go:46) reads back, after several resizes,
\* the value last set: the value of a key changes only when the key is
\* written or deleted.
ValuesSurviveRehashing ==
  [][\A k \in Keys :
       Get(h', k) # Get(h, k) => Delete(k) \/ \E v \in Values : Set(k, v)]_h

\* TestHashTableDelete (dict_test.go:33): a deleted key is gone.
DeletedIsGone == [][\A k \in Keys : Delete(k) => Get(h', k) = Missing]_h

\* dict.go:346, "Len returns the number of elements in the hash table".
LenCountsKeys ==
  TableLen(h) = Cardinality({k \in Keys : Get(h, k) # Missing})
=============================================================================
