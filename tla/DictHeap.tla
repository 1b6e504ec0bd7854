------------------------------ MODULE DictHeap ------------------------------
(***************************************************************************)
(* db/dict.go at the level of its pointers: buckets hold a pointer to the  *)
(* first Entry of a chain, entries point to the next one.  A database has  *)
(* two such tables, used in two ways (role):                               *)
(*   "expire"    Set and Delete, as in db/set.go too; so used the table    *)
(*               implements HashTable, which forgets the pointers;         *)
(*   "keyspace"  AddRaw + SetVal, GetEntry + SetVal and Delete (add,       *)
(*               setValue and GenericDelete of db/db.go).  AddRaw may link *)
(*               one entry into both arrays, which HashTable cannot        *)
(*               express.                                                  *)
(* A walk along a chain that never ends is a call that never returns: the  *)
(* only goroutine that serves commands hangs.                              *)
(***************************************************************************)
EXTENDS Integers, Sequences, FiniteSets, SequencesExt

CONSTANTS Keys, Values, Missing, HashCode, InitSize, RehashingBuckets,
          MaxCount,    \* bound: no insertion once Count reaches it
          Unset,       \* the zero Value of an entry made by AddRaw
          MaxEntries,  \* bound: entries that are reachable at one time
          Free         \* an address with no entry

ASSUME HashAssumption    == HashCode \in [Keys -> Nat]
ASSUME SizeAssumption    == InitSize \in Nat \ {0}
ASSUME BucketsAssumption == RehashingBuckets \in Nat \ {0}
ASSUME BoundAssumption   == MaxCount \in Nat /\ MaxEntries \in Nat
ASSUME FreeAssumption    == Free \notin [key : Keys, val : Values \cup {Unset}, next : 0..MaxEntries]

VARIABLES heap,        \* heap[p] is the Entry at address p, or Free
          h,           \* the fields of the HashTable struct
          hung,        \* a call is walking a chain that has no end
          role         \* which table of the database this is

vars == <<heap, h, hung, role>>

Nil == 0

Hash(k, n) == HashCode[k] % n

NewTable(n) == [i \in 0..(n - 1) |-> Nil]

Rehashing(t) == t.rehashingIdx >= 0

Overloaded(t) == 10 * t.count > 7 * t.size

Addresses == 1..MaxEntries

Entries(hp) == {p \in Addresses : hp[p] # Free}

(***************************************************************************)
(* Chains.                                                                 *)
(***************************************************************************)
\* Where one step along a chain leads.
Links(hp) == [p \in Addresses \cup {Nil} |-> IF p \in Entries(hp) THEN hp[p].next ELSE Nil]

\* The entries that the first n steps along the chain at p meet.
Walk(hp, p, n) ==
  LET at[i \in 1..n] == IF i = 1 THEN p ELSE Links(hp)[at[i - 1]]
  IN [i \in 1..Cardinality({j \in 1..n : at[j] # Nil}) |-> at[i]]

\* On a chain that runs into itself they are more than there are addresses.
Chain(hp, p) == Walk(hp, p, MaxEntries + 1)

Endless(hp, p) == Len(Chain(hp, p)) > MaxEntries

\* Where the chain c has the key k.
Hits(hp, c, k) == {i \in 1..Len(c) : hp[c[i]].key = k}

\* The first entry of k on the chain at p, or Nil.
Find(hp, p, k) ==
  LET c == Chain(hp, p)
  IN IF Hits(hp, c, k) = {} THEN Nil ELSE c[Min(Hits(hp, c, k))]

\* Looking for k along the chain at p never ends.
Hangs(hp, p, k) == Find(hp, p, k) = Nil /\ Endless(hp, p)

NewBucket(t, k) == t.rehashingTbl[Hash(k, t.rehashingSize)]
Bucket(t, k)    == t.table[Hash(k, t.size)]

\* GetEntry, and whether it returns.
GetEntry(hp, t, k) ==
  IF Rehashing(t) /\ Find(hp, NewBucket(t, k), k) # Nil
  THEN Find(hp, NewBucket(t, k), k) ELSE Find(hp, Bucket(t, k), k)

GetHangs(hp, t, k) ==
  \/ Rehashing(t) /\ Hangs(hp, NewBucket(t, k), k)
  \/ /\ ~ (Rehashing(t) /\ Find(hp, NewBucket(t, k), k) # Nil)
     /\ Hangs(hp, Bucket(t, k), k)

Get(hp, t, k) ==
  LET e == GetEntry(hp, t, k) IN IF e = Nil THEN Missing ELSE hp[e].val

(***************************************************************************)
(* rehashStep.                                                             *)
(***************************************************************************)
\* A pass of the inner loop: the entry goes to the front of its bucket in tbl.
MoveEntry(m, n) ==
  IF m.entries = Nil THEN m
  ELSE LET e == m.entries
           i == Hash(m.heap[e].key, n)
       IN [heap |-> [m.heap EXCEPT ![e].next = m.tbl[i]],
           tbl |-> [m.tbl EXCEPT ![i] = e],
           entries |-> m.heap[e].next]

\* The inner loop.  On a chain that runs into itself it comes back to entries that
\* it has moved.  It takes no entry three times unless it goes on for ever.
MoveChain(hp, tbl, n, e) ==
  LET at[j \in 0..(2 * MaxEntries)] ==
        IF j = 0 THEN [heap |-> hp, tbl |-> tbl, entries |-> e] ELSE MoveEntry(at[j - 1], n)
  IN at[2 * MaxEntries]

\* A pass of the outer loop.
MoveBucket(s) ==
  IF s.hangs \/ s.h.rehashingIdx = s.h.size THEN s
  ELSE LET t == s.h
           m == MoveChain(s.heap, t.rehashingTbl, t.rehashingSize, t.table[t.rehashingIdx])
       IN [heap |-> m.heap, hangs |-> m.entries # Nil,
           h |-> [t EXCEPT !.table[t.rehashingIdx] = Nil, !.rehashingTbl = m.tbl,
                           !.rehashingIdx = t.rehashingIdx + 1]]

\* A state that a call works on, and whether a loop of rehashStep never ends.
Working(hp, t) == [heap |-> hp, h |-> t, hangs |-> FALSE]

\* The outer loop.
MoveBuckets(s) ==
  LET at[j \in 0..RehashingBuckets] == IF j = 0 THEN s ELSE MoveBucket(at[j - 1])
  IN at[RehashingBuckets]

\* Mutant: the new table is installed under the old size.
Installed_KeepsSize(t) ==
  IF t.rehashingIdx # t.size THEN t
  ELSE [t EXCEPT !.table = t.rehashingTbl, !.rehashingTbl = <<>>,
                 !.rehashingIdx = -1, !.rehashingSize = 0]

Installed(t) ==
  IF t.rehashingIdx # t.size THEN t
  ELSE [t EXCEPT !.table = t.rehashingTbl, !.size = t.rehashingSize,
                 !.rehashingTbl = <<>>, !.rehashingIdx = -1, !.rehashingSize = 0]

\* Mutant: the moved buckets are not set to nil.
RehashStep_KeepsBuckets(hp, t) ==
  LET m == MoveBuckets(Working(hp, t))
      g == Installed(m.h)
  IN [m EXCEPT !.h = IF Rehashing(g) THEN [g EXCEPT !.table = t.table] ELSE g]

RehashStep(hp, t) ==
  LET m == MoveBuckets(Working(hp, t))
  IN [heap |-> m.heap, h |-> Installed(m.h), hangs |-> m.hangs]

Stepped(hp, t) == IF Rehashing(t) THEN RehashStep(hp, t) ELSE Working(hp, t)

StartRehashing(t) ==
  IF Rehashing(t) THEN t
  ELSE [t EXCEPT !.rehashingSize = 2 * t.size,
                 !.rehashingTbl = NewTable(2 * t.size), !.rehashingIdx = 0]

Resized(t) == IF Overloaded(t) THEN StartRehashing(t) ELSE t

(***************************************************************************)
(* Allocation, and the garbage collector: an entry that no bucket reaches  *)
(* is freed.                                                               *)
(***************************************************************************)
NewEntry(k, v) == [key |-> k, val |-> v, next |-> Nil]

NewAddress(hp) == Min({p \in Addresses : hp[p] = Free})

Room == \E p \in Addresses : heap[p] = Free

Closed(hp, R) == \A p \in R : hp[p].next \in R \cup {Nil}

\* The entries that the pointers in P lead to.
Reached(hp, P) == UNION {Range(Chain(hp, p)) : p \in P}

Heads(t) == Range(t.table) \cup Range(t.rehashingTbl)

Collected(hp, t) ==
  LET live == Reached(hp, Heads(t)) IN [p \in Addresses |-> IF p \in live THEN hp[p] ELSE Free]

(***************************************************************************)
(* Set: overwrite the first entry of the key, or hang a new one at the end *)
(* of the chain; in the new table alone while a rehash goes on.            *)
(***************************************************************************)
\* Bucket i of tbl gets the entry e, already in the heap, at the end of its chain.
Linked(hp, tbl, i, e) ==
  IF tbl[i] = Nil THEN [heap |-> hp, tbl |-> [tbl EXCEPT ![i] = e]]
  ELSE [heap |-> [hp EXCEPT ![Last(Chain(hp, tbl[i]))].next = e], tbl |-> tbl]

\* The table Set looks in after the step, and the bucket it looks at.
Current(t) == IF Rehashing(t) THEN t.rehashingTbl ELSE t.table

\* Mutant: the bucket of the new table is computed with the old size.
Index_OldSize(t, k) == Hash(k, t.size)

Index(t, k) == Hash(k, IF Rehashing(t) THEN t.rehashingSize ELSE t.size)

Stored(s, k, v) ==
  LET e == Find(s.heap, Current(s.h)[Index(s.h, k)], k)
      a == NewAddress(s.heap)
      l == Linked([s.heap EXCEPT ![a] = NewEntry(k, v)], Current(s.h), Index(s.h, k), a)
  IN IF e # Nil THEN [heap |-> [s.heap EXCEPT ![e].val = v], h |-> s.h]
     ELSE IF Rehashing(s.h)
     THEN [heap |-> l.heap, h |-> [s.h EXCEPT !.rehashingTbl = l.tbl, !.count = @ + 1]]
     ELSE [heap |-> l.heap, h |-> [s.h EXCEPT !.table = l.tbl, !.count = @ + 1]]

SetHangs(s, k) == Hangs(s.heap, Current(s.h)[Index(s.h, k)], k)

Hang == hung' = TRUE /\ UNCHANGED <<heap, h>>

Return(s) == heap' = Collected(s.heap, s.h) /\ h' = s.h /\ UNCHANGED hung

Set(k, v) ==
  /\ h.count < MaxCount /\ Room
  /\ LET s == Stepped(heap, h)
         a == Stored(s, k, v)
     IN IF s.hangs \/ SetHangs(s, k) THEN Hang
        ELSE Return([heap |-> a.heap, h |-> Resized(a.h)])

(***************************************************************************)
(* Delete: the first entry of the key, in each table.                      *)
(***************************************************************************)
\* Mutant: deleting the first entry of a chain drops the chain.
DeleteFromTable_DropsChain(hp, tbl, i, k) ==
  [heap |-> hp, tbl |-> IF Find(hp, tbl[i], k) = Nil THEN tbl ELSE [tbl EXCEPT ![i] = Nil]]

DeleteFromTable(hp, tbl, i, k) ==
  LET c == Chain(hp, tbl[i])
      m == Min(Hits(hp, c, k))
  IN IF Hits(hp, c, k) = {} THEN [heap |-> hp, tbl |-> tbl]
     ELSE IF m = 1 THEN [heap |-> hp, tbl |-> [tbl EXCEPT ![i] = hp[c[1]].next]]
     ELSE [heap |-> [hp EXCEPT ![c[m - 1]].next = hp[c[m]].next], tbl |-> tbl]

FromOld(k) == DeleteFromTable(heap, h.table, Hash(k, h.size), k)
FromNew(k) == DeleteFromTable(FromOld(k).heap, h.rehashingTbl, Hash(k, h.rehashingSize), k)

DeleteHangs(k) ==
  \/ Hangs(heap, Bucket(h, k), k)
  \/ Rehashing(h) /\ Hangs(FromOld(k).heap, NewBucket(h, k), k)

Deleted(k) ==
  IF Rehashing(h)
  THEN [heap |-> FromNew(k).heap,
        h |-> [h EXCEPT !.table = FromOld(k).tbl, !.rehashingTbl = FromNew(k).tbl]]
  ELSE [heap |-> FromOld(k).heap, h |-> [h EXCEPT !.table = FromOld(k).tbl]]

Delete(k) == IF DeleteHangs(k) THEN Hang ELSE Return(Deleted(k))

(***************************************************************************)
(* AddRaw (findPositionForInsert).  A new entry e is prepared first.  When *)
(* it has been linked at the end of a chain the loop goes on to e itself,  *)
(* whose key is of course k, and returns it as already existing.  When it  *)
(* went into an empty bucket of the new table there is no return: e is     *)
(* linked into the main table as well.                                     *)
(***************************************************************************)
\* What one of the two loops does: the heap and table it leaves, the entry and
\* flag it would return, and what it adds to Count.  It returns if exist is TRUE.
Insertion(hp, tbl, i, k, e) ==
  LET found == Find(hp, tbl[i], k)
      l     == Linked(hp, tbl, i, e)
  IN IF found # Nil
     THEN [heap |-> hp, tbl |-> tbl, entry |-> found, exist |-> TRUE, added |-> 0]
     ELSE [heap |-> l.heap, tbl |-> l.tbl, entry |-> e, exist |-> tbl[i] # Nil, added |-> 1]

\* Mutant: the bucket of the new table is computed with the old size.
FindPositionForInsert_OldSize(s, k) ==
  LET e == NewAddress(s.heap)
      a == Insertion([s.heap EXCEPT ![e] = NewEntry(k, Unset)], Current(s.h), Hash(k, s.h.size), k, e)
  IN [heap |-> a.heap, entry |-> a.entry, exist |-> a.exist,
      h |-> IF Rehashing(s.h) THEN [s.h EXCEPT !.rehashingTbl = a.tbl, !.count = @ + a.added]
            ELSE [s.h EXCEPT !.table = a.tbl, !.count = @ + a.added]]

FindPositionForInsert(s, k) ==
  LET e   == NewAddress(s.heap)
      hp  == [s.heap EXCEPT ![e] = NewEntry(k, Unset)]
      a   == Insertion(hp, s.h.rehashingTbl, Hash(k, s.h.rehashingSize), k, e)
      b   == Insertion(hp, s.h.table, Hash(k, s.h.size), k, e)
      c   == Insertion(a.heap, s.h.table, Hash(k, s.h.size), k, e)
  IN IF ~Rehashing(s.h)
     THEN [heap |-> b.heap, entry |-> b.entry, exist |-> b.exist,
           h |-> [s.h EXCEPT !.table = b.tbl, !.count = @ + b.added]]
     ELSE IF a.exist
     THEN [heap |-> a.heap, entry |-> a.entry, exist |-> TRUE,
           h |-> [s.h EXCEPT !.rehashingTbl = a.tbl, !.count = @ + a.added]]
     ELSE [heap |-> c.heap, entry |-> c.entry, exist |-> c.exist,
           h |-> [s.h EXCEPT !.rehashingTbl = a.tbl, !.table = c.tbl,
                             !.count = @ + a.added + c.added]]

AddRawHangs(s, k) ==
  \/ Rehashing(s.h) /\ Hangs(s.heap, NewBucket(s.h, k), k)
  \/ /\ ~ (Rehashing(s.h) /\ NewBucket(s.h, k) # Nil)
     /\ Hangs(s.heap, Bucket(s.h, k), k)

\* Mutant: SetVal replaces a value but does not fill in a new entry.
SetVal_OnlyPresent(hp, e, v) ==
  IF hp[e].val = Unset THEN hp ELSE [hp EXCEPT ![e].val = v]

\* SetVal.
SetVal(hp, e, v) == [hp EXCEPT ![e].val = v]

\* SetKey on a key the lookup does not find: add = AddRaw, then SetVal.
Add(k, v) ==
  /\ h.count < MaxCount /\ Room
  /\ ~GetHangs(heap, h, k) /\ GetEntry(heap, h, k) = Nil
  /\ LET s == Stepped(heap, h)
         a == FindPositionForInsert(s, k)
     IN IF s.hangs \/ AddRawHangs(s, k) THEN Hang
        ELSE Return([heap |-> SetVal(a.heap, a.entry, v), h |-> Resized(a.h)])

\* SetKey on a key the lookup finds: setValue = GetEntry, then SetVal.
Overwrite(k, v) ==
  /\ ~GetHangs(heap, h, k) /\ GetEntry(heap, h, k) # Nil
  /\ heap' = SetVal(heap, GetEntry(heap, h, k), v)
  /\ UNCHANGED <<h, hung>>

\* Any lookup of a key that is on no end of its chain.
LookupHangs(k) == GetHangs(heap, h, k) /\ Hang

Init ==
  /\ heap = [p \in Addresses |-> Free] /\ hung = FALSE
  /\ role \in {"expire", "keyspace"}
  /\ h = [table |-> NewTable(InitSize), size |-> InitSize, rehashingIdx |-> -1,
          rehashingSize |-> 0, rehashingTbl |-> <<>>, count |-> 0]

Next ==
  /\ ~hung /\ UNCHANGED role
  /\ \E k \in Keys :
       \/ Delete(k)
       \/ role = "expire" /\ \E v \in Values : Set(k, v)
       \/ role = "keyspace" /\ LookupHangs(k)
       \/ role = "keyspace" /\ \E v \in Values : Add(k, v) \/ Overwrite(k, v)

Spec == Init /\ [][Next]_vars

-----------------------------------------------------------------------------
(***************************************************************************)
(* GetSomeKeys(n): visit the buckets of the main table in the order o that *)
(* rand.Intn happens to give and take keys until there are n, where n is   *)
(* cut down to Len() first.  A chain without an end fills the sample.      *)
(***************************************************************************)
ChainKeys(p, n) ==
  LET c == Walk(heap, p, n) IN [i \in 1..Len(c) |-> heap[c[i]].key]

BucketOrders == {o \in [1..h.size -> 0..(h.size - 1)] : IsInjective(o)}

\* Mutant: the loop ends one bucket early.
GetSomeKeys_MissesOneBucket(n, o) ==
  LET want == IF n > h.count THEN h.count ELSE n
  IN FoldLeft(LAMBDA keys, i : keys \o ChainKeys(h.table[i], want - Len(keys)), <<>>, Front(o))

GetSomeKeys(n, o) ==
  LET want == IF n > h.count THEN h.count ELSE n
      keys[j \in 0..Len(o)] ==
        IF j = 0 THEN <<>>
        ELSE LET taken == keys[j - 1] IN taken \o ChainKeys(h.table[o[j]], want - Len(taken))
  IN keys[Len(o)]

-----------------------------------------------------------------------------
(***************************************************************************)
(* Properties.                                                             *)
(***************************************************************************)
\* The buckets in use, as <<size of the table, bucket number, first entry>>.
Buckets ==
  {<<h.size, i, h.table[i]>> : i \in {j \in DOMAIN h.table : h.table[j] # Nil}}
    \cup {<<h.rehashingSize, i, h.rehashingTbl[i]>> :
            i \in {j \in DOMAIN h.rehashingTbl : h.rehashingTbl[j] # Nil}}

\* What hangs in bucket b.
In(b) == Reached(heap, {b[3]})

\* Pointers are nil or point to an entry, and Table and RehashingTbl are as
\* long as Size and RehashingSize say (dict.go:35).
HeapTypeOK ==
  /\ heap \in [Addresses -> {Free} \cup [key : Keys, val : Values \cup {Unset}, next : 0..MaxEntries]]
  /\ Closed(heap, Entries(heap))
  /\ DOMAIN h.table = 0..(h.size - 1)
  /\ DOMAIN h.rehashingTbl = 0..(h.rehashingSize - 1)
  /\ Heads(h) \subseteq Entries(heap) \cup {Nil}
  /\ hung \in BOOLEAN /\ role \in {"expire", "keyspace"}

\* What hangs in a bucket belongs there, as far as the remainder by n can tell.
InClass(n) == \A b \in Buckets : \A p \in In(b) : Hash(heap[p].key, n) = b[2] % n

\* Every entry hangs in the bucket its key hashes to in that table, so that a lookup,
\* which goes to one bucket only (dict.go:224 and 233), can find it; every chain
\* ends; and no entry is on two chains.
InOrder ==
  /\ \A b \in Buckets : ~Endless(heap, b[3]) /\ \A p \in In(b) : Hash(heap[p].key, b[1]) = b[2]
  /\ \A a, b \in Buckets : a # b => In(a) \cap In(b) = {}

\* Whatever the calls, no pointer dangles, and what hangs in a bucket differs from
\* what belongs there by a multiple of the size the table began with.  With
\* Set and Delete alone (the expire table) the tables are in order: the
\* relinking of rehashStep (dict.go:145) neither shares nor knots chains, so
\* no call hangs.
ChainsAreLists ==
  /\ HeapTypeOK /\ InClass(InitSize)
  /\ role = "expire" => ~hung /\ InOrder

\* The orders that go round the table from some bucket on.
Rounds == {[j \in 1..h.size |-> (start + j) % h.size] : start \in 0..(h.size - 1)}

\* What eviction may rely on when it samples a table in the middle of a rehash
\* (dict.go:378), as long as no AddRaw has brought it out of order: a sampled key
\* is one that a lookup finds, with whichever table and bucket the lookup goes to,
\* and a full sample leaves out only keys that have their entry in RehashingTbl
\* already, which the next sample after the rehash will see.
SamplesAreUsable ==
  InOrder =>
  \A o \in Rounds :
    LET found == ToSet(GetSomeKeys(h.count, o))
    IN \A k \in Keys :
         IF k \in found THEN GetEntry(heap, h, k) # Nil
         ELSE GetEntry(heap, h, k) # Nil => Rehashing(h) /\ Find(heap, NewBucket(h, k), k) # Nil

\* The values of the entries of k on the chain c.
ValuesOn(hp, c, k) ==
  LET vals[i \in 0..Len(c)] ==
        IF i = 0 THEN <<>>
        ELSE IF hp[c[i]].key = k THEN Append(vals[i - 1], hp[c[i]].val) ELSE vals[i - 1]
  IN vals[Len(c)]

\* The value sequences that HashTable keeps per key, of a table of n buckets.
ValuesIn(hp, tbl, n) ==
  [k \in Keys |-> IF n = 0 THEN <<>> ELSE ValuesOn(hp, Chain(hp, tbl[Hash(k, n)]), k)]

\* The table as HashTable sees it.  A keyspace is not such a table.
AsHashTable(hp, t) ==
  [table |-> ValuesIn(hp, t.table, t.size), size |-> t.size,
   rehashingIdx |-> t.rehashingIdx, rehashingSize |-> t.rehashingSize,
   rehashingTbl |-> ValuesIn(hp, t.rehashingTbl, t.rehashingSize), count |-> t.count]

Untouched ==
  [table |-> [k \in Keys |-> <<>>], size |-> InitSize, rehashingIdx |-> -1,
   rehashingSize |-> 0, rehashingTbl |-> [k \in Keys |-> <<>>], count |-> 0]

Table == INSTANCE HashTable
  WITH h <- IF role = "expire" THEN AsHashTable(heap, h) ELSE Untouched

\* Chains of pointers behave as HashTable says: what Set, Delete and
\* rehashStep do to the entries of one key does not depend on the others.
ImplementsHashTable == Table!Spec

\* In a keyspace a key that SetKey has just written through AddRaw or GetEntry is found with
\* that value by the next lookup, even when its entry is linked into both
\* tables (dict.go:269 and 292) or hangs where it does not belong, if no
\* entry is left in a wrong bucket of the main table by the rehash before.
KeyspaceReadsItsWrites ==
  [][\A k \in Keys, v \in Values :
       role = "keyspace" /\ InClass(h.size) /\ (Add(k, v) \/ Overwrite(k, v)) /\ ~hung'
         => Get(heap', h', k) = v]_vars

(***************************************************************************)
(* What comments and tests say, and the code does not do.                  *)
(***************************************************************************)
\* dict.go:20, "gradually migrate data to a larger table while still being
\* able to serve other requests": every lookup in the keyspace returns.
LookupsReturn == \A k \in Keys : ~GetHangs(heap, h, k)

\* TestAddRaw (dict_test.go:124), "Second key should not have already existed
\* in the table": AddRaw of a key that is not there says so.
AddRawReportsNewKeys ==
  \A k \in Keys :
    (~GetHangs(heap, h, k) /\ GetEntry(heap, h, k) = Nil)
       => LET s == Stepped(heap, h)
          IN AddRawHangs(s, k) \/ ~FindPositionForInsert(s, k).exist

\* dict.go:356, "returns a slice of up to `count` keys sampled from the hash table":
\* of a key in a sample the table has an entry (lru.go:98 relies on it).
SampledKeysAreFound ==
  \A o \in Rounds : \A k \in ToSet(GetSomeKeys(h.count, o)) : GetHangs(heap, h, k) \/ GetEntry(heap, h, k) # Nil

\* dict.go:357, "If the hash table has fewer than `count` keys, it returns all
\* of them".
SampleIsComplete ==
  \A o \in BucketOrders :
    ToSet(GetSomeKeys(Cardinality(Keys) + 1, o)) = {k \in Keys : Get(heap, h, k) # Missing}
=============================================================================
