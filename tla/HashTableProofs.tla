-------------------------- MODULE HashTableProofs --------------------------
(***************************************************************************)
(* Proofs about HashTable, for every set of keys and values, every hash    *)
(* function, initial size and step width.                                  *)
(*                                                                         *)
(* Good is the inductive invariant, stated of a table t rather than of h   *)
(* so that it can be carried through the three stages of a Set: the        *)
(* leading rehashStep, the insertion, and the deferred load test.          *)
(***************************************************************************)
EXTENDS HashTable, TLAPS

Booked(t) ==
  IF Rehashing(t)
  THEN t.rehashingIdx < t.size /\ t.rehashingSize = 2 * t.size
  ELSE t.rehashingIdx = -1 /\ t.rehashingSize = 0 /\ t.rehashingTbl = NoEntries

PassedEmpty(t) ==
  \A k \in Keys :
    Rehashing(t) /\ Hash(k, t.size) < t.rehashingIdx => t.table[k] = <<>>

Counted(t) ==
  \A k \in Keys : t.table[k] # <<>> \/ t.rehashingTbl[k] # <<>> => t.count > 0

Good(t) == t \in TableType /\ Booked(t) /\ PassedEmpty(t) /\ Counted(t)

\* Present(t, k): some entry of k is in one of the tables.
Present(t, k) == t.table[k] # <<>> \/ t.rehashingTbl[k] # <<>>

-----------------------------------------------------------------------------
\* A hash is a bucket number.
LEMMA HashRange ==
  ASSUME NEW k \in Keys, NEW n \in Nat \ {0}
  PROVE  Hash(k, n) \in 0..(n - 1)
BY HashAssumption DEF Hash

\* Pushing the entries of a chain one by one on another keeps them all.
LEMMA BackwardsType ==
  ASSUME NEW s \in Seq(Values), NEW r \in Seq(Values)
  PROVE  /\ Backwards(s) \in Seq(Values)
         /\ Backwards(s) \o r \in Seq(Values)
         /\ Len(Backwards(s) \o r) = Len(s) + Len(r)
         /\ Backwards(s) \o r = <<>> <=> s = <<>> /\ r = <<>>
         /\ s = <<>> => Backwards(s) \o r = r
         /\ Len(s) = 1 /\ r = <<>> => Backwards(s) \o r = s
<1>1. Backwards(s) \in Seq(Values) /\ Len(Backwards(s)) = Len(s)
  <2>1. \A i \in 1..Len(s) : s[Len(s) + 1 - i] \in Values
    OBVIOUS
  <2> QED BY <2>1 DEF Backwards
<1>2. Backwards(s) \o r \in Seq(Values) /\ Len(Backwards(s) \o r) = Len(s) + Len(r)
  BY <1>1
<1>3. Backwards(s) \o r = <<>> <=> s = <<>> /\ r = <<>>
  BY <1>1, <1>2
<1>4. s = <<>> => Backwards(s) \o r = r
  BY <1>1
<1>5. Len(s) = 1 /\ r = <<>> => Backwards(s) \o r = s
  <2> SUFFICES ASSUME Len(s) = 1, r = <<>> PROVE Backwards(s) \o r = s
    OBVIOUS
  <2>1. Backwards(s)[1] = s[1]
    BY DEF Backwards
  <2>2. Backwards(s) = s
    BY <1>1, <2>1
  <2> QED BY <1>1, <2>2
<1> QED BY <1>1, <1>2, <1>3, <1>4, <1>5

\* What Set writes into the chain of its key, and what Delete leaves of it.
LEMMA StoredType ==
  ASSUME NEW s \in Seq(Values), NEW v \in Values
  PROVE  /\ Stored(s, v) \in Seq(Values)
         /\ Stored(s, v) # <<>>
         /\ Head(Stored(s, v)) = v
         /\ Len(Stored(s, v)) = Len(s) + Added(s)
BY DEF Stored, Added

LEMMA RestType ==
  ASSUME NEW s \in Seq(Values)
  PROVE  /\ Rest(s) \in Seq(Values)
         /\ s = <<>> => Rest(s) = <<>>
         /\ Len(Rest(s)) <= Len(s)
         /\ Len(s) <= 1 => Rest(s) = <<>>
BY DEF Rest

\* Get finds a key exactly when an entry of it exists.
LEMMA GetPresent ==
  ASSUME NEW t, Good(t), NEW k \in Keys
  PROVE  Get(t, k) # Missing <=> Present(t, k)
<1>1. t.table[k] \in Seq(Values) /\ t.rehashingTbl[k] \in Seq(Values)
  BY DEF Good, TableType
<1>2. \A s \in Seq(Values) : s # <<>> => Head(s) # Missing
  BY MissingAssumption
<1>3. ~Rehashing(t) => t.rehashingTbl[k] = <<>>
  BY DEF Good, Booked, NoEntries
<1> QED BY <1>1, <1>2, <1>3 DEF Get, Present

-----------------------------------------------------------------------------
\* A rehashStep keeps the invariant, the count, and the set of keys present.
LEMMA RehashStepGood ==
  ASSUME NEW t, Good(t), Rehashing(t)
  PROVE  /\ Good(RehashStep(t))
         /\ RehashStep(t).count = t.count
         /\ \A k \in Keys : Present(RehashStep(t), k) <=> Present(t, k)
<1> DEFINE r == RehashStep(t)
<1>1. /\ t.table \in [Keys -> Seq(Values)] /\ t.rehashingTbl \in [Keys -> Seq(Values)]
      /\ t.size \in Nat \ {0} /\ t.rehashingIdx \in Nat /\ t.count \in Nat
      /\ t.rehashingIdx < t.size /\ t.rehashingSize = 2 * t.size
  BY DEF Good, TableType, Booked, Rehashing
<1>2. /\ StepEnd(t) \in Nat /\ t.rehashingIdx < StepEnd(t) /\ StepEnd(t) <= t.size
  BY <1>1, BucketsAssumption DEF StepEnd
<1>3. \A k \in Keys : Hash(k, t.size) \in 0..(t.size - 1)
  BY <1>1, HashRange
<1>4. \A k \in Keys :
        /\ LeftBehind(t)[k] = IF k \in MovedKeys(t) THEN <<>> ELSE t.table[k]
        /\ Migrated(t)[k] = IF k \in MovedKeys(t)
                            THEN Backwards(t.table[k]) \o t.rehashingTbl[k]
                            ELSE t.rehashingTbl[k]
        /\ LeftBehind(t)[k] \in Seq(Values) /\ Migrated(t)[k] \in Seq(Values)
        /\ k \in MovedKeys(t) =>
             (Migrated(t)[k] = <<>> <=> t.table[k] = <<>> /\ t.rehashingTbl[k] = <<>>)
  <2> SUFFICES ASSUME NEW k \in Keys
      PROVE /\ LeftBehind(t)[k] \in Seq(Values) /\ Migrated(t)[k] \in Seq(Values)
            /\ k \in MovedKeys(t) =>
                 (Migrated(t)[k] = <<>> <=> t.table[k] = <<>> /\ t.rehashingTbl[k] = <<>>)
    BY DEF LeftBehind, Migrated
  <2>1. t.table[k] \in Seq(Values) /\ t.rehashingTbl[k] \in Seq(Values)
    BY <1>1
  <2>2. /\ Backwards(t.table[k]) \o t.rehashingTbl[k] \in Seq(Values)
        /\ Backwards(t.table[k]) \o t.rehashingTbl[k] = <<>>
             <=> t.table[k] = <<>> /\ t.rehashingTbl[k] = <<>>
    BY <2>1, BackwardsType
  <2> QED BY <2>1, <2>2 DEF LeftBehind, Migrated
<1>5. /\ LeftBehind(t) \in [Keys -> Seq(Values)]
      /\ Migrated(t) \in [Keys -> Seq(Values)]
      /\ NoEntries \in [Keys -> Seq(Values)]
  BY <1>4 DEF LeftBehind, Migrated, NoEntries
<1>6. \A k \in Keys : Hash(k, t.size) < t.rehashingIdx => t.table[k] = <<>>
  BY DEF Good, PassedEmpty
<1>7. CASE StepEnd(t) = t.size
  <2>1. r = [table |-> Migrated(t), size |-> t.rehashingSize, rehashingIdx |-> -1,
             rehashingSize |-> 0, rehashingTbl |-> NoEntries, count |-> t.count]
    BY <1>7 DEF RehashStep
  <2>2. \A k \in Keys : k \notin MovedKeys(t) => t.table[k] = <<>>
    BY <1>1, <1>2, <1>3, <1>6, <1>7 DEF MovedKeys
  <2>3. \A k \in Keys : Present(r, k) <=> Present(t, k)
    BY <2>1, <2>2, <1>4 DEF Present, NoEntries
  <2>4. r \in TableType /\ Booked(r) /\ PassedEmpty(r)
    BY <2>1, <1>1, <1>5 DEF TableType, Booked, PassedEmpty, Rehashing
  <2>5. Counted(r)
    BY <2>1, <2>3 DEF Counted, Present, Good
  <2> QED BY <2>1, <2>3, <2>4, <2>5 DEF Good
<1>8. CASE StepEnd(t) # t.size
  <2>1. r = [table |-> LeftBehind(t), size |-> t.size, rehashingIdx |-> StepEnd(t),
             rehashingSize |-> t.rehashingSize, rehashingTbl |-> Migrated(t),
             count |-> t.count]
    BY <1>8 DEF RehashStep
  <2>2. \A k \in Keys : Present(r, k) <=> Present(t, k)
    BY <2>1, <1>4 DEF Present
  <2>3. r \in TableType /\ Booked(r)
    BY <2>1, <1>1, <1>2, <1>5, <1>8 DEF TableType, Booked, Rehashing
  <2>4. PassedEmpty(r)
    BY <2>1, <1>1, <1>2, <1>3, <1>4, <1>6 DEF PassedEmpty, Rehashing, MovedKeys
  <2>5. Counted(r)
    BY <2>1, <2>2 DEF Counted, Present, Good
  <2> QED BY <2>1, <2>2, <2>3, <2>4, <2>5 DEF Good
<1> QED BY <1>7, <1>8

\* Set's leading step, whether or not a rehash is going on.
LEMMA SteppedGood ==
  ASSUME NEW t, Good(t)
  PROVE  /\ Good(Stepped(t))
         /\ Stepped(t).count = t.count
         /\ \A k \in Keys : Present(Stepped(t), k) <=> Present(t, k)
BY RehashStepGood DEF Stepped

\* The insertion: its own key is found with its value, no other key is touched.
LEMMA InsertedGood ==
  ASSUME NEW t, Good(t), NEW k \in Keys, NEW v \in Values
  PROVE  /\ Good(Inserted(t, k, v))
         /\ Get(Inserted(t, k, v), k) = v
         /\ Rehashing(Inserted(t, k, v)) <=> Rehashing(t)
         /\ \A j \in Keys \ {k} : /\ Present(Inserted(t, k, v), j) <=> Present(t, j)
                                  /\ Get(Inserted(t, k, v), j) = Get(t, j)
<1> DEFINE r == Inserted(t, k, v)
<1>1. /\ t \in TableType
      /\ t.table \in [Keys -> Seq(Values)] /\ t.rehashingTbl \in [Keys -> Seq(Values)]
      /\ t.size \in Nat \ {0} /\ t.count \in Nat
  BY DEF Good, TableType
<1>2. \A s \in Seq(Values) : /\ Stored(s, v) \in Seq(Values) /\ Stored(s, v) # <<>>
                             /\ Head(Stored(s, v)) = v
                             /\ Added(s) \in Nat
                             /\ s = <<>> => Added(s) = 1
  BY StoredType DEF Added
<1>3. CASE Rehashing(t)
  <2>1. r = [t EXCEPT !.rehashingTbl[k] = Stored(t.rehashingTbl[k], v),
                      !.count = t.count + Added(t.rehashingTbl[k])]
    BY <1>3 DEF Inserted
  <2>2. /\ r.table = t.table /\ r.size = t.size /\ r.rehashingIdx = t.rehashingIdx
        /\ r.rehashingSize = t.rehashingSize
        /\ r.rehashingTbl = [t.rehashingTbl EXCEPT ![k] = Stored(t.rehashingTbl[k], v)]
        /\ r.count = t.count + Added(t.rehashingTbl[k])
        /\ r \in TableType
    <3>1. /\ t.rehashingTbl[k] \in Seq(Values) /\ Stored(t.rehashingTbl[k], v) \in Seq(Values)
          /\ t.count + Added(t.rehashingTbl[k]) \in Nat
      BY <1>1, <1>2
    <3>2. [t.rehashingTbl EXCEPT ![k] = Stored(t.rehashingTbl[k], v)] \in [Keys -> Seq(Values)]
      BY <1>1, <3>1
    <3> QED BY <2>1, <1>1, <3>1, <3>2 DEF TableType
  <2>3. Rehashing(r) /\ Booked(r) /\ PassedEmpty(r)
    BY <2>2, <1>3 DEF Good, Booked, PassedEmpty, Rehashing
  <2>4. \A j \in Keys \ {k} : r.rehashingTbl[j] = t.rehashingTbl[j]
    BY <2>2, <1>1
  <2>5. r.rehashingTbl[k] = Stored(t.rehashingTbl[k], v)
    BY <2>2, <1>1
  <2>6. Counted(r)
    <3>1. t.rehashingTbl[k] \in Seq(Values)
      BY <1>1
    <3>2. t.rehashingTbl[k] # <<>> => t.count > 0
      BY DEF Good, Counted
    <3>3. r.count > 0 /\ r.count >= t.count
      BY <3>1, <3>2, <2>2, <1>1, <1>2
    <3> QED BY <3>3 DEF Counted
  <2>7. Get(r, k) = v
    BY <2>3, <2>5, <1>1, <1>2 DEF Get
  <2>8. \A j \in Keys \ {k} : /\ Present(r, j) <=> Present(t, j)
                              /\ Get(r, j) = Get(t, j)
    BY <2>2, <2>3, <2>4, <1>3 DEF Present, Get
  <2> QED BY <2>2, <2>3, <2>6, <2>7, <2>8, <1>3 DEF Good
<1>4. CASE ~Rehashing(t)
  <2>1. r = [t EXCEPT !.table[k] = Stored(t.table[k], v),
                      !.count = t.count + Added(t.table[k])]
    BY <1>4 DEF Inserted
  <2>2. /\ r.rehashingTbl = t.rehashingTbl /\ r.size = t.size
        /\ r.rehashingIdx = t.rehashingIdx /\ r.rehashingSize = t.rehashingSize
        /\ r.table = [t.table EXCEPT ![k] = Stored(t.table[k], v)]
        /\ r.count = t.count + Added(t.table[k])
        /\ r \in TableType
    <3>1. /\ t.table[k] \in Seq(Values) /\ Stored(t.table[k], v) \in Seq(Values)
          /\ t.count + Added(t.table[k]) \in Nat
      BY <1>1, <1>2
    <3>2. [t.table EXCEPT ![k] = Stored(t.table[k], v)] \in [Keys -> Seq(Values)]
      BY <1>1, <3>1
    <3> QED BY <2>1, <1>1, <3>1, <3>2 DEF TableType
  <2>3. ~Rehashing(r) /\ Booked(r) /\ PassedEmpty(r)
    BY <2>2, <1>4 DEF Good, Booked, PassedEmpty, Rehashing
  <2>4. \A j \in Keys \ {k} : r.table[j] = t.table[j]
    BY <2>2, <1>1
  <2>5. r.table[k] = Stored(t.table[k], v)
    BY <2>2, <1>1
  <2>6. Counted(r)
    <3>1. t.table[k] \in Seq(Values)
      BY <1>1
    <3>2. t.table[k] # <<>> => t.count > 0
      BY DEF Good, Counted
    <3>3. r.count > 0
      BY <3>1, <3>2, <2>2, <1>1, <1>2
    <3> QED BY <3>3 DEF Counted
  <2>7. Get(r, k) = v
    BY <2>3, <2>5, <1>1, <1>2 DEF Get
  <2>8. \A j \in Keys \ {k} : /\ Present(r, j) <=> Present(t, j)
                              /\ Get(r, j) = Get(t, j)
    BY <2>2, <2>3, <2>4, <1>4 DEF Present, Get
  <2> QED BY <2>2, <2>3, <2>6, <2>7, <2>8, <1>4 DEF Good
<1> QED BY <1>3, <1>4

\* The deferred load test changes nothing a lookup sees, and leaves no
\* overloaded table at rest.
LEMMA ResizedGood ==
  ASSUME NEW t, Good(t)
  PROVE  /\ Good(Resized(t))
         /\ Resized(t).table = t.table /\ Resized(t).rehashingTbl = t.rehashingTbl
         /\ Resized(t).count = t.count
         /\ Overloaded(Resized(t)) => Rehashing(Resized(t))
         /\ \A k \in Keys : Get(Resized(t), k) = Get(t, k)
<1>1. CASE ~Overloaded(t)
  BY <1>1 DEF Resized
<1>2. CASE Overloaded(t) /\ Rehashing(t)
  BY <1>2 DEF Resized, StartRehashing
<1>3. CASE Overloaded(t) /\ ~Rehashing(t)
  <2> DEFINE r == Resized(t)
  <2>1. /\ t \in TableType /\ t.rehashingTbl = NoEntries
        /\ t.size \in Nat \ {0} /\ t.count \in Nat
        /\ NoEntries \in [Keys -> Seq(Values)]
    BY <1>3 DEF Good, TableType, Booked, NoEntries
  <2>2. r = [t EXCEPT !.rehashingSize = 2 * t.size, !.rehashingTbl = NoEntries,
                      !.rehashingIdx = 0]
    BY <1>3 DEF Resized, StartRehashing
  <2>3. /\ r.table = t.table /\ r.size = t.size /\ r.count = t.count
        /\ r.rehashingTbl = NoEntries /\ r.rehashingIdx = 0
        /\ r.rehashingSize = 2 * t.size /\ r \in TableType
    <3>1. 2 * t.size \in Nat
      BY <2>1
    <3> HIDE DEF r
    <3> QED BY <3>1, <2>1, <2>2 DEF TableType
  <2>4. Rehashing(r) /\ Booked(r)
    BY <2>1, <2>3 DEF Rehashing, Booked
  <2>5. PassedEmpty(r)
    <3>1. \A k \in Keys : Hash(k, t.size) \in 0..(t.size - 1)
      BY <2>1, HashRange
    <3> QED BY <3>1, <2>1, <2>3 DEF PassedEmpty
  <2>6. Counted(r)
    BY <2>1, <2>3 DEF Counted, Good
  <2>7. \A k \in Keys : Get(r, k) = Get(t, k)
    BY <2>1, <2>3, <1>3 DEF Get, NoEntries
  <2> QED BY <2>1, <2>3, <2>4, <2>5, <2>6, <2>7 DEF Good
<1> QED BY <1>1, <1>2, <1>3

\* A whole Set.
LEMMA AfterSetGood ==
  ASSUME NEW t, Good(t), NEW k \in Keys, NEW v \in Values
  PROVE  /\ Good(AfterSet(t, k, v))
         /\ Overloaded(AfterSet(t, k, v)) => Rehashing(AfterSet(t, k, v))
         /\ Get(AfterSet(t, k, v), k) = v
         /\ \A j \in Keys \ {k} : Present(AfterSet(t, k, v), j) <=> Present(t, j)
<1> DEFINE a == Stepped(t)
           b == Inserted(a, k, v)
           c == Resized(b)
<1>1. Good(a) /\ \A j \in Keys : Present(a, j) <=> Present(t, j)
  BY SteppedGood
<1>2. /\ Good(b) /\ Get(b, k) = v
      /\ \A j \in Keys \ {k} : Present(b, j) <=> Present(a, j)
  BY <1>1, InsertedGood
<1>3. /\ Good(c) /\ c.table = b.table /\ c.rehashingTbl = b.rehashingTbl
      /\ Overloaded(c) => Rehashing(c)
      /\ \A j \in Keys : Get(c, j) = Get(b, j)
  BY <1>2, ResizedGood
<1>4. \A j \in Keys : Present(c, j) <=> Present(b, j)
  BY <1>3 DEF Present
<1>5. AfterSet(t, k, v) = c
  BY DEF AfterSet
<1> QED BY <1>1, <1>2, <1>3, <1>4, <1>5

\* A Delete removes entries of its own key only, and never counts.
LEMMA AfterDeleteGood ==
  ASSUME NEW t, Good(t), NEW k \in Keys
  PROVE  /\ Good(AfterDelete(t, k))
         /\ AfterDelete(t, k).count = t.count /\ AfterDelete(t, k).size = t.size
         /\ Rehashing(AfterDelete(t, k)) <=> Rehashing(t)
         /\ AfterDelete(t, k).table[k] = Rest(t.table[k])
         /\ AfterDelete(t, k).rehashingTbl[k] = Rest(t.rehashingTbl[k])
         /\ \A j \in Keys \ {k} :
              /\ AfterDelete(t, k).table[j] = t.table[j]
              /\ AfterDelete(t, k).rehashingTbl[j] = t.rehashingTbl[j]
<1> DEFINE r == AfterDelete(t, k)
<1>1. /\ t \in TableType
      /\ t.table \in [Keys -> Seq(Values)] /\ t.rehashingTbl \in [Keys -> Seq(Values)]
      /\ t.size \in Nat \ {0} /\ t.count \in Nat
  BY DEF Good, TableType
<1>2. Rest(t.table[k]) \in Seq(Values) /\ Rest(t.rehashingTbl[k]) \in Seq(Values)
  BY <1>1, RestType
<1>3. /\ [t.table EXCEPT ![k] = Rest(t.table[k])] \in [Keys -> Seq(Values)]
      /\ [t.rehashingTbl EXCEPT ![k] = Rest(t.rehashingTbl[k])] \in [Keys -> Seq(Values)]
  BY <1>1, <1>2
<1>4. ~Rehashing(t) => /\ t.rehashingTbl = NoEntries
                       /\ Rest(t.rehashingTbl[k]) = <<>>
                       /\ t.rehashingTbl[k] = <<>>
  BY DEF Good, Booked, NoEntries, Rest
<1>5. /\ r.table = [t.table EXCEPT ![k] = Rest(t.table[k])]
      /\ r.size = t.size /\ r.rehashingIdx = t.rehashingIdx
      /\ r.rehashingSize = t.rehashingSize /\ r.count = t.count
      /\ r \in TableType
      /\ Rehashing(t) => r.rehashingTbl = [t.rehashingTbl EXCEPT ![k] = Rest(t.rehashingTbl[k])]
      /\ ~Rehashing(t) => r.rehashingTbl = t.rehashingTbl
  <2>1. CASE Rehashing(t)
    BY <2>1, <1>1, <1>3 DEF AfterDelete, TableType
  <2>2. CASE ~Rehashing(t)
    BY <2>2, <1>1, <1>3 DEF AfterDelete, TableType
  <2> QED BY <2>1, <2>2
<1>6. /\ r.table[k] = Rest(t.table[k]) /\ r.rehashingTbl[k] = Rest(t.rehashingTbl[k])
      /\ \A j \in Keys \ {k} : r.table[j] = t.table[j] /\ r.rehashingTbl[j] = t.rehashingTbl[j]
  BY <1>1, <1>4, <1>5
<1>7. Rehashing(r) <=> Rehashing(t)
  BY <1>5 DEF Rehashing
<1>8. \A j \in Keys : /\ t.table[j] = <<>> => r.table[j] = <<>>
                      /\ t.rehashingTbl[j] = <<>> => r.rehashingTbl[j] = <<>>
  BY <1>1, <1>6, RestType
<1>9. Booked(r)
  BY <1>5, <1>7 DEF Booked, Good
<1>10. PassedEmpty(r)
  BY <1>5, <1>7, <1>8 DEF PassedEmpty, Good
<1>11. Counted(r)
  BY <1>5, <1>8 DEF Counted, Good
<1> QED BY <1>5, <1>6, <1>7, <1>9, <1>10, <1>11 DEF Good

-----------------------------------------------------------------------------
\* What the deferred test of Set leaves (dict.go:61).
LoadIsTested == Overloaded(h) => Rehashing(h)

\* The inductive invariant of the specification.
Inv == Good(h) /\ LoadIsTested

LEMMA InitInv == Init => Inv
<1> SUFFICES ASSUME Init PROVE Inv
  OBVIOUS
<1>1. h = [table |-> NoEntries, size |-> InitSize, rehashingIdx |-> -1,
           rehashingSize |-> 0, rehashingTbl |-> NoEntries, count |-> 0]
  BY DEF Init, NewHashTable
<1>2. NoEntries \in [Keys -> Seq(Values)]
  BY DEF NoEntries
<1>3. h \in TableType
  BY <1>1, <1>2, SizeAssumption DEF TableType
<1>4. ~Rehashing(h) /\ Booked(h) /\ PassedEmpty(h)
  BY <1>1 DEF Booked, PassedEmpty, Rehashing
<1>5. Counted(h)
  BY <1>1 DEF Counted, NoEntries
<1>6. LoadIsTested
  BY <1>1, SizeAssumption DEF LoadIsTested, Overloaded
<1> QED BY <1>3, <1>4, <1>5, <1>6 DEF Inv, Good

LEMMA NextInv == Inv /\ [Next]_h => Inv'
<1> SUFFICES ASSUME Inv, [Next]_h PROVE Inv'
  OBVIOUS
<1>1. ASSUME NEW k \in Keys, Delete(k) PROVE Inv'
  <2>1. h' = AfterDelete(h, k) /\ Good(h)
    BY <1>1 DEF Delete, Inv
  <2>2. /\ Good(h') /\ h'.count = h.count /\ h'.size = h.size
        /\ Rehashing(h') <=> Rehashing(h)
    BY <2>1, AfterDeleteGood
  <2> QED BY <2>2 DEF Inv, Good, Booked, PassedEmpty, Counted, Rehashing,
                      LoadIsTested, Overloaded
<1>2. ASSUME NEW k \in Keys, NEW v \in Values, Set(k, v) PROVE Inv'
  <2>1. h' = AfterSet(h, k, v) /\ Good(h)
    BY <1>2 DEF Set, Inv
  <2>2. Good(h') /\ (Overloaded(h') => Rehashing(h'))
    BY <2>1, AfterSetGood
  <2> QED BY <2>2 DEF Inv, Good, Booked, PassedEmpty, Counted, Rehashing,
                      LoadIsTested, Overloaded
<1>3. CASE UNCHANGED h
  BY <1>3 DEF Inv, Good, Booked, PassedEmpty, Counted, Rehashing,
              LoadIsTested, Overloaded
<1> QED BY <1>1, <1>2, <1>3 DEF Next

\* The invariant holds in every reachable state.
LEMMA InvariantHolds == Spec => []Inv
BY InitInv, NextInv, PTL DEF Spec

\* The struct keeps its types through any sequence of Set and Delete.
THEOREM TypeCorrect == Spec => []TypeOK
<1>1. Inv => TypeOK
  BY DEF Inv, Good, TypeOK
<1> QED BY <1>1, InvariantHolds, PTL

\* No rehash is ever left without a bucket to move, and none leaves entries
\* behind: rehashStep can always finish and dropping the old table is safe.
THEOREM RehashingIsSound == Spec => []RehashIsSound
<1>1. Inv => RehashIsSound
  BY DEF Inv, Good, Booked, PassedEmpty, RehashIsSound, RehashBookkeeping, PassedBucketsAreEmpty
<1> QED BY <1>1, InvariantHolds, PTL

\* Empty is never true of a table with a key in it.
THEOREM EmptyCorrect == Spec => []EmptyIsTruthful
<1>1. Inv => EmptyIsTruthful
  <2> SUFFICES ASSUME Good(h), TableEmpty(h), NEW k \in Keys
               PROVE  Get(h, k) = Missing
    BY DEF Inv, EmptyIsTruthful
  <2>1. ~Present(h, k)
    BY DEF Good, Counted, TableEmpty, Present
  <2> QED BY <2>1, GetPresent
<1> QED BY <1>1, InvariantHolds, PTL

\* A value just set is the value found.
THEOREM ReadYourWritesHolds == Spec => ReadYourWrites
<1>1. Inv /\ [Next]_h => [\A k \in Keys, v \in Values : Set(k, v) => Get(h', k) = v]_h
  <2> SUFFICES ASSUME Inv, NEW k \in Keys, NEW v \in Values, Set(k, v)
               PROVE  Get(h', k) = v
    OBVIOUS
  <2> QED BY AfterSetGood DEF Inv, Set
<1> QED BY <1>1, InvariantHolds, PTL DEF Spec, ReadYourWrites

\* Rehashing neither loses a key nor brings one back.
THEOREM KeysChangeOnRequestHolds == Spec => KeysChangeOnRequest
<1> DEFINE Allowed(j) ==
      (Get(h, j) = Missing) # (Get(h', j) = Missing)
         => Delete(j) \/ \E v \in Values : Set(j, v)
<1>1. Inv /\ Inv' /\ [Next]_h =>
        [\A k \in Keys : (Get(h, k) = Missing) # (Get(h', k) = Missing)
                           => Delete(k) \/ \E v \in Values : Set(k, v)]_h
  <2> SUFFICES ASSUME Inv, Inv', Next, NEW j \in Keys PROVE Allowed(j)
    OBVIOUS
  <2>0. Good(h) /\ Good(h')
    BY DEF Inv, Good, Booked, PassedEmpty, Counted, Rehashing
  <2>1. ASSUME NEW k \in Keys, Delete(k) PROVE Allowed(j)
    <3>1. CASE j = k
      BY <3>1, <2>1
    <3>2. CASE j # k
      <4>1. h'.table[j] = h.table[j] /\ h'.rehashingTbl[j] = h.rehashingTbl[j]
        BY <3>2, <2>0, <2>1, AfterDeleteGood DEF Delete
      <4>2. Present(h', j) <=> Present(h, j)
        BY <4>1 DEF Present
      <4> QED BY <4>2, <2>0, GetPresent
    <3> QED BY <3>1, <3>2
  <2>2. ASSUME NEW k \in Keys, NEW v \in Values, Set(k, v) PROVE Allowed(j)
    <3>1. CASE j = k
      BY <3>1, <2>2
    <3>2. CASE j # k
      <4>1. Present(h', j) <=> Present(h, j)
        BY <3>2, <2>0, <2>2, AfterSetGood DEF Set
      <4> QED BY <4>1, <2>0, GetPresent
    <3> QED BY <3>1, <3>2
  <2> QED BY <2>1, <2>2 DEF Next
<1> QED BY <1>1, InvariantHolds, PTL DEF Spec, KeysChangeOnRequest

-----------------------------------------------------------------------------
(***************************************************************************)
(* The pace of a rehash.  One bucket per step would not do: the new table  *)
(* of a long rehash would be overloaded before it is installed.  Two are   *)
(* enough, and the code moves ten (dict.go:26).                            *)
(***************************************************************************)
Pace(t) ==
  Rehashing(t) =>
    10 * (RehashingBuckets * t.count)
      <= 7 * (RehashingBuckets * t.size) + 10 * RehashingBuckets + 10 * t.rehashingIdx

\* Between the leading step and the insertion there is room for one more.
Room(t) ==
  IF Rehashing(t)
  THEN 10 * (RehashingBuckets * t.count)
         <= 7 * (RehashingBuckets * t.size) + 10 * t.rehashingIdx
  ELSE 10 * t.count <= 7 * t.size

\* Multiplication by the step width keeps the order.
LEMMA Scaled ==
  ASSUME NEW b \in Nat, NEW x \in Int, NEW y \in Int, x <= y
  PROVE  b * x <= b * y /\ b * (x + 1) = b * x + b
OBVIOUS

\* A rehash of a table of size s that moves two buckets or more at a time
\* finds the new table of size 2 * s below the load factor when its last step,
\* from bucket i on, installs it.
LEMMA RoomAfterRehash ==
  ASSUME NEW b \in Nat, b >= 2, NEW s \in Nat \ {0}, NEW i \in Nat, NEW c \in Nat, i < s,
         10 * (b * c) <= 7 * (b * s) + 10 * b + 10 * i
  PROVE  10 * c <= 7 * (2 * s)
<1> SUFFICES ASSUME 10 * c >= 14 * s + 1 PROVE FALSE
  OBVIOUS
<1>1. CASE s = 1
  <2>1. b * 2 <= b * c
    BY <1>1, Scaled
  <2> QED BY <2>1, <1>1
<1>2. CASE s = 2
  <2>1. b * 3 <= b * c
    BY <1>2, Scaled
  <2> QED BY <2>1, <1>2
<1>3. CASE s >= 3
  <2>1. b * (14 * s + 1) <= b * (10 * c)
    BY Scaled
  <2>2. 7 * (b * s) <= 9 * b + 10 * s - 10
    BY <2>1
  <2>3. b * (7 * s - 9) <= 10 * s - 10
    BY <2>2
  <2>4. (7 * s - 9) * 2 <= (7 * s - 9) * b
    BY <1>3, Scaled
  <2> QED BY <2>3, <2>4, <1>3
<1> QED BY <1>1, <1>2, <1>3

\* The leading step makes room: it advances by a full step width, or installs
\* the new table.
LEMMA SteppedRoom ==
  ASSUME RehashingBuckets >= 2,
         NEW t, Good(t), Pace(t), Overloaded(t) => Rehashing(t)
  PROVE  Room(Stepped(t))
<1>1. /\ t.size \in Nat \ {0} /\ t.count \in Nat /\ t.rehashingIdx \in Nat \cup {-1}
      /\ RehashingBuckets \in Nat
  BY BucketsAssumption DEF Good, TableType
<1>2. CASE ~Rehashing(t)
  BY <1>1, <1>2 DEF Stepped, Room, Overloaded
<1>3. CASE Rehashing(t)
  <2>1. /\ t.rehashingIdx \in Nat /\ t.rehashingIdx < t.size /\ t.rehashingSize = 2 * t.size
    BY <1>1, <1>3 DEF Good, Booked, Rehashing
  <2>2. CASE StepEnd(t) = t.size
    <3>1. 10 * t.count <= 7 * (2 * t.size)
      BY <1>1, <1>3, <2>1, RoomAfterRehash DEF Pace
    <3> QED BY <3>1, <1>3, <2>1, <2>2 DEF Stepped, RehashStep, Room, Rehashing
  <2>3. CASE StepEnd(t) # t.size
    <3>1. StepEnd(t) = t.rehashingIdx + RehashingBuckets
      BY <2>3 DEF StepEnd
    <3>2. /\ Stepped(t).count = t.count /\ Stepped(t).size = t.size
          /\ Stepped(t).rehashingIdx = t.rehashingIdx + RehashingBuckets
      BY <1>3, <2>3, <3>1 DEF Stepped, RehashStep
    <3>3. Rehashing(Stepped(t))
      BY <3>2, <2>1, <1>1 DEF Rehashing
    <3>4. RehashingBuckets * t.count \in Nat /\ RehashingBuckets * t.size \in Nat
      BY <1>1
    <3> QED BY <3>2, <3>3, <3>4, <1>1, <1>3, <2>1 DEF Pace, Room
  <2> QED BY <2>2, <2>3
<1> QED BY <1>2, <1>3

\* The insertion and the load test use the room up.
LEMMA AfterSetPace ==
  ASSUME RehashingBuckets >= 2,
         NEW t, Good(t), Pace(t), Overloaded(t) => Rehashing(t),
         NEW k \in Keys, NEW v \in Values
  PROVE  Pace(AfterSet(t, k, v))
<1> DEFINE a == Stepped(t)
           b == Inserted(a, k, v)
           c == Resized(b)
<1>1. Good(a) /\ Room(a)
  BY SteppedGood, SteppedRoom
<1> HIDE DEF a
<1>2. a \in TableType /\ a.size \in Nat \ {0} /\ a.count \in Nat /\ a.rehashingIdx \in Nat \cup {-1}
  BY <1>1 DEF Good, TableType
<1>3. /\ b.size = a.size /\ b.rehashingIdx = a.rehashingIdx
      /\ b.count = a.count \/ b.count = a.count + 1
  BY <1>2 DEF Inserted, Added, TableType
<1>4. /\ c.size = b.size /\ c.count = b.count
      /\ c.rehashingIdx = b.rehashingIdx \/ (~Rehashing(b) /\ c.rehashingIdx = 0)
  <2>1. Good(b)
    BY <1>1, InsertedGood
  <2> HIDE DEF b
  <2> QED BY <2>1 DEF Resized, StartRehashing, Good, TableType
<1> HIDE DEF b, c
<1>5. RehashingBuckets \in Nat
  BY BucketsAssumption
<1>6. /\ RehashingBuckets * a.size \in Nat /\ RehashingBuckets * a.count \in Nat
      /\ RehashingBuckets * (a.count + 1) = RehashingBuckets * a.count + RehashingBuckets
  BY <1>2, <1>5
<1>7. Pace(c)
  <2> SUFFICES ASSUME Rehashing(c)
               PROVE  10 * (RehashingBuckets * c.count)
                        <= 7 * (RehashingBuckets * c.size) + 10 * RehashingBuckets
                             + 10 * c.rehashingIdx
    BY DEF Pace
  <2>1. RehashingBuckets * c.count <= RehashingBuckets * a.count + RehashingBuckets
    BY <1>3, <1>4, <1>5, <1>6
  <2>2. CASE Rehashing(a)
    <3>1. Rehashing(b) /\ c.rehashingIdx = a.rehashingIdx
      BY <2>2, <1>3, <1>4 DEF Rehashing
    <3> QED BY <3>1, <2>1, <2>2, <1>1, <1>2, <1>3, <1>4, <1>5, <1>6 DEF Room
  <2>3. CASE ~Rehashing(a)
    <3>1. c.rehashingIdx = 0
      BY <2>3, <1>2, <1>3, <1>4 DEF Rehashing
    <3>2. 10 * a.count <= 7 * a.size
      BY <2>3, <1>1 DEF Room
    <3>3. RehashingBuckets * (10 * a.count) <= RehashingBuckets * (7 * a.size)
      BY <3>2, <1>2, <1>5, Scaled
    <3>4. 10 * (RehashingBuckets * a.count) <= 7 * (RehashingBuckets * a.size)
      BY <3>3, <1>2, <1>5
    <3> QED BY <3>1, <3>4, <2>1, <1>3, <1>4, <1>5, <1>6
  <2> QED BY <2>2, <2>3
<1> QED BY <1>7 DEF AfterSet, a, b, c

\* Only the leading step of a Set changes the size.
LEMMA SetKeepsSize ==
  ASSUME NEW t, Good(t), NEW k \in Keys, NEW v \in Values
  PROVE  AfterSet(t, k, v).size = Stepped(t).size
<1> DEFINE a == Stepped(t)
           b == Inserted(a, k, v)
<1>1. Good(a) /\ Good(b)
  BY SteppedGood, InsertedGood
<1>2. b.size = a.size
  BY <1>1 DEF Inserted, Good, TableType
<1>3. Resized(b).size = b.size
  <2> HIDE DEF b
  <2> QED BY <1>1 DEF Resized, StartRehashing, Good, TableType
<1> QED BY <1>2, <1>3 DEF AfterSet

\* The invariant of the pace.
LEMMA PaceHolds ==
  ASSUME RehashingBuckets >= 2
  PROVE  Spec => []Pace(h)
<1>1. Init => Pace(h)
  BY DEF Init, NewHashTable, Pace, Rehashing
<1>2. Inv /\ Pace(h) /\ [Next]_h => Pace(h)'
  <2> SUFFICES ASSUME Inv, Pace(h), [Next]_h PROVE Pace(h')
    BY DEF Pace, Rehashing
  <2>1. Good(h) /\ (Overloaded(h) => Rehashing(h))
    BY DEF Inv, LoadIsTested
  <2>2. ASSUME NEW k \in Keys, Delete(k) PROVE Pace(h')
    <3>1. /\ h'.count = h.count /\ h'.size = h.size /\ h'.rehashingIdx = h.rehashingIdx
      BY <2>1, <2>2 DEF Delete, AfterDelete, Good, TableType
    <3> QED BY <3>1 DEF Pace, Rehashing
  <2>3. ASSUME NEW k \in Keys, NEW v \in Values, Set(k, v) PROVE Pace(h')
    BY <2>1, <2>3, AfterSetPace DEF Set
  <2>4. CASE UNCHANGED h
    BY <2>4
  <2> QED BY <2>2, <2>3, <2>4 DEF Next
<1> QED BY <1>1, <1>2, InvariantHolds, PTL DEF Spec

\* A rehash is not outrun by insertions if it moves two buckets or more per
\* step.
THEOREM RehashKeepsPaceHolds ==
  ASSUME RehashingBuckets >= 2
  PROVE  Spec => []RehashKeepsPace
<1>1. Inv /\ Pace(h) => RehashKeepsPace
  <2> SUFFICES ASSUME Inv, Pace(h), Rehashing(h)
               PROVE  10 * RehashingBuckets * h.count
                        <= 7 * RehashingBuckets * h.size + 10 * RehashingBuckets
                             + 10 * h.rehashingIdx
    BY DEF RehashKeepsPace
  <2>1. /\ h.size \in Nat /\ h.count \in Nat /\ RehashingBuckets \in Nat
    BY BucketsAssumption DEF Inv, Good, TableType
  <2>2. /\ 10 * RehashingBuckets * h.count = 10 * (RehashingBuckets * h.count)
        /\ 7 * RehashingBuckets * h.size = 7 * (RehashingBuckets * h.size)
    BY <2>1
  <2> QED BY <2>2 DEF Pace
<1> QED BY <1>1, PaceHolds, InvariantHolds, PTL

\* A table of eight buckets or more, rehashed two or more at a time, has room for
\* one insertion more than RoomAfterRehash says.
LEMMA RoomForInsertion ==
  ASSUME NEW b \in Nat, b >= 2, NEW s \in Nat, s >= 8, NEW i \in Nat, NEW c \in Nat, i < s,
         10 * (b * c) <= 7 * (b * s) + 10 * b + 10 * i
  PROVE  10 * (c + 1) <= 7 * (2 * s)
<1> SUFFICES ASSUME 10 * c >= 14 * s - 9 PROVE FALSE
  OBVIOUS
<1>1. b * (14 * s - 9) <= b * (10 * c)
  BY Scaled
<1>2. b * (7 * s - 19) <= 10 * s - 10
  BY <1>1
<1>3. (7 * s - 19) * 2 <= (7 * s - 19) * b
  BY Scaled
<1> QED BY <1>2, <1>3

\* The size a table began with is never undercut.
LEMMA SizeHolds == Spec => [](h.size >= InitSize)
<1>1. Init => h.size >= InitSize
  BY SizeAssumption DEF Init, NewHashTable
<1>2. Inv /\ h.size >= InitSize /\ [Next]_h => (h.size >= InitSize)'
  <2> SUFFICES ASSUME Inv, h.size >= InitSize, [Next]_h PROVE h'.size >= InitSize
    OBVIOUS
  <2>1. Good(h) /\ h.size \in Nat /\ InitSize \in Nat
    BY SizeAssumption DEF Inv, Good, TableType
  <2>2. ASSUME NEW k \in Keys, Delete(k) PROVE h'.size >= InitSize
    BY <2>1, <2>2, AfterDeleteGood DEF Delete
  <2>3. ASSUME NEW k \in Keys, NEW v \in Values, Set(k, v) PROVE h'.size >= InitSize
    <3>1. h'.size = Stepped(h).size
      BY <2>1, <2>3, SetKeepsSize DEF Set
    <3>2. Stepped(h).size = h.size \/ Stepped(h).size = 2 * h.size
      BY <2>1 DEF Stepped, RehashStep, Good, Booked
    <3> QED BY <2>1, <3>1, <3>2
  <2> QED BY <2>2, <2>3 DEF Next
<1> QED BY <1>1, <1>2, InvariantHolds, PTL DEF Spec

\* With steps of two buckets or more and eight buckets to begin with (the code
\* has ten, dict.go:26, and sixteen) the Set that ends a rehash does
\* not begin the next one.
THEOREM RehashMakesRoomHolds ==
  ASSUME RehashingBuckets >= 2, InitSize >= 8
  PROVE  Spec => RehashMakesRoom
<1>1. ASSUME Inv, Pace(h), h.size >= InitSize, Next, Rehashing(h), h'.size # h.size
      PROVE  ~Rehashing(h')
  <2>1. /\ Good(h) /\ h.size \in Nat /\ h.count \in Nat /\ RehashingBuckets \in Nat
        /\ InitSize \in Nat
    BY <1>1, SizeAssumption, BucketsAssumption DEF Inv, Good, TableType
  <2>2. ASSUME NEW k \in Keys, Delete(k) PROVE FALSE
    BY <1>1, <2>1, <2>2, AfterDeleteGood DEF Delete
  <2>3. ASSUME NEW k \in Keys, NEW v \in Values, Set(k, v) PROVE ~Rehashing(h')
    <3> DEFINE a == Stepped(h)
               b == Inserted(a, k, v)
    <3>1. h' = Resized(b) /\ h'.size = a.size
      BY <2>1, <2>3, SetKeepsSize DEF Set, AfterSet
    <3>2. StepEnd(h) = h.size
      BY <1>1, <3>1 DEF Stepped, RehashStep
    <3>3. /\ h.rehashingIdx \in Nat /\ h.rehashingIdx < h.size /\ h.rehashingSize = 2 * h.size
      BY <1>1, <2>1 DEF Good, Booked, Rehashing, TableType
    <3>4. ~Rehashing(a) /\ a.size = 2 * h.size /\ a.count = h.count
      BY <1>1, <3>2, <3>3 DEF Stepped, RehashStep, Rehashing
    <3>5. 10 * (h.count + 1) <= 7 * (2 * h.size)
      BY <1>1, <2>1, <3>3, RoomForInsertion DEF Pace
    <3>6. Good(a)
      BY <2>1, SteppedGood
    <3> HIDE DEF a
    <3>7. /\ ~Rehashing(b) /\ b.size = a.size
          /\ b.count = a.count \/ b.count = a.count + 1
      BY <3>4, <3>6 DEF Inserted, Added, Good, TableType, Rehashing
    <3>8. ~Overloaded(b)
      BY <2>1, <3>4, <3>5, <3>7 DEF Overloaded
    <3> QED BY <3>1, <3>7, <3>8 DEF Resized
  <2> QED BY <1>1, <2>2, <2>3 DEF Next
<1>2. Inv /\ Pace(h) /\ h.size >= InitSize /\ [Next]_h
        => [Rehashing(h) /\ h'.size # h.size => ~Rehashing(h')]_h
  BY <1>1
<1> QED BY <1>2, InvariantHolds, PaceHolds, SizeHolds, PTL DEF Spec, RehashMakesRoom

-----------------------------------------------------------------------------
(***************************************************************************)
(* Careful clients: with at most one entry per key, a rehashStep changes   *)
(* no lookup at all, and the table implements KeyValueMap.                 *)
(***************************************************************************)
Unique(t) ==
  \A k \in Keys : /\ t.table[k] = <<>> \/ t.rehashingTbl[k] = <<>>
                  /\ Len(t.table[k]) <= 1 /\ Len(t.rehashingTbl[k]) <= 1

\* Chains of at most one entry stay so, in either order.
LEMMA ShortChains ==
  ASSUME NEW s \in Seq(Values), NEW r \in Seq(Values),
         Len(s) <= 1, Len(r) <= 1, s = <<>> \/ r = <<>>
  PROVE  /\ Len(Backwards(s) \o r) <= 1
         /\ s = <<>> => Backwards(s) \o r = r
         /\ r = <<>> => Backwards(s) \o r = s
         /\ Len(s) + Len(r) <= 1
<1>1. /\ Len(Backwards(s) \o r) = Len(s) + Len(r)
      /\ s = <<>> => Backwards(s) \o r = r
      /\ Len(s) = 1 /\ r = <<>> => Backwards(s) \o r = s
  BY BackwardsType
<1>0. Len(s) \in Nat /\ Len(r) \in Nat
  OBVIOUS
<1>2. Len(s) = 0 \/ Len(s) = 1
  <2>1. \A n \in Nat : n <= 1 => n = 0 \/ n = 1
    OBVIOUS
  <2> QED BY <1>0, <2>1
<1>3. Len(s) + Len(r) <= 1
  BY <1>2
<1>4. Len(s) = 0 => s = <<>>
  OBVIOUS
<1> QED BY <1>1, <1>2, <1>3, <1>4

LEMMA ShortStored ==
  ASSUME NEW s \in Seq(Values), NEW v \in Values, Len(s) <= 1
  PROVE  Len(Stored(s, v)) <= 1
BY StoredType DEF Added

LEMMA RehashStepUnique ==
  ASSUME NEW t, Good(t), Unique(t), Rehashing(t)
  PROVE  /\ Unique(RehashStep(t))
         /\ \A k \in Keys : Get(RehashStep(t), k) = Get(t, k)
<1> DEFINE r == RehashStep(t)
<1>1. Good(r)
  BY RehashStepGood
<1> SUFFICES ASSUME NEW k \in Keys
             PROVE  /\ r.table[k] = <<>> \/ r.rehashingTbl[k] = <<>>
                    /\ Len(r.table[k]) <= 1 /\ Len(r.rehashingTbl[k]) <= 1
                    /\ Get(r, k) = Get(t, k)
  BY DEF Unique
<1>2. /\ t.table[k] \in Seq(Values) /\ t.rehashingTbl[k] \in Seq(Values)
      /\ t.size \in Nat \ {0} /\ t.rehashingIdx \in Nat /\ t.rehashingIdx < t.size
  BY DEF Good, TableType, Booked, Rehashing
<1>3. /\ t.table[k] = <<>> \/ t.rehashingTbl[k] = <<>>
      /\ Len(t.table[k]) <= 1 /\ Len(t.rehashingTbl[k]) <= 1
      /\ Len(<<>>) <= 1
  BY DEF Unique
<1>4. /\ Len(Backwards(t.table[k]) \o t.rehashingTbl[k]) <= 1
      /\ t.rehashingTbl[k] = <<>> =>
           Backwards(t.table[k]) \o t.rehashingTbl[k] = t.table[k]
      /\ t.table[k] = <<>> =>
           Backwards(t.table[k]) \o t.rehashingTbl[k] = t.rehashingTbl[k]
  BY <1>2, <1>3, ShortChains
<1>5. t.table[k] = <<>> \/ t.rehashingTbl[k] = <<>>
  BY <1>3
<1>6. StepEnd(t) = t.size => k \in MovedKeys(t) \/ t.table[k] = <<>>
  <2>1. Hash(k, t.size) \in 0..(t.size - 1)
    BY <1>2, HashRange
  <2>2. Hash(k, t.size) < t.rehashingIdx => t.table[k] = <<>>
    BY DEF Good, PassedEmpty
  <2> QED BY <1>2, <2>1, <2>2 DEF MovedKeys
<1>7. StepEnd(t) \in Nat
  BY <1>2, BucketsAssumption DEF StepEnd
<1>8. CASE StepEnd(t) = t.size
  <2>1. /\ r.table[k] = IF k \in MovedKeys(t)
                        THEN Backwards(t.table[k]) \o t.rehashingTbl[k]
                        ELSE t.rehashingTbl[k]
        /\ r.rehashingTbl[k] = <<>> /\ ~Rehashing(r)
    BY <1>8 DEF RehashStep, Migrated, NoEntries, Rehashing
  <2>2. CASE t.table[k] = <<>>
    <3>1. r.table[k] = t.rehashingTbl[k]
      BY <2>1, <2>2, <1>4
    <3> QED BY <2>1, <2>2, <3>1, <1>2, <1>3 DEF Get
  <2>3. CASE t.table[k] # <<>>
    <3>1. t.rehashingTbl[k] = <<>> /\ r.table[k] = t.table[k]
      BY <2>1, <2>3, <1>4, <1>5, <1>6, <1>8
    <3> QED BY <2>1, <2>3, <3>1, <1>2, <1>3 DEF Get
  <2> QED BY <2>2, <2>3
<1>9. CASE StepEnd(t) # t.size
  <2>1. /\ r.table[k] = IF k \in MovedKeys(t) THEN <<>> ELSE t.table[k]
        /\ r.rehashingTbl[k] = IF k \in MovedKeys(t)
                               THEN Backwards(t.table[k]) \o t.rehashingTbl[k]
                               ELSE t.rehashingTbl[k]
        /\ Rehashing(r)
    BY <1>7, <1>9 DEF RehashStep, LeftBehind, Migrated, Rehashing
  <2>2. CASE k \in MovedKeys(t)
    BY <2>1, <2>2, <1>2, <1>3, <1>4, <1>5 DEF Get
  <2>3. CASE k \notin MovedKeys(t)
    BY <2>1, <2>3, <1>3 DEF Get
  <2> QED BY <2>2, <2>3
<1> QED BY <1>8, <1>9

\* A Set by a careful client is a Put: it adds at most one entry, for a key
\* that has none, and changes no other lookup.
LEMMA CarefulSet ==
  ASSUME NEW t, Good(t), Unique(t), NEW k \in Keys, NEW v \in Values,
         Rehashing(Stepped(t)) => Stepped(t).table[k] = <<>>
  PROVE  /\ Unique(AfterSet(t, k, v))
         /\ \A j \in Keys : Get(AfterSet(t, k, v), j) = IF j = k THEN v ELSE Get(t, j)
<1> DEFINE a == Stepped(t)
           b == Inserted(a, k, v)
<1>1. Good(a) /\ Unique(a) /\ \A j \in Keys : Get(a, j) = Get(t, j)
  BY SteppedGood, RehashStepUnique DEF Stepped
<1> HIDE DEF a
<1>2. /\ Good(b) /\ Get(b, k) = v
      /\ \A j \in Keys \ {k} : Get(b, j) = Get(a, j)
  BY <1>1, InsertedGood
<1>3. Unique(b)
  <2>1. /\ a \in TableType
        /\ a.table \in [Keys -> Seq(Values)] /\ a.rehashingTbl \in [Keys -> Seq(Values)]
    BY <1>1 DEF Good, TableType
  <2>2. a.table[k] \in Seq(Values) /\ a.rehashingTbl[k] \in Seq(Values)
    BY <2>1
  <2>3. /\ a.table[k] = <<>> \/ a.rehashingTbl[k] = <<>>
        /\ Len(a.table[k]) <= 1 /\ Len(a.rehashingTbl[k]) <= 1
    BY <1>1 DEF Unique
  <2>4. /\ Len(Stored(a.table[k], v)) <= 1
        /\ Len(Stored(a.rehashingTbl[k], v)) <= 1
        /\ Len(<<>>) <= 1
    BY <2>2, <2>3, ShortStored
  <2>5. CASE Rehashing(a)
    <3>1. /\ b.table = a.table
          /\ b.rehashingTbl = [a.rehashingTbl EXCEPT ![k] = Stored(a.rehashingTbl[k], v)]
      BY <2>5, <2>1 DEF Inserted, TableType
    <3>2. a.table[k] = <<>>
      BY <2>5 DEF a
    <3>3. /\ b.table[k] = <<>> \/ b.rehashingTbl[k] = <<>>
          /\ Len(b.table[k]) <= 1 /\ Len(b.rehashingTbl[k]) <= 1
      BY <3>1, <3>2, <2>1, <2>4
    <3>4. \A j \in Keys \ {k} : b.table[j] = a.table[j] /\ b.rehashingTbl[j] = a.rehashingTbl[j]
      BY <3>1, <2>1
    <3> QED BY <3>3, <3>4, <1>1 DEF Unique
  <2>6. CASE ~Rehashing(a)
    <3>1. /\ b.rehashingTbl = a.rehashingTbl
          /\ b.table = [a.table EXCEPT ![k] = Stored(a.table[k], v)]
      BY <2>6, <2>1 DEF Inserted, TableType
    <3>2. a.rehashingTbl[k] = <<>>
      BY <2>6, <1>1 DEF Good, Booked, NoEntries
    <3>3. /\ b.table[k] = <<>> \/ b.rehashingTbl[k] = <<>>
          /\ Len(b.table[k]) <= 1 /\ Len(b.rehashingTbl[k]) <= 1
      BY <3>1, <3>2, <2>1, <2>4
    <3>4. \A j \in Keys \ {k} : b.table[j] = a.table[j] /\ b.rehashingTbl[j] = a.rehashingTbl[j]
      BY <3>1, <2>1
    <3> QED BY <3>3, <3>4, <1>1 DEF Unique
  <2> QED BY <2>5, <2>6
<1> HIDE DEF b
<1>4. /\ Resized(b).table = b.table /\ Resized(b).rehashingTbl = b.rehashingTbl
      /\ \A j \in Keys : Get(Resized(b), j) = Get(b, j)
  BY <1>2, ResizedGood
<1>5. AfterSet(t, k, v) = Resized(b)
  BY DEF AfterSet, a, b
<1> QED BY <1>1, <1>2, <1>3, <1>4, <1>5 DEF Unique

\* With one entry per key a Delete is a Remove.
LEMMA UniqueDelete ==
  ASSUME NEW t, Good(t), Unique(t), NEW k \in Keys
  PROVE  /\ Unique(AfterDelete(t, k))
         /\ \A j \in Keys : Get(AfterDelete(t, k), j) = IF j = k THEN Missing ELSE Get(t, j)
<1> DEFINE r == AfterDelete(t, k)
<1>1. /\ Rehashing(r) <=> Rehashing(t)
      /\ r.table[k] = Rest(t.table[k]) /\ r.rehashingTbl[k] = Rest(t.rehashingTbl[k])
      /\ \A j \in Keys \ {k} : r.table[j] = t.table[j] /\ r.rehashingTbl[j] = t.rehashingTbl[j]
  BY AfterDeleteGood
<1>2. /\ t.table[k] \in Seq(Values) /\ t.rehashingTbl[k] \in Seq(Values)
      /\ Len(t.table[k]) <= 1 /\ Len(t.rehashingTbl[k]) <= 1
  BY DEF Good, TableType, Unique
<1>3. Len(<<>>) <= 1
  OBVIOUS
<1>4. r.table[k] = <<>> /\ r.rehashingTbl[k] = <<>>
  BY <1>1, <1>2, RestType
<1> HIDE DEF r
<1>5. Get(r, k) = Missing
  BY <1>4 DEF Get
<1>6. \A j \in Keys \ {k} : Get(r, j) = Get(t, j)
  BY <1>1 DEF Get
<1>7. Unique(r)
  BY <1>1, <1>3, <1>4 DEF Unique
<1> QED BY <1>5, <1>6, <1>7 DEF r

CInv == Good(h) /\ Unique(h)

LEMMA CarefulStep ==
  ASSUME CInv, [CarefulNext]_h
  PROVE  CInv' /\ [Map!Next]_([k \in Keys |-> Get(h, k)])
<1> DEFINE dict == [k \in Keys |-> Get(h, k)]
<1>0. Good(h) /\ Unique(h)
  BY DEF CInv
<1>1. ASSUME NEW k \in Keys, Delete(k) PROVE CInv' /\ Map!Remove(k)
  <2>1. h' = AfterDelete(h, k)
    BY <1>1 DEF Delete
  <2>2. Good(h') /\ Unique(h')
    BY <1>0, <2>1, AfterDeleteGood, UniqueDelete
  <2>3. \A j \in Keys : Get(h', j) = IF j = k THEN Missing ELSE Get(h, j)
    BY <1>0, <2>1, UniqueDelete
  <2>4. dict' = [dict EXCEPT ![k] = Missing]
    BY <2>3
  <2>5. CInv'
    BY <2>2 DEF CInv, Good, Unique, Booked, PassedEmpty, Counted, Rehashing
  <2> QED BY <2>4, <2>5 DEF Map!Remove
<1>2. ASSUME NEW k \in Keys, NEW v \in Values, NotLeftBehind(k), Set(k, v)
      PROVE  CInv' /\ Map!Put(k, v)
  <2>1. h' = AfterSet(h, k, v)
    BY <1>2 DEF Set
  <2>2. Good(h') /\ Unique(h')
    BY <1>0, <1>2, <2>1, AfterSetGood, CarefulSet DEF NotLeftBehind
  <2>3. \A j \in Keys : Get(h', j) = IF j = k THEN v ELSE Get(h, j)
    BY <1>0, <1>2, <2>1, CarefulSet DEF NotLeftBehind
  <2>4. dict' = [dict EXCEPT ![k] = v]
    BY <2>3
  <2>5. CInv'
    BY <2>2 DEF CInv, Good, Unique, Booked, PassedEmpty, Counted, Rehashing
  <2> QED BY <2>4, <2>5 DEF Map!Put
<1>3. CASE UNCHANGED h
  BY <1>0, <1>3 DEF CInv, Good, Unique, Booked, PassedEmpty, Counted, Rehashing, Get
<1> QED BY <1>1, <1>2, <1>3 DEF CarefulNext, Map!Next

LEMMA CarefulInit == Init => CInv /\ Map!Init
<1> SUFFICES ASSUME Init PROVE CInv /\ Map!Init
  OBVIOUS
<1>1. Good(h)
  BY InitInv DEF Inv
<1>2. \A k \in Keys : h.table[k] = <<>> /\ h.rehashingTbl[k] = <<>>
  BY DEF Init, NewHashTable, NoEntries
<1>3. Unique(h)
  <2>1. Len(<<>>) <= 1
    OBVIOUS
  <2> QED BY <2>1, <1>2 DEF Unique
<1>4. \A k \in Keys : Get(h, k) = Missing
  BY <1>2 DEF Get
<1> QED BY <1>1, <1>3, <1>4 DEF CInv, Map!Init

\* Used carefully, the table is a map with one entry per key.
THEOREM CarefulUseIsSound == CarefulSpec => []OneEntryPerKey
<1>1. CInv /\ [CarefulNext]_h => CInv'
  BY CarefulStep
<1>2. CInv => OneEntryPerKey
  <2> SUFFICES ASSUME CInv, NEW k \in Keys
               PROVE  Len(h.table[k]) + Len(h.rehashingTbl[k]) <= 1
    BY DEF OneEntryPerKey
  <2>1. /\ h.table[k] \in Seq(Values) /\ h.rehashingTbl[k] \in Seq(Values)
        /\ h.table[k] = <<>> \/ h.rehashingTbl[k] = <<>>
        /\ Len(h.table[k]) <= 1 /\ Len(h.rehashingTbl[k]) <= 1
    BY DEF CInv, Good, TableType, Unique
  <2> QED BY <2>1, ShortChains
<1> QED BY <1>1, <1>2, CarefulInit, PTL DEF CarefulSpec

\* Used carefully, the incrementally rehashed table implements KeyValueMap:
\* its initial state is the empty map and every call is a Put, a Remove or
\* invisible.
THEOREM CarefulUseImplementsMap == CarefulSpec => ImplementsMap
<1>1. CInv /\ [CarefulNext]_h => CInv' /\ [Map!Next]_([k \in Keys |-> Get(h, k)])
  BY CarefulStep
<1> QED BY <1>1, CarefulInit, PTL DEF CarefulSpec, ImplementsMap, Map!Spec
=============================================================================
