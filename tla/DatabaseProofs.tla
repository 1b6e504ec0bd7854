-------------------------- MODULE DatabaseProofs --------------------------
(***************************************************************************)
(* Proofs about RedisDb and StrCmd, for every set of keys, values and      *)
(* arguments, every hash function, table size and step width; and, from    *)
(* the section "Recursion over finite sets" on, about Eviction, whose      *)
(* steps are those of StrCmd and evictions, for every set of keys with     *)
(* their sizes, every size of the pool and of the samples, and every       *)
(* limit.                                                                  *)
(*                                                                         *)
(* The expire table is treated through two lemmas, TTLRemoved and TTLAdded,*)
(* that say what Delete, and Set of a key without a TTL, do to it; they    *)
(* rest on the lemmas of HashTableProofs.  Above them a database is        *)
(* described by DbGood.                                                    *)
(*                                                                         *)
(* The two folds of Eviction, the sum of the sizes and the offers of a     *)
(* sample, are functions defined by recursion over the subsets of a finite *)
(* set.  That there is such a function, and where its values lie, is shown *)
(* once.                                                                   *)
(***************************************************************************)
EXTENDS Eviction, NumberLemmas, FiniteSetTheorems, SequenceTheorems, TLAPS

Table == INSTANCE HashTableProofs WITH Values <- Times, h <- db.expire

\* RedisDb and HashTableProofs speak of the same operators.
LEMMA SameTable ==
  /\ Expire!TableType = Table!TableType
  /\ \A t, k : Expire!Get(t, k) = Table!Get(t, k)
  /\ \A t : Expire!Stepped(t) = Table!Stepped(t)
  /\ \A t : Expire!Rehashing(t) = Table!Rehashing(t)
  /\ \A t, k, v : Expire!AfterSet(t, k, v) = Table!AfterSet(t, k, v)
  /\ \A t, k : Expire!AfterDelete(t, k) = Table!AfterDelete(t, k)
<1> USE DEF Expire!Rehashing, Table!Rehashing
<1>1. Expire!TableType = Table!TableType
  BY DEF Expire!TableType, Table!TableType
<1>2. \A t, k : Expire!Get(t, k) = Table!Get(t, k)
  BY DEF Expire!Get, Table!Get
<1>3. \A t : Expire!Stepped(t) = Table!Stepped(t)
  BY DEF Expire!Stepped, Table!Stepped, Expire!RehashStep, Table!RehashStep,
         Expire!StepEnd, Table!StepEnd, Expire!Migrated, Table!Migrated,
         Expire!LeftBehind, Table!LeftBehind, Expire!NoEntries, Table!NoEntries,
         Expire!MovedKeys, Table!MovedKeys, Expire!Hash, Table!Hash,
         Expire!Backwards, Table!Backwards
<1>4. \A t, k, v : Expire!Inserted(t, k, v) = Table!Inserted(t, k, v)
  BY DEF Expire!Inserted, Table!Inserted, Expire!Stored, Table!Stored,
         Expire!Added, Table!Added
<1>5. \A t : Expire!Resized(t) = Table!Resized(t)
  BY DEF Expire!Resized, Table!Resized, Expire!StartRehashing, Table!StartRehashing,
         Expire!Overloaded, Table!Overloaded, Expire!NoEntries, Table!NoEntries
<1>6. \A t, k, v : Expire!AfterSet(t, k, v) = Table!AfterSet(t, k, v)
  BY <1>3, <1>4, <1>5 DEF Expire!AfterSet, Table!AfterSet
<1>7. \A t, k : Expire!AfterDelete(t, k) = Table!AfterDelete(t, k)
  BY DEF Expire!AfterDelete, Table!AfterDelete, Expire!Rest, Table!Rest
<1> QED BY <1>1, <1>2, <1>3, <1>6, <1>7

\* A sound expire table with at most one entry per key.
TTLs(t) == Table!Good(t) /\ Table!Unique(t)

\* What the constants of RedisDb give to a table whose values are times.
LEMMA TableAssumptions ==
  /\ Missing \notin Times /\ HashCode \in [Keys -> Nat]
  /\ InitSize \in Nat \ {0} /\ RehashingBuckets \in Nat \ {0} /\ MaxCount \in Nat
BY DbAssumption, DbHashAssumption, DbSizeAssumption

\* The entries of a key, counted.
LEMMA Entries ==
  ASSUME NEW t, TTLs(t), NEW k \in Keys
  PROVE  /\ t.table[k] \in Seq(Times) /\ t.rehashingTbl[k] \in Seq(Times)
         /\ Expire!Get(t, k) # Missing <=> Table!Present(t, k)
         /\ Expire!Get(t, k) \in Times \cup {Missing}
         /\ Len(t.table[k]) + Len(t.rehashingTbl[k])
              = IF Expire!Get(t, k) # Missing THEN 1 ELSE 0
<1>1. /\ t.table[k] \in Seq(Times) /\ t.rehashingTbl[k] \in Seq(Times)
      /\ t.table[k] = <<>> \/ t.rehashingTbl[k] = <<>>
      /\ Len(t.table[k]) <= 1 /\ Len(t.rehashingTbl[k]) <= 1
  BY DEF TTLs, Table!Good, Table!Unique, Table!TableType
<1>2. Expire!Get(t, k) # Missing <=> Table!Present(t, k)
  BY SameTable, Table!GetPresent, TableAssumptions DEF TTLs
<1>3. Expire!Get(t, k) \in Times \cup {Missing}
  BY <1>1 DEF Expire!Get
<1>4. Len(t.table[k]) + Len(t.rehashingTbl[k]) = IF Table!Present(t, k) THEN 1 ELSE 0
  <2>1. ASSUME NEW s \in Seq(Times), Len(s) <= 1 PROVE Len(s) = IF s # <<>> THEN 1 ELSE 0
    BY <2>1
  <2>2. /\ Len(t.table[k]) = IF t.table[k] # <<>> THEN 1 ELSE 0
        /\ Len(t.rehashingTbl[k]) = IF t.rehashingTbl[k] # <<>> THEN 1 ELSE 0
    BY <1>1, <2>1
  <2> QED BY <2>2, <1>1 DEF Table!Present
<1> QED BY <1>1, <1>2, <1>3, <1>4

\* The same, in numbers.
LEMMA EntriesCounted ==
  ASSUME NEW t, TTLs(t), NEW k \in Keys
  PROVE  /\ Len(t.table[k]) \in Nat /\ Len(t.rehashingTbl[k]) \in Nat
         /\ Len(t.table[k]) + Len(t.rehashingTbl[k]) \in {0, 1}
         /\ Len(t.table[k]) + Len(t.rehashingTbl[k]) = 1 <=> Expire!Get(t, k) # Missing
<1>1. /\ t.table[k] \in Seq(Times) /\ t.rehashingTbl[k] \in Seq(Times)
      /\ Expire!Get(t, k) # Missing <=> Table!Present(t, k)
      /\ Expire!Get(t, k) \in Times \cup {Missing}
      /\ Len(t.table[k]) + Len(t.rehashingTbl[k])
           = IF Expire!Get(t, k) # Missing THEN 1 ELSE 0
  BY Entries
<1> DEFINE m == Len(t.table[k])
           n == Len(t.rehashingTbl[k])
<1>2. m \in Nat /\ n \in Nat
  BY <1>1
<1>3. m + n = IF Expire!Get(t, k) # Missing THEN 1 ELSE 0
  BY <1>1
<1> HIDE DEF m, n
<1>4. m + n \in {0, 1} /\ (m + n = 1 <=> Expire!Get(t, k) # Missing)
  BY <1>3
<1> QED BY <1>2, <1>4 DEF m, n

\* Delete on the expire table removes the TTL of its key and gives back the
\* memory of exactly that.
LEMMA TTLRemoved ==
  ASSUME NEW t, TTLs(t), NEW k \in Keys
  PROVE  /\ TTLs(Expire!AfterDelete(t, k))
         /\ Expire!AfterDelete(t, k).count = t.count
         /\ \A j \in Keys : Expire!Get(Expire!AfterDelete(t, k), j)
                              = IF j = k THEN Missing ELSE Expire!Get(t, j)
         /\ DeleteCharge(t, k) = IF Expire!Get(t, k) # Missing THEN 1 ELSE 0
<1>1. TTLs(Expire!AfterDelete(t, k))
  BY SameTable, Table!AfterDeleteGood, Table!UniqueDelete, TableAssumptions DEF TTLs
<1>2. Expire!AfterDelete(t, k).count = t.count
  BY SameTable, Table!AfterDeleteGood, TableAssumptions DEF TTLs
<1>3. \A j \in Keys : Expire!Get(Expire!AfterDelete(t, k), j)
                        = IF j = k THEN Missing ELSE Expire!Get(t, j)
  BY SameTable, Table!UniqueDelete, TableAssumptions DEF TTLs
<1>4. DeleteCharge(t, k) = IF Expire!Get(t, k) # Missing THEN 1 ELSE 0
  <2>1. t.table[k] = <<>> \/ t.rehashingTbl[k] = <<>>
    BY DEF TTLs, Table!Unique
  <2>2. ~Expire!Rehashing(t) => t.rehashingTbl[k] = <<>>
    BY SameTable DEF TTLs, Table!Good, Table!Booked, Table!NoEntries
  <2>3. Expire!Get(t, k) # Missing <=> Table!Present(t, k)
    BY Entries
  <2> QED BY <2>1, <2>2, <2>3 DEF DeleteCharge, Table!Present
<1> QED BY <1>1, <1>2, <1>3, <1>4

\* Set of a key that has no TTL adds one and is charged for exactly that,
\* whatever rehash step it includes.
LEMMA TTLAdded ==
  ASSUME NEW t, TTLs(t), NEW k \in Keys, NEW time \in Times, Expire!Get(t, k) = Missing
  PROVE  /\ TTLs(Expire!AfterSet(t, k, time))
         /\ \A j \in Keys : Expire!Get(Expire!AfterSet(t, k, time), j)
                              = IF j = k THEN time ELSE Expire!Get(t, j)
         /\ SetCharge(t, k) = 1
<1>1. ~Table!Present(t, k)
  BY Entries
<1>2. ~Table!Present(Table!Stepped(t), k)
  BY <1>1, Table!SteppedGood, TableAssumptions DEF TTLs
<1>3. Table!Stepped(t).table[k] = <<>> /\ Table!Stepped(t).rehashingTbl[k] = <<>>
  BY <1>2 DEF Table!Present
<1>4. TTLs(Expire!AfterSet(t, k, time))
  BY <1>3, SameTable, Table!AfterSetGood, Table!CarefulSet, TableAssumptions DEF TTLs
<1>5. \A j \in Keys : Expire!Get(Expire!AfterSet(t, k, time), j)
                        = IF j = k THEN time ELSE Expire!Get(t, j)
  BY <1>3, SameTable, Table!CarefulSet, TableAssumptions DEF TTLs
<1>6. SetCharge(t, k) = 1
  BY <1>3, SameTable DEF SetCharge
<1> QED BY <1>4, <1>5, <1>6

\* The expire table of a new database.
LEMMA NoTTLs ==
  LET t == Expire!NewHashTable(InitSize)
  IN TTLs(t) /\ \A k \in Keys : Expire!Get(t, k) = Missing
<1> DEFINE t == Expire!NewHashTable(InitSize)
<1>1. t = [table |-> Expire!NoEntries, size |-> InitSize, rehashingIdx |-> -1,
           rehashingSize |-> 0, rehashingTbl |-> Expire!NoEntries, count |-> 0]
  BY DEF Expire!NewHashTable
<1>2. /\ Expire!NoEntries \in [Keys -> Seq(Times)]
      /\ \A k \in Keys : Expire!NoEntries[k] = <<>>
      /\ Table!NoEntries = Expire!NoEntries
  BY DEF Expire!NoEntries, Table!NoEntries
<1> HIDE DEF t
<1>3. t \in Table!TableType
  BY <1>1, <1>2, TableAssumptions DEF Table!TableType
<1>4. Table!Booked(t) /\ Table!PassedEmpty(t) /\ Table!Counted(t)
  BY <1>1, <1>2 DEF Table!Booked, Table!PassedEmpty, Table!Counted, Table!Rehashing
<1>5. Table!Unique(t)
  <2>1. Len(<<>>) <= 1
    OBVIOUS
  <2> QED BY <2>1, <1>1, <1>2 DEF Table!Unique
<1>6. \A k \in Keys : Expire!Get(t, k) = Missing
  BY <1>1, <1>2 DEF Expire!Get
<1> QED BY <1>3, <1>4, <1>5, <1>6 DEF TTLs, Table!Good, t

-----------------------------------------------------------------------------
(***************************************************************************)
(* Databases.                                                              *)
(***************************************************************************)
DbType ==
  [dict : [Keys -> Values \cup {Missing}], count : Nat,
   expire : Expire!TableType, charged : [Keys -> Nat], expireCharged : [Keys -> Nat]]

Present(d) == {k \in Keys : Exists(d, k)}

TTL(d, k) == Expire!Get(d.expire, k)

One(b) == IF b THEN 1 ELSE 0

\* The inductive invariant, of a database d.
DbGood(d) ==
  /\ d \in DbType
  /\ TTLs(d.expire)
  /\ IsFiniteSet(Present(d)) /\ Cardinality(Present(d)) <= d.count
  /\ \A k \in Keys : /\ TTL(d, k) # Missing => Exists(d, k)
                     /\ TTL(d, k) \in 1..MaxInt64 \cup {Missing}
                     /\ d.charged[k] = One(Exists(d, k))
                     /\ d.expireCharged[k] = One(TTL(d, k) # Missing)

\* No number is Missing, and no value.
LEMMA MissingIsOther == (\A n \in 1..MaxInt64 : n \in Times /\ n # Missing) /\ Missing \notin Values
BY DbAssumption, TimesAssumption

\* GetExpire's early return on an empty table makes no difference.
LEMMA GetExpireIsTTL ==
  ASSUME NEW d, DbGood(d), NEW k \in Keys
  PROVE  GetExpire(d, k) = TTL(d, k)
<1>1. CASE Expire!TableEmpty(d.expire)
  <2>1. ~Table!Present(d.expire, k)
    BY <1>1 DEF DbGood, TTLs, Table!Good, Table!Counted, Table!Present, Expire!TableEmpty
  <2>2. Expire!Get(d.expire, k) = Missing
    BY <2>1, Entries DEF DbGood
  <2> QED BY <1>1, <2>2 DEF GetExpire, TTL
<1>2. CASE ~Expire!TableEmpty(d.expire)
  BY <1>2 DEF GetExpire, TTL
<1> QED BY <1>1, <1>2

\* SetValue of a key that is there, Add of one that is not.
LEMMA KeyWritten ==
  ASSUME NEW d, DbGood(d), NEW k \in Keys, NEW v \in Values, NEW e,
         e = IF Exists(d, k) THEN SetValue(d, k, v) ELSE Add(d, k, v)
  PROVE  /\ DbGood(e) /\ Exists(e, k)
         /\ e.dict = [d.dict EXCEPT ![k] = v] /\ e.expire = d.expire
<1>1. /\ d \in DbType /\ d.dict \in [Keys -> Values \cup {Missing}] /\ d.count \in Nat
      /\ d.charged \in [Keys -> Nat] /\ d.expireCharged \in [Keys -> Nat]
      /\ d.expire \in Expire!TableType
  BY DEF DbGood, DbType
<1>2. /\ e \in DbType
      /\ e.dict = [d.dict EXCEPT ![k] = v] /\ e.expire = d.expire
      /\ e.count = d.count + One(~Exists(d, k))
      /\ e.charged = [d.charged EXCEPT ![k] = @ + One(~Exists(d, k))]
      /\ e.expireCharged = d.expireCharged
  <2>1. CASE Exists(d, k)
    <3>1. e = [d EXCEPT !.dict[k] = v]
      BY <2>1 DEF SetValue
    <3>2. [d.dict EXCEPT ![k] = v] \in [Keys -> Values \cup {Missing}]
      BY <1>1
    <3>3. d.charged = [d.charged EXCEPT ![k] = @ + 0]
      BY <1>1
    <3> QED BY <2>1, <3>1, <3>2, <3>3, <1>1 DEF DbType, One
  <2>2. CASE ~Exists(d, k)
    <3>1. e = [d EXCEPT !.dict[k] = v, !.count = @ + 1, !.charged[k] = @ + 1]
      BY <2>2 DEF Add
    <3>2. /\ [d.dict EXCEPT ![k] = v] \in [Keys -> Values \cup {Missing}]
          /\ [d.charged EXCEPT ![k] = @ + 1] \in [Keys -> Nat]
          /\ d.count + 1 \in Nat
      BY <1>1
    <3> QED BY <2>2, <3>1, <3>2, <1>1 DEF DbType, One
  <2> QED BY <2>1, <2>2
<1>3. /\ Exists(e, k)
      /\ \A j \in Keys \ {k} : Exists(e, j) <=> Exists(d, j)
      /\ \A j \in Keys : TTL(e, j) = TTL(d, j)
  BY <1>1, <1>2, MissingIsOther DEF Exists, TTL
<1>4. Present(e) = Present(d) \cup {k}
  BY <1>3 DEF Present
<1>5. IsFiniteSet(Present(e)) /\ Cardinality(Present(e)) <= e.count
  <2>1. IsFiniteSet(Present(d)) /\ Cardinality(Present(d)) <= d.count
    BY DEF DbGood
  <2>2. /\ IsFiniteSet(Present(e)) /\ Cardinality(Present(d)) \in Nat
        /\ Cardinality(Present(e)) = IF k \in Present(d) THEN Cardinality(Present(d))
                                     ELSE Cardinality(Present(d)) + 1
    BY <2>1, <1>4, FS_AddElement, FS_CardinalityType
  <2>3. k \in Present(d) <=> Exists(d, k)
    BY DEF Present
  <2> QED BY <2>1, <2>2, <2>3, <1>1, <1>2 DEF One
<1>6. \A j \in Keys : /\ e.charged[j] = One(Exists(e, j))
                     /\ e.expireCharged[j] = One(TTL(e, j) # Missing)
  BY <1>1, <1>2, <1>3 DEF DbGood, One
<1> QED BY <1>2, <1>3, <1>5, <1>6 DEF DbGood

\* ExpireDelete, of a key that is there (RmExpire) or has just been taken away
\* (GenericDelete), on a database whose TTLs are charged once.
LEMMA TTLDropped ==
  ASSUME NEW d, d \in DbType, TTLs(d.expire), NEW k \in Keys, NEW e, e = ExpireDelete(d, k),
         \A j \in Keys : d.expireCharged[j] = One(TTL(d, j) # Missing)
  PROVE  /\ e \in DbType /\ TTLs(e.expire) /\ e.dict = d.dict /\ e.count = d.count
         /\ e.charged = d.charged
         /\ \A j \in Keys : TTL(e, j) = IF j = k THEN Missing ELSE TTL(d, j)
         /\ \A j \in Keys : e.expireCharged[j] = One(TTL(e, j) # Missing)
<1>1. /\ d.dict \in [Keys -> Values \cup {Missing}] /\ d.count \in Nat
      /\ d.charged \in [Keys -> Nat] /\ d.expireCharged \in [Keys -> Nat]
      /\ d.expire \in Expire!TableType
  BY DEF DbType
<1>2. e = [d EXCEPT !.expire = Expire!AfterDelete(d.expire, k),
                    !.expireCharged[k] = @ - DeleteCharge(d.expire, k)]
  BY DEF ExpireDelete
<1>3. /\ TTLs(Expire!AfterDelete(d.expire, k))
      /\ \A j \in Keys : Expire!Get(Expire!AfterDelete(d.expire, k), j)
                           = IF j = k THEN Missing ELSE Expire!Get(d.expire, j)
      /\ DeleteCharge(d.expire, k) = One(TTL(d, k) # Missing)
  BY TTLRemoved DEF One, TTL
<1>4. Expire!AfterDelete(d.expire, k) \in Expire!TableType
  BY <1>3, SameTable DEF TTLs, Table!Good
<1>5. d.expireCharged[k] - DeleteCharge(d.expire, k) = 0
  BY <1>3 DEF One
<1>6. [d.expireCharged EXCEPT ![k] = @ - DeleteCharge(d.expire, k)] \in [Keys -> Nat]
  BY <1>1, <1>5
<1>7. /\ e \in DbType /\ e.dict = d.dict /\ e.count = d.count /\ e.charged = d.charged
      /\ e.expire = Expire!AfterDelete(d.expire, k)
      /\ e.expireCharged = [d.expireCharged EXCEPT ![k] = @ - DeleteCharge(d.expire, k)]
  BY <1>1, <1>2, <1>4, <1>6 DEF DbType
<1>8. \A j \in Keys : TTL(e, j) = IF j = k THEN Missing ELSE TTL(d, j)
  BY <1>3, <1>7 DEF TTL
<1>9. ASSUME NEW j \in Keys
      PROVE  e.expireCharged[j] = One(TTL(e, j) # Missing)
  <2>1. CASE j = k
    BY <2>1, <1>1, <1>5, <1>7, <1>8 DEF One
  <2>2. CASE j # k
    BY <2>2, <1>1, <1>7, <1>8
  <2> QED BY <2>1, <2>2
<1> QED BY <1>3, <1>7, <1>8, <1>9

\* RmExpire of a key that is there.
LEMMA TTLForgotten ==
  ASSUME NEW d, DbGood(d), NEW k \in Keys, Exists(d, k), NEW e, e = RmExpire(d, k)
  PROVE  /\ DbGood(e) /\ e.dict = d.dict
         /\ \A j \in Keys : TTL(e, j) = IF j = k THEN Missing ELSE TTL(d, j)
<1>1. e = ExpireDelete(d, k)
  BY DEF RmExpire
<1>2. /\ e \in DbType /\ TTLs(e.expire) /\ e.dict = d.dict /\ e.count = d.count
      /\ e.charged = d.charged
      /\ \A j \in Keys : TTL(e, j) = IF j = k THEN Missing ELSE TTL(d, j)
      /\ \A j \in Keys : e.expireCharged[j] = One(TTL(e, j) # Missing)
  BY <1>1, TTLDropped DEF DbGood
<1>3. Present(e) = Present(d) /\ \A j \in Keys : Exists(e, j) <=> Exists(d, j)
  BY <1>2 DEF Present, Exists
<1>4. \A j \in Keys : e.charged[j] = One(Exists(e, j))
  BY <1>2, <1>3 DEF DbGood, One
<1> QED BY <1>2, <1>3, <1>4 DEF DbGood

\* SetExpire of a key that is there and has no TTL.
LEMMA TTLGiven ==
  ASSUME NEW d, DbGood(d), NEW k \in Keys, Exists(d, k), TTL(d, k) = Missing,
         NEW time \in 1..MaxInt64, NEW e, e = SetExpire(d, k, time)
  PROVE  /\ DbGood(e) /\ e.dict = d.dict
         /\ \A j \in Keys : TTL(e, j) = IF j = k THEN time ELSE TTL(d, j)
<1>1. /\ d \in DbType /\ d.dict \in [Keys -> Values \cup {Missing}] /\ d.count \in Nat
      /\ d.charged \in [Keys -> Nat] /\ d.expireCharged \in [Keys -> Nat]
      /\ d.expire \in Expire!TableType
      /\ time \in Times /\ time # Missing
  BY MissingIsOther DEF DbGood, DbType
<1>2. e = [d EXCEPT !.expire = Expire!AfterSet(d.expire, k, time),
                    !.expireCharged[k] = @ + SetCharge(d.expire, k)]
  BY DEF SetExpire
<1>3. /\ TTLs(Expire!AfterSet(d.expire, k, time))
      /\ \A j \in Keys : Expire!Get(Expire!AfterSet(d.expire, k, time), j)
                           = IF j = k THEN time ELSE Expire!Get(d.expire, j)
      /\ SetCharge(d.expire, k) = 1
  BY <1>1, TTLAdded DEF TTL, DbGood
<1>4. Expire!AfterSet(d.expire, k, time) \in Expire!TableType
  BY <1>3, SameTable DEF TTLs, Table!Good
<1>5. [d.expireCharged EXCEPT ![k] = @ + SetCharge(d.expire, k)] \in [Keys -> Nat]
  BY <1>1, <1>3
<1>6. /\ e \in DbType /\ e.dict = d.dict /\ e.count = d.count
      /\ e.expire = Expire!AfterSet(d.expire, k, time)
      /\ e.charged = d.charged
      /\ e.expireCharged = [d.expireCharged EXCEPT ![k] = @ + SetCharge(d.expire, k)]
  BY <1>1, <1>2, <1>4, <1>5 DEF DbType
<1>7. \A j \in Keys : TTL(e, j) = IF j = k THEN time ELSE TTL(d, j)
  BY <1>3, <1>6 DEF TTL
<1>8. Present(e) = Present(d) /\ \A j \in Keys : Exists(e, j) <=> Exists(d, j)
  BY <1>6 DEF Present, Exists
<1>9. \A j \in Keys : /\ e.charged[j] = One(Exists(e, j))
                     /\ e.expireCharged[j] = One(TTL(e, j) # Missing)
  BY <1>1, <1>3, <1>6, <1>7, <1>8 DEF DbGood, One
<1> QED BY <1>1, <1>3, <1>6, <1>7, <1>8, <1>9 DEF DbGood

\* GenericDelete takes the key, its TTL and its memory.
LEMMA KeyDeleted ==
  ASSUME NEW d, DbGood(d), NEW k \in Keys, NEW e, e = GenericDelete(d, k)
  PROVE  /\ DbGood(e) /\ ~Exists(e, k)
         /\ e.dict = [d.dict EXCEPT ![k] = Missing]
         /\ \A j \in Keys : TTL(e, j) = IF j = k THEN Missing ELSE TTL(d, j)
<1>1. /\ d \in DbType /\ d.dict \in [Keys -> Values \cup {Missing}] /\ d.count \in Nat
      /\ d.charged \in [Keys -> Nat] /\ d.expireCharged \in [Keys -> Nat]
      /\ d.expire \in Expire!TableType
  BY DEF DbGood, DbType
<1>2. CASE ~Exists(d, k)
  <2>1. e = d
    BY <1>2 DEF GenericDelete
  <2>2. d.dict[k] = Missing /\ TTL(d, k) = Missing
    BY <1>2 DEF DbGood, Exists
  <2> QED BY <2>1, <2>2, <1>1, <1>2
<1>3. CASE Exists(d, k)
  <2> DEFINE c == [d EXCEPT !.dict[k] = Missing, !.charged[k] = @ - 1]
  <2>1. e = ExpireDelete(c, k)
    BY <1>3 DEF GenericDelete
  <2>2. d.charged[k] = 1
    BY <1>3 DEF DbGood, One
  <2>3. /\ [d.dict EXCEPT ![k] = Missing] \in [Keys -> Values \cup {Missing}]
        /\ [d.charged EXCEPT ![k] = @ - 1] \in [Keys -> Nat]
    BY <1>1, <2>2 DEF One
  <2>4. /\ c \in DbType /\ c.dict = [d.dict EXCEPT ![k] = Missing] /\ c.count = d.count
        /\ c.charged = [d.charged EXCEPT ![k] = @ - 1]
        /\ c.expire = d.expire /\ c.expireCharged = d.expireCharged
    BY <1>1, <2>3 DEF DbType
  <2> HIDE DEF c
  <2>5. /\ ~Exists(c, k)
        /\ \A j \in Keys \ {k} : Exists(c, j) <=> Exists(d, j)
        /\ \A j \in Keys : TTL(c, j) = TTL(d, j)
    BY <2>4, <1>1 DEF Exists, TTL
  <2>6. ASSUME NEW j \in Keys
        PROVE  c.charged[j] = One(Exists(c, j)) /\ c.expireCharged[j] = One(TTL(c, j) # Missing)
    <3>1. c.expireCharged[j] = One(TTL(c, j) # Missing)
      BY <2>4, <2>5 DEF DbGood
    <3>2. CASE j = k
      BY <3>1, <3>2, <2>2, <2>4, <2>5, <1>1 DEF One
    <3>3. CASE j # k
      BY <3>1, <3>3, <2>4, <2>5, <1>1 DEF DbGood, One
    <3> QED BY <3>2, <3>3
  <2>7. TTLs(c.expire)
    BY <2>4 DEF DbGood
  <2>8. /\ e \in DbType /\ TTLs(e.expire) /\ e.dict = c.dict /\ e.count = c.count
        /\ e.charged = c.charged
        /\ \A j \in Keys : TTL(e, j) = IF j = k THEN Missing ELSE TTL(c, j)
        /\ \A j \in Keys : e.expireCharged[j] = One(TTL(e, j) # Missing)
    <3>1. \A j \in Keys : c.expireCharged[j] = One(TTL(c, j) # Missing)
      BY <2>6
    <3>2. c \in DbType
      BY <2>4
    <3> QED BY <3>1, <3>2, <2>1, <2>7, TTLDropped
  <2>9. ~Exists(e, k) /\ \A j \in Keys \ {k} : Exists(e, j) <=> Exists(d, j)
    BY <2>5, <2>8 DEF Exists
  <2>10. IsFiniteSet(Present(e)) /\ Cardinality(Present(e)) <= e.count
    <3>1. Present(e) \in SUBSET Present(d)
      BY <2>9 DEF Present
    <3>2. IsFiniteSet(Present(d)) /\ Cardinality(Present(d)) <= d.count
      BY DEF DbGood
    <3>3. /\ IsFiniteSet(Present(e)) /\ Cardinality(Present(e)) <= Cardinality(Present(d))
          /\ Cardinality(Present(e)) \in Nat /\ Cardinality(Present(d)) \in Nat
      BY <3>1, <3>2, FS_Subset, FS_CardinalityType
    <3> QED BY <3>2, <3>3, <2>4, <2>8, <1>1
  <2>11. \A j \in Keys : e.charged[j] = One(Exists(e, j))
    BY <2>6, <2>8 DEF Exists
  <2> QED BY <2>4, <2>5, <2>8, <2>9, <2>10, <2>11 DEF DbGood
<1> QED BY <1>2, <1>3

-----------------------------------------------------------------------------
(***************************************************************************)
(* The parser of SET's arguments.  What it has made of the first j of them *)
(* is upTo[j], for a function that exists by induction on j: LeastNumber.  *)
(***************************************************************************)
IsParse(args, n, f) ==
  f = [j \in 0..n |-> IF j = 0 THEN NothingParsed ELSE ParseArgument(args, f[j - 1], j)]

\* The recursion of the loop over the arguments has a solution.
LEMMA ParseExists ==
  ASSUME NEW args, NEW n \in Nat
  PROVE  \E f : IsParse(args, n, f)
<1> DEFINE S == {m \in Nat : ~ \E f : IsParse(args, m, f)}
<1> SUFFICES ASSUME S # {} PROVE FALSE
  OBVIOUS
<1>1. PICK m \in S : \A i \in S : m <= i
  BY LeastNumber
<1>2. m # 0
  <2>1. IsParse(args, 0, [j \in 0..0 |-> NothingParsed])
    BY DEF IsParse
  <2> QED BY <2>1
<1>3. m - 1 \in Nat /\ m - 1 \notin S
  BY <1>1, <1>2
<1>4. PICK f : IsParse(args, m - 1, f)
  BY <1>3
<1> DEFINE g == [j \in 0..m |-> IF j = m THEN ParseArgument(args, f[m - 1], m) ELSE f[j]]
<1>5. \A j \in 0..(m - 1) :
        f[j] = IF j = 0 THEN NothingParsed ELSE ParseArgument(args, f[j - 1], j)
  BY <1>4 DEF IsParse
<1>6. \A j \in 0..m :
        g[j] = IF j = 0 THEN NothingParsed ELSE ParseArgument(args, g[j - 1], j)
  <2> SUFFICES ASSUME NEW j \in 0..m
               PROVE  g[j] = IF j = 0 THEN NothingParsed ELSE ParseArgument(args, g[j - 1], j)
    OBVIOUS
  <2>1. CASE j = m
    <3>1. g[m] = ParseArgument(args, f[m - 1], m) /\ g[m - 1] = f[m - 1]
      BY <1>3, <1>2
    <3> QED BY <3>1, <2>1, <1>2
  <2>2. CASE j # m
    <3>1. j \in 0..(m - 1) /\ g[j] = f[j] /\ (j # 0 => g[j - 1] = f[j - 1])
      BY <2>2, <1>3
    <3> QED BY <3>1, <1>5
  <2> QED BY <2>1, <2>2
<1>7. IsParse(args, m, g)
  <2>1. g = [j \in 0..m |-> g[j]]
    OBVIOUS
  <2> HIDE DEF g
  <2> QED BY <1>6, <2>1 DEF IsParse
<1> QED BY <1>1, <1>7

LEMMA ParseUnfolds ==
  ASSUME NEW args, Len(args) \in Nat
  PROVE  \E f : IsParse(args, Len(args), f) /\ Parse(args) = f[Len(args)]
<1> DEFINE g == CHOOSE f : IsParse(args, Len(args), f)
<1>1. IsParse(args, Len(args), g)
  BY ParseExists
<1>2. Parse(args) = g[Len(args)]
  BY DEF Parse, IsParse
<1> QED BY <1>1, <1>2

AllOptions == {"NX", "XX", "GET", "KEEPTTL"} \cup TimeOptions

\* What the parser has made of arguments from a set A: at most one time option,
\* and no KEEPTTL beside it; a time exactly if there is such an option, in its
\* unit; and an error message if it gives up.
ParsedOK(A, p) ==
  /\ p \in [flags : SUBSET AllOptions, expire : A \cup {NoArgument}, unit : {"s", "ms"},
            ok : BOOLEAN, skip : BOOLEAN, returned : BOOLEAN,
            reply : {<<>>, <<"syntaxErr">>}]
  /\ \A a, b \in p.flags \cap TimeOptions : a = b
  /\ "KEEPTTL" \in p.flags => p.flags \cap TimeOptions = {}
  /\ p.expire # NoArgument <=> p.flags \cap TimeOptions # {}
  /\ p.unit = "ms" <=> p.flags \cap {"PX", "PXAT"} # {}
  /\ ~p.ok => p.reply = <<"syntaxErr">>

\* One pass of the loop.
LEMMA ParseArgumentOK ==
  ASSUME NEW A, NoArgument \notin A, NEW args \in Seq(A), NEW j \in 1..Len(args),
         NEW p, ParsedOK(A, p)
  PROVE  ParsedOK(A, ParseArgument(args, p, j))
<1> DEFINE opt == args[j].text
           q   == ParseArgument(args, p, j)
<1>1. p \in [flags : SUBSET AllOptions, expire : A \cup {NoArgument}, unit : {"s", "ms"},
             ok : BOOLEAN, skip : BOOLEAN, returned : BOOLEAN,
             reply : {<<>>, <<"syntaxErr">>}]
  BY DEF ParsedOK
<1>2. CASE p.returned
  BY <1>2 DEF ParseArgument
<1>3. CASE ~p.returned /\ p.skip
  <2>1. q = [p EXCEPT !.skip = FALSE]
    BY <1>3 DEF ParseArgument
  <2> QED BY <2>1, <1>1 DEF ParsedOK
<1>4. CASE ~p.returned /\ ~p.skip /\ ~IsText(args[j])
  <2>1. q = [p EXCEPT !.ok = FALSE, !.returned = TRUE, !.reply = <<"syntaxErr">>]
    BY <1>4 DEF ParseArgument
  <2> QED BY <2>1, <1>1 DEF ParsedOK
<1>5. CASE ~p.returned /\ ~p.skip /\ IsText(args[j]) /\ ~Accepted(opt, p.flags, j < Len(args))
  <2>1. q = [p EXCEPT !.ok = TRUE, !.returned = TRUE, !.reply = <<"syntaxErr">>]
    BY <1>5 DEF ParseArgument
  <2> QED BY <2>1, <1>1 DEF ParsedOK
<1>6. CASE ~p.returned /\ ~p.skip /\ IsText(args[j]) /\ Accepted(opt, p.flags, j < Len(args))
  <2>1. /\ opt \in AllOptions /\ Excludes(opt) \cap p.flags = {}
        /\ opt \in TimeOptions => j < Len(args)
    BY <1>6 DEF Accepted, AllOptions
  <2>2. CASE opt \in TimeOptions
    <3>1. /\ args[j + 1] \in A /\ args[j + 1] # NoArgument
      BY <2>1, <2>2
    <3>2. Excludes(opt) = {"KEEPTTL"} \cup (TimeOptions \ {opt})
      BY <2>2 DEF Excludes, TimeOptions
    <3>3. /\ "KEEPTTL" \notin p.flags /\ p.flags \cap TimeOptions \subseteq {opt}
      BY <2>1, <3>2
    <3>4. q = [p EXCEPT !.ok = TRUE, !.flags = @ \cup {opt}, !.expire = args[j + 1],
                        !.skip = TRUE,
                        !.unit = IF opt \in {"PX", "PXAT"} THEN "ms" ELSE @]
      BY <1>6, <2>2 DEF ParseArgument
    <3> HIDE DEF opt
    <3>5. /\ q.flags = p.flags \cup {opt} /\ q.expire = args[j + 1]
          /\ q.unit = IF opt \in {"PX", "PXAT"} THEN "ms" ELSE p.unit
          /\ q.ok = TRUE /\ q.reply = p.reply
          /\ q \in [flags : SUBSET AllOptions, expire : A \cup {NoArgument}, unit : {"s", "ms"},
                    ok : BOOLEAN, skip : BOOLEAN, returned : BOOLEAN,
                    reply : {<<>>, <<"syntaxErr">>}]
      <4>1. p.flags \cup {opt} \in SUBSET AllOptions
        BY <1>1, <2>1
      <4> HIDE DEF q
      <4> QED BY <4>1, <3>1, <3>4, <1>1
    <3> HIDE DEF q
    <3>6. p.unit = "ms" <=> p.flags \cap {"PX", "PXAT"} # {}
      BY DEF ParsedOK
    <3>7. q.unit = "ms" <=> q.flags \cap {"PX", "PXAT"} # {}
      BY <3>5, <3>6
    <3>8. q.flags \cap TimeOptions = {opt} /\ "KEEPTTL" \notin q.flags
      BY <3>3, <3>5, <2>2 DEF TimeOptions
    <3>9. ParsedOK(A, q)
      BY <3>1, <3>5, <3>7, <3>8 DEF ParsedOK
    <3> QED BY <3>9 DEF q
  <2>3. CASE opt \notin TimeOptions
    <3>1. q = [p EXCEPT !.ok = TRUE, !.flags = @ \cup {opt}]
      BY <1>6, <2>3 DEF ParseArgument
    <3>2. opt = "KEEPTTL" => p.flags \cap TimeOptions = {}
      BY <2>1 DEF Excludes
    <3> HIDE DEF opt
    <3>3. /\ q.flags = p.flags \cup {opt} /\ q.expire = p.expire /\ q.unit = p.unit
          /\ q.ok = TRUE /\ q.reply = p.reply
          /\ q \in [flags : SUBSET AllOptions, expire : A \cup {NoArgument}, unit : {"s", "ms"},
                    ok : BOOLEAN, skip : BOOLEAN, returned : BOOLEAN,
                    reply : {<<>>, <<"syntaxErr">>}]
      <4>1. p.flags \cup {opt} \in SUBSET AllOptions
        BY <1>1, <2>1
      <4> HIDE DEF q
      <4> QED BY <4>1, <3>1, <1>1
    <3>4. q.flags \cap TimeOptions = p.flags \cap TimeOptions
      BY <2>3, <3>3
    <3>5. q.flags \cap {"PX", "PXAT"} = p.flags \cap {"PX", "PXAT"}
      BY <2>3, <3>3 DEF TimeOptions
    <3>6. "KEEPTTL" \in q.flags => p.flags \cap TimeOptions = {}
      BY <3>2, <3>3 DEF ParsedOK
    <3> HIDE DEF q
    <3>7. \A a, b \in q.flags \cap TimeOptions : a = b
      BY <3>4 DEF ParsedOK
    <3>8. q.expire # NoArgument <=> q.flags \cap TimeOptions # {}
      BY <3>3, <3>4 DEF ParsedOK
    <3>9. q.unit = "ms" <=> q.flags \cap {"PX", "PXAT"} # {}
      BY <3>3, <3>5 DEF ParsedOK
    <3>10. "KEEPTTL" \in q.flags => q.flags \cap TimeOptions = {}
      BY <3>4, <3>6
    <3>11. ParsedOK(A, q)
      BY <3>3, <3>7, <3>8, <3>9, <3>10 DEF ParsedOK
    <3> QED BY <3>11 DEF q
  <2> QED BY <2>2, <2>3
<1> QED BY <1>2, <1>3, <1>4, <1>5, <1>6

\* All of the loop.
LEMMA ParseOK ==
  ASSUME NEW A, NoArgument \notin A, NEW args \in Seq(A)
  PROVE  ParsedOK(A, Parse(args))
<1>1. PICK f : IsParse(args, Len(args), f) /\ Parse(args) = f[Len(args)]
  BY ParseUnfolds
<1>2. \A j \in 0..Len(args) :
        f[j] = IF j = 0 THEN NothingParsed ELSE ParseArgument(args, f[j - 1], j)
  BY <1>1 DEF IsParse
<1> DEFINE S == {j \in 0..Len(args) : ~ParsedOK(A, f[j])}
<1>3. S = {}
  <2> SUFFICES ASSUME S # {} PROVE FALSE
    OBVIOUS
  <2>0. S \subseteq Nat
    OBVIOUS
  <2>1. PICK j \in S : \A i \in S : j <= i
    <3> HIDE DEF S
    <3> QED BY <2>0, LeastNumber
  <2>2. ParsedOK(A, NothingParsed)
    BY DEF ParsedOK, NothingParsed
  <2>3. j # 0
    BY <2>1, <2>2, <1>2
  <2>4. j \in 1..Len(args) /\ j - 1 \in 0..Len(args) /\ j - 1 \notin S
    BY <2>1, <2>3
  <2>5. ParsedOK(A, f[j - 1]) /\ f[j] = ParseArgument(args, f[j - 1], j)
    BY <2>3, <2>4, <1>2
  <2>6. ParsedOK(A, f[j])
    BY <2>4, <2>5, ParseArgumentOK
  <2> QED BY <2>6
<1> QED BY <1>1, <1>3

\* The argument lists of StrCmd.
LEMMA ListsAreSequences ==
  ASSUME NEW S, NEW max, NEW s \in Lists(S, max)
  PROVE  s \in Seq(S)
BY DEF Lists

-----------------------------------------------------------------------------
(***************************************************************************)
(* The commands.                                                           *)
(***************************************************************************)
\* The limits of getExpireMillisecondsOrReply are right: no accepted time
\* overflows when it is converted.
LEMMA ValidTimesFit ==
  ASSUME NEW n \in Nat, NEW unit \in {"s", "ms"}, TimeIsValid(n, unit)
  PROVE  Milliseconds(n, unit) \in 1..MaxInt64
<1>1. CASE unit = "s"
  <2>1. n \in Nat \ {0} /\ n <= MaxSeconds
    BY <1>1 DEF TimeIsValid
  <2>2. n * Thousand <= MaxSeconds * Thousand
    BY <2>1, LimitsAssumption
  <2>3. n * Thousand \in Nat \ {0}
    BY <2>1, LimitsAssumption
  <2> QED BY <1>1, <2>2, <2>3, LimitsAssumption DEF Milliseconds
<1>2. CASE unit = "ms"
  BY <1>2, LimitsAssumption DEF TimeIsValid, Milliseconds
<1> QED BY <1>1, <1>2

\* SetKey, then SetExpire.
LEMMA WrittenGood ==
  ASSUME NEW d, DbGood(d), NEW flags, NEW k \in Keys, NEW v \in Values, NEW expire, NEW ms,
         expire # NoArgument => "KEEPTTL" \notin flags /\ ms \in 1..MaxInt64,
         NEW e, e = Written(d, flags, k, v, expire, ms)
  PROVE  /\ DbGood(e) /\ e.dict = [d.dict EXCEPT ![k] = v]
         /\ \A j \in Keys : TTL(e, j) = IF j = k /\ expire # NoArgument THEN ms ELSE TTL(d, j)
<1> DEFINE set == SetKeyFlags(flags, expire # NoArgument, Exists(d, k))
           a   == IF Exists(d, k) THEN SetValue(d, k, v) ELSE Add(d, k, v)
           b   == SetKey(d, k, v, set)
<1>1. KeyFound(d, k, set) <=> Exists(d, k)
  BY DEF KeyFound, SetKeyFlags
<1>2. "KeepTTL" \in set <=> "KEEPTTL" \in flags \/ expire = NoArgument
  BY DEF SetKeyFlags
<1>3. b = IF "KeepTTL" \in set THEN a ELSE RmExpire(a, k)
  BY <1>1 DEF SetKey
<1>4. /\ DbGood(a) /\ Exists(a, k) /\ a.dict = [d.dict EXCEPT ![k] = v] /\ a.expire = d.expire
  BY KeyWritten
<1>5. \A j \in Keys : TTL(a, j) = TTL(d, j)
  BY <1>4 DEF TTL
<1>6. e = IF expire # NoArgument THEN SetExpire(b, k, ms) ELSE b
  BY DEF Written
<1> HIDE DEF set, a, b
<1>7. CASE expire = NoArgument
  BY <1>2, <1>3, <1>4, <1>5, <1>6, <1>7
<1>8. CASE expire # NoArgument
  <2>1. b = RmExpire(a, k) /\ e = SetExpire(b, k, ms) /\ ms \in 1..MaxInt64
    BY <1>2, <1>3, <1>6, <1>8
  <2>2. /\ DbGood(b) /\ b.dict = a.dict
        /\ \A j \in Keys : TTL(b, j) = IF j = k THEN Missing ELSE TTL(a, j)
    BY <2>1, <1>4, TTLForgotten
  <2>3. Exists(b, k)
    BY <2>2, <1>4 DEF Exists
  <2>4. /\ DbGood(e) /\ e.dict = b.dict
        /\ \A j \in Keys : TTL(e, j) = IF j = k THEN ms ELSE TTL(b, j)
    BY <2>1, <2>2, <2>3, TTLGiven
  <2> QED BY <2>2, <2>4, <1>4, <1>5, <1>8
<1> QED BY <1>7, <1>8

\* The TTL that is asked for.
Asked(expire, unit) == Milliseconds(GetLongLong(expire), unit)

\* What a command asks of setGenericCommand.
Sound(flags, expire, unit) ==
  /\ unit \in {"s", "ms"}
  /\ expire # NoArgument => "KEEPTTL" \notin flags /\ GetLongLong(expire) \in Nat

\* setGenericCommand fails and changes nothing, or does what it was asked for.
Effect(r, flags, k, v, expire, unit) ==
  \/ r.db = db /\ r.reply = <<"expireErr">>
  \/ r.db = db /\ r.reply = Unless(flags, "null")
  \/ /\ r.reply = Unless(flags, "OK")
     /\ DbGood(r.db) /\ LookupKey(r.db, k) = v
     /\ expire # NoArgument => Asked(expire, unit) \in 1..MaxInt64
     /\ \A j \in Keys : TTL(r.db, j) = IF j = k /\ expire # NoArgument
                                       THEN Asked(expire, unit) ELSE TTL(db, j)

LEMMA SetGenericDoes ==
  ASSUME DbGood(db), NEW flags, NEW k \in Keys, NEW v \in Values, NEW expire, NEW unit,
         Sound(flags, expire, unit), NEW r, r = SetGeneric(flags, k, v, expire, unit)
  PROVE  Effect(r, flags, k, v, expire, unit)
<1> DEFINE n  == GetLongLong(expire)
           ms == Milliseconds(n, unit)
           e  == Written(db, flags, k, v, expire, ms)
<1>1. CASE expire # NoArgument /\ ~TimeIsValid(n, unit)
  BY <1>1 DEF SetGeneric, Effect
<1>2. CASE ~(expire # NoArgument /\ ~TimeIsValid(n, unit)) /\ Refused(flags, Exists(db, k))
  BY <1>2 DEF SetGeneric, Effect
<1>3. CASE ~(expire # NoArgument /\ ~TimeIsValid(n, unit)) /\ ~Refused(flags, Exists(db, k))
  <2>1. r.db = e /\ r.reply = Unless(flags, "OK")
    BY <1>3 DEF SetGeneric
  <2>2. expire # NoArgument => "KEEPTTL" \notin flags /\ ms \in 1..MaxInt64
    BY <1>3, ValidTimesFit DEF Sound
  <2>4. ms = Asked(expire, unit)
    BY DEF Asked
  <2> HIDE DEF ms
  <2>3. /\ DbGood(e) /\ e.dict = [db.dict EXCEPT ![k] = v]
        /\ \A j \in Keys : TTL(e, j) = IF j = k /\ expire # NoArgument THEN ms ELSE TTL(db, j)
    <3>1. e = Written(db, flags, k, v, expire, ms)
      OBVIOUS
    <3> HIDE DEF e
    <3> QED BY <2>2, <3>1, WrittenGood
  <2> HIDE DEF e
  <2>5. LookupKey(e, k) = v
    BY <2>3 DEF LookupKey, DbGood, DbType
  <2> QED BY <2>1, <2>2, <2>3, <2>4, <2>5 DEF Effect
<1> QED BY <1>1, <1>2, <1>3

\* What the callers pass is sound.
LEMMA CallsAreSound ==
  /\ Sound({"NX"}, NoArgument, "s")
  /\ \A time \in Arguments : Sound({"EX"}, time, "s") /\ Sound({"PX"}, time, "ms")
  /\ \A p \in Parses : Sound(p.flags, p.expire, p.unit) /\ ParsedOK(Arguments, p)
  /\ \A p \in Parsed : Sound(p.flags, p.expire, p.unit)
<1>1. \A o \in Arguments \cup Options : GetLongLong(o) \in Nat /\ o # NoArgument
  BY ArgumentsAssumption DEF GetLongLong
<1>2. ASSUME NEW A \in SUBSET (Arguments \cup Options), NEW p, ParsedOK(A, p)
      PROVE  Sound(p.flags, p.expire, p.unit)
  <2>1. /\ p.expire \in A \cup {NoArgument} /\ p.unit \in {"s", "ms"}
        /\ p.expire # NoArgument => "KEEPTTL" \notin p.flags
    BY <1>2 DEF ParsedOK
  <2> QED BY <2>1, <1>1 DEF Sound
<1>3. ASSUME NEW p \in Parses PROVE ParsedOK(Arguments, p)
  <2>1. PICK args \in Lists(Arguments, MaxArguments) : p = Parse(args)
    BY DEF Parses
  <2>2. args \in Seq(Arguments)
    BY ListsAreSequences
  <2> QED BY <2>1, <2>2, <1>1, ParseOK
<1>4. ASSUME NEW p \in Parsed PROVE Sound(p.flags, p.expire, p.unit)
  <2>1. PICK args \in Lists(Options, MaxOptions) :
          p = [flags |-> Parse(args).flags, expire |-> Parse(args).expire,
               unit |-> Parse(args).unit]
    BY DEF Parsed
  <2>2. ParsedOK(Options, Parse(args))
    BY <1>1, ListsAreSequences, ParseOK
  <2>3. Sound(Parse(args).flags, Parse(args).expire, Parse(args).unit)
    BY <2>2, <1>2
  <2> QED BY <2>1, <2>3
<1>5. Sound({"NX"}, NoArgument, "s")
  BY DEF Sound
<1>6. \A time \in Arguments : Sound({"EX"}, time, "s") /\ Sound({"PX"}, time, "ms")
  BY <1>1 DEF Sound
<1> QED BY <1>2, <1>3, <1>4, <1>5, <1>6

-----------------------------------------------------------------------------
(***************************************************************************)
(* The theorems.                                                           *)
(***************************************************************************)
Answers == {"syntaxErr", "expireErr", "null", "OK", "value"}

Inv == DbGood(db) /\ reply \in Seq(Answers)

\* A step that a map of TTLs can make: none, a new TTL for one key, or its end.
TTLStep(d, e) ==
  \/ \A j \in Keys : TTL(e, j) = TTL(d, j)
  \/ \E k \in Keys, ms \in Times : \A j \in Keys : TTL(e, j) = IF j = k THEN ms ELSE TTL(d, j)
  \/ \E k \in Keys : \A j \in Keys : TTL(e, j) = IF j = k THEN Missing ELSE TTL(d, j)

\* DbGood speaks of one state at a time.
LEMMA NextGood == DbGood(db') => DbGood(db)'
BY DEF DbGood, DbType, Present, Exists, TTL, One, TTLs,
       Table!Good, Table!Unique, Table!Booked, Table!PassedEmpty, Table!Counted,
       Table!Rehashing, Table!TableType, Table!NoEntries, Table!Hash,
       Expire!TableType, Expire!Get, Expire!Rehashing

LEMMA InitGood == Init => Inv /\ \A k \in Keys : TTL(db, k) = Missing
<1> SUFFICES ASSUME Init PROVE Inv /\ \A k \in Keys : TTL(db, k) = Missing
  OBVIOUS
<1>1. db = [dict |-> [k \in Keys |-> Missing], count |-> 0,
            expire |-> Expire!NewHashTable(InitSize), charged |-> [k \in Keys |-> 0],
            expireCharged |-> [k \in Keys |-> 0]]
  BY DEF Init, New
<1>2. /\ TTLs(Expire!NewHashTable(InitSize))
      /\ \A k \in Keys : Expire!Get(Expire!NewHashTable(InitSize), k) = Missing
  BY NoTTLs
<1>3. TTLs(db.expire) /\ \A k \in Keys : TTL(db, k) = Missing
  BY <1>1, <1>2 DEF TTL
<1>4. Expire!NewHashTable(InitSize) \in Expire!TableType
  BY <1>2, SameTable DEF TTLs, Table!Good
<1>5. db \in DbType
  BY <1>1, <1>4 DEF DbType
<1>6. \A k \in Keys : ~Exists(db, k)
  BY <1>1 DEF Exists
<1>7. Present(db) = {}
  BY <1>6 DEF Present
<1>8. IsFiniteSet(Present(db)) /\ Cardinality(Present(db)) <= db.count
  BY <1>1, <1>7, FS_EmptySet
<1>9. \A k \in Keys : db.charged[k] = One(Exists(db, k)) /\ db.expireCharged[k] = One(TTL(db, k) # Missing)
  BY <1>1, <1>3, <1>6 DEF One
<1>10. reply \in Seq(Answers)
  BY DEF Init
<1> QED BY <1>3, <1>5, <1>6, <1>8, <1>9, <1>10 DEF DbGood, Inv

\* What setGenericCommand leaves is a good database.
LEMMA SetToGood ==
  ASSUME Inv, NEW flags, NEW k \in Keys, NEW v \in Values, NEW expire, NEW unit,
         Sound(flags, expire, unit), NEW r, r = SetGeneric(flags, k, v, expire, unit)
  PROVE  /\ DbGood(r.db) /\ TTLStep(db, r.db)
         /\ r.reply \in {<<>>, <<"expireErr">>, <<"null">>, <<"OK">>}
         /\ r.db # db => r.reply = Unless(flags, "OK")
         /\ r.reply = <<>> => "GET" \in flags
<1>1. DbGood(db)
  BY DEF Inv
<1>2. Effect(r, flags, k, v, expire, unit)
  BY <1>1, SetGenericDoes
<1>3. DbGood(r.db)
  BY <1>1, <1>2 DEF Effect
<1>4. TTLStep(db, r.db)
  <2>1. CASE r.db = db
    BY <2>1 DEF TTLStep
  <2>2. CASE r.db # db /\ expire = NoArgument
    BY <2>2, <1>2 DEF TTLStep, Effect
  <2>3. CASE r.db # db /\ expire # NoArgument
    <3>1. PICK ms \in Times : \A j \in Keys : TTL(r.db, j) = IF j = k THEN ms ELSE TTL(db, j)
      BY <2>3, <1>2, MissingIsOther DEF Effect
    <3> QED BY <3>1 DEF TTLStep
  <2> QED BY <2>1, <2>2, <2>3
<1>5. /\ Unless(flags, "null") \in {<<>>, <<"null">>} /\ Unless(flags, "OK") \in {<<>>, <<"OK">>}
      /\ Unless(flags, "null") = <<>> => "GET" \in flags
      /\ Unless(flags, "OK") = <<>> => "GET" \in flags
      /\ <<"expireErr">> # <<>>
  BY DEF Unless
<1> QED BY <1>2, <1>3, <1>4, <1>5 DEF Effect

\* Answers of a command, one after the other.
LEMMA AnswerLists ==
  /\ <<>> \in Seq(Answers)
  /\ <<"syntaxErr">> \in Seq(Answers) /\ <<"expireErr">> \in Seq(Answers)
  /\ <<"null">> \in Seq(Answers) /\ <<"OK">> \in Seq(Answers) /\ <<"value">> \in Seq(Answers)
  /\ \A s, t \in Seq(Answers) : s \o t \in Seq(Answers)
<1>1. ASSUME NEW a \in Answers PROVE <<a>> \in Seq(Answers)
  OBVIOUS
<1>2. /\ "syntaxErr" \in Answers /\ "expireErr" \in Answers /\ "null" \in Answers
      /\ "OK" \in Answers /\ "value" \in Answers
  BY DEF Answers
<1> HIDE DEF Answers
<1> QED BY <1>1, <1>2

\* What SetTo makes of it.
LEMMA SetToKeeps ==
  ASSUME Inv, NEW flags, NEW k \in Keys, NEW v \in Values, NEW expire, NEW unit,
         Sound(flags, expire, unit), SetTo(SetGeneric(flags, k, v, expire, unit))
  PROVE  /\ DbGood(db') /\ reply' \in Seq(Answers) /\ TTLStep(db, db')
         /\ reply' \in {<<>>, <<"expireErr">>, <<"null">>, <<"OK">>}
         /\ db' # db => reply' = Unless(flags, "OK")
         /\ reply' = <<>> => "GET" \in flags
<1> DEFINE r == SetGeneric(flags, k, v, expire, unit)
<1>1. r = SetGeneric(flags, k, v, expire, unit)
  OBVIOUS
<1>2. db' = r.db /\ reply' = r.reply
  BY DEF SetTo
<1> HIDE DEF r
<1>3. /\ DbGood(r.db) /\ TTLStep(db, r.db)
      /\ r.reply \in {<<>>, <<"expireErr">>, <<"null">>, <<"OK">>}
      /\ r.db # db => r.reply = Unless(flags, "OK")
      /\ r.reply = <<>> => "GET" \in flags
  BY <1>1, SetToGood
<1>4. r.reply \in Seq(Answers)
  BY <1>3, AnswerLists
<1> QED BY <1>2, <1>3, <1>4

LEMMA EvictGood ==
  ASSUME NEW d, DbGood(d), NEW k \in Keys, NEW e, e = GenericDelete(d, k)
  PROVE  DbGood(e) /\ TTLStep(d, e)
<1>1. /\ DbGood(e) /\ ~Exists(e, k)
      /\ e.dict = [d.dict EXCEPT ![k] = Missing]
      /\ \A j \in Keys : TTL(e, j) = IF j = k THEN Missing ELSE TTL(d, j)
  BY KeyDeleted
<1> QED BY <1>1 DEF TTLStep

\* Every step keeps the invariant, and to the TTLs it is a step of a map.
LEMMA NextKeeps == Inv /\ [Next]_vars => Inv' /\ TTLStep(db, db')
<1> SUFFICES ASSUME Inv, [Next]_vars PROVE DbGood(db') /\ reply' \in Seq(Answers) /\ TTLStep(db, db')
  BY NextGood DEF Inv
<1>0. DbGood(db) /\ reply \in Seq(Answers)
  BY DEF Inv
<1>1. ASSUME UNCHANGED db PROVE DbGood(db') /\ TTLStep(db, db')
  BY <1>0, <1>1 DEF TTLStep
<1>2. ASSUME NEW k \in Keys, Get(k) PROVE DbGood(db') /\ reply' \in Seq(Answers) /\ TTLStep(db, db')
  BY <1>1, <1>2, AnswerLists DEF Get
<1>3. ASSUME NEW k \in Keys, NEW v \in Values, SetNx(k, v)
      PROVE  DbGood(db') /\ reply' \in Seq(Answers) /\ TTLStep(db, db')
  BY <1>3, SetToKeeps, CallsAreSound DEF SetNx
<1>4. ASSUME NEW k \in Keys, NEW v \in Values, NEW time \in Arguments, SetEx(k, v, time)
      PROVE  DbGood(db') /\ reply' \in Seq(Answers) /\ TTLStep(db, db')
  BY <1>4, SetToKeeps, CallsAreSound DEF SetEx
<1>5. ASSUME NEW k \in Keys, NEW v \in Values, NEW time \in Arguments, PSetEx(k, v, time)
      PROVE  DbGood(db') /\ reply' \in Seq(Answers) /\ TTLStep(db, db')
  BY <1>5, SetToKeeps, CallsAreSound DEF PSetEx
<1>6. ASSUME NEW k \in Keys, NEW v \in Values, NEW p \in Parses, Set(k, v, p)
      PROVE  DbGood(db') /\ reply' \in Seq(Answers) /\ TTLStep(db, db')
  <2>1. Sound(p.flags, p.expire, p.unit) /\ p.reply \in {<<>>, <<"syntaxErr">>}
    BY CallsAreSound DEF ParsedOK
  <2>2. CASE ~p.ok
    BY <2>1, <2>2, <1>1, <1>6, AnswerLists DEF Set
  <2>3. CASE p.ok
    <3> DEFINE r == SetGeneric(p.flags, k, v, p.expire, p.unit)
    <3>1. r = [db |-> r.db, reply |-> r.reply]
      BY DEF SetGeneric
    <3>2. DbGood(r.db) /\ TTLStep(db, r.db) /\ r.reply \in {<<>>, <<"expireErr">>, <<"null">>, <<"OK">>}
      <4>1. r = SetGeneric(p.flags, k, v, p.expire, p.unit)
        OBVIOUS
      <4> HIDE DEF r
      <4> QED BY <4>1, <2>1, SetToGood
    <3>3. db' = [r EXCEPT !.reply = p.reply \o r.reply].db
          /\ reply' = [r EXCEPT !.reply = p.reply \o r.reply].reply
      BY <1>6, <2>3 DEF Set, SetTo
    <3> HIDE DEF r
    <3>4. db' = r.db /\ reply' = p.reply \o r.reply
      BY <3>1, <3>3
    <3>5. p.reply \in Seq(Answers) /\ r.reply \in Seq(Answers)
      BY <2>1, <3>2, AnswerLists
    <3> QED BY <3>2, <3>4, <3>5, AnswerLists
  <2> QED BY <2>2, <2>3
<1>7. ASSUME NEW k \in Keys, Evict(k)
      PROVE  DbGood(db') /\ reply' \in Seq(Answers) /\ TTLStep(db, db')
  <2> DEFINE e == GenericDelete(db, k)
  <2>0. e = GenericDelete(db, k)
    OBVIOUS
  <2>1. db' = e /\ reply' = reply
    BY <1>7 DEF Evict
  <2> HIDE DEF e
  <2>2. DbGood(e) /\ TTLStep(db, e)
    BY <2>0, <1>0, EvictGood
  <2> QED BY <2>1, <2>2, <1>0
<1>8. CASE UNCHANGED vars
  BY <1>0, <1>1, <1>8 DEF vars
<1> QED BY <1>2, <1>3, <1>4, <1>5, <1>6, <1>7, <1>8 DEF Next, Command

LEMMA InvHolds == Spec => []Inv
<1>1. Inv /\ [Next]_vars => Inv'
  BY NextKeeps
<1> QED BY <1>1, InitGood, PTL DEF Spec

\* A TTL belongs to a key: in every state of every run of commands and
\* evictions (db.go:108, db.go:138).
THEOREM TTLsBelongToKeysHolds == Spec => []TTLsBelongToKeys
<1>1. Inv => TTLsBelongToKeys
  <2> SUFFICES ASSUME Inv, NEW k \in Keys, GetExpire(db, k) # Missing PROVE Exists(db, k)
    BY DEF TTLsBelongToKeys
  <2>1. DbGood(db)
    BY DEF Inv
  <2>2. TTL(db, k) # Missing
    BY <2>1, GetExpireIsTTL
  <2> QED BY <2>1, <2>2 DEF DbGood
<1> QED BY <1>1, InvHolds, PTL

\* No key has two entries in the expire table, whatever rehashing goes on: a TTL
\* that was replaced or removed never comes back (dict.go:78).
THEOREM OneTTLPerKeyHolds == Spec => []OneTTLPerKey
<1>1. Inv => OneTTLPerKey
  <2> SUFFICES ASSUME Inv, NEW k \in Keys
               PROVE  Len(db.expire.table[k]) + Len(db.expire.rehashingTbl[k]) <= 1
    BY DEF OneTTLPerKey, Expire!OneEntryPerKey
  <2>1. TTLs(db.expire)
    BY DEF Inv, DbGood
  <2> DEFINE m == Len(db.expire.table[k])
             n == Len(db.expire.rehashingTbl[k])
  <2>2. m \in Nat /\ n \in Nat /\ m + n \in {0, 1}
    BY <2>1, EntriesCounted
  <2> HIDE DEF m, n
  <2>3. m + n <= 1
    BY <2>2
  <2> QED BY <2>3 DEF m, n
<1> QED BY <1>1, InvHolds, PTL

\* The memory charged for the expire table is its entries, through any number of its
\* rehashes: neither of the two ways dict.go has to charge an overwrite
\* (dict.go:87, dict.go:114) is met.
THEOREM TTLsAreChargedOnceHolds == Spec => []TTLsAreChargedOnce
<1>1. Inv => TTLsAreChargedOnce
  <2> SUFFICES ASSUME Inv, NEW k \in Keys
               PROVE  db.expireCharged[k] = Len(db.expire.table[k]) + Len(db.expire.rehashingTbl[k])
    BY DEF TTLsAreChargedOnce
  <2>1. TTLs(db.expire) /\ db.expireCharged[k] = One(TTL(db, k) # Missing)
    BY DEF Inv, DbGood
  <2> DEFINE m == Len(db.expire.table[k])
             n == Len(db.expire.rehashingTbl[k])
  <2>2. m \in Nat /\ n \in Nat /\ m + n \in {0, 1} /\ (m + n = 1 <=> TTL(db, k) # Missing)
    BY <2>1, EntriesCounted DEF TTL
  <2> HIDE DEF m, n
  <2>3. db.expireCharged[k] = m + n
    BY <2>1, <2>2 DEF One
  <2> QED BY <2>3 DEF m, n
<1> QED BY <1>1, InvHolds, PTL

\* The state has its type and a stored TTL fits an int64: what is accepted at
\* strcmd.go:274 does not overflow at strcmd.go:280.
THEOREM TTLsFitInt64Holds == Spec => []TTLsFitInt64
<1>1. Inv => TTLsFitInt64
  <2> SUFFICES ASSUME Inv PROVE TTLsFitInt64
    OBVIOUS
  <2>1. DbGood(db) /\ reply \in Seq(Answers)
    BY DEF Inv
  <2>2. DbTypeOK
    BY <2>1 DEF DbGood, DbType, DbTypeOK, Present
  <2>3. TypeOK
    BY <2>1, <2>2 DEF TypeOK, Answers
  <2>4. ASSUME NEW k \in Keys, GetExpire(db, k) # Missing
        PROVE  GetExpire(db, k) \in 1..MaxInt64
    <3>1. GetExpire(db, k) = TTL(db, k)
      BY <2>1, GetExpireIsTTL
    <3>2. TTL(db, k) \in 1..MaxInt64 \cup {Missing}
      BY <2>1 DEF DbGood
    <3> QED BY <2>4, <3>1, <3>2
  <2> QED BY <2>3, <2>4 DEF TTLsFitInt64
<1> QED BY <1>1, InvHolds, PTL

\* What the parser makes of the options of CommandsTakeEffect.
LEMMA ParsedAgrees ==
  ASSUME NEW p \in Parsed
  PROVE  /\ p.flags \cap {"EX", "EXAT"} # {} => p.expire # NoArgument /\ p.unit = "s"
         /\ p.flags \cap {"PX", "PXAT"} # {} => p.expire # NoArgument /\ p.unit = "ms"
         /\ "KEEPTTL" \in p.flags => p.expire = NoArgument
<1>1. PICK args \in Lists(Options, MaxOptions) :
        p = [flags |-> Parse(args).flags, expire |-> Parse(args).expire,
             unit |-> Parse(args).unit]
  BY DEF Parsed
<1>2. ParsedOK(Options, Parse(args))
  BY ArgumentsAssumption, ListsAreSequences, ParseOK
<1>3. PICK q : ParsedOK(Options, q) /\ p.flags = q.flags /\ p.expire = q.expire /\ p.unit = q.unit
  BY <1>1, <1>2
<1>4. /\ \A a, b \in q.flags \cap TimeOptions : a = b
      /\ "KEEPTTL" \in q.flags => q.flags \cap TimeOptions = {}
      /\ q.expire # NoArgument <=> q.flags \cap TimeOptions # {}
      /\ q.unit = "ms" <=> q.flags \cap {"PX", "PXAT"} # {}
      /\ q.unit \in {"s", "ms"}
  BY <1>3 DEF ParsedOK
<1>5. q.flags \cap {"EX", "EXAT"} # {} => q.expire # NoArgument /\ q.unit = "s"
  BY <1>4 DEF TimeOptions
<1>6. q.flags \cap {"PX", "PXAT"} # {} => q.expire # NoArgument /\ q.unit = "ms"
  BY <1>4 DEF TimeOptions
<1>7. "KEEPTTL" \in q.flags => q.expire = NoArgument
  BY <1>4
<1> QED BY <1>3, <1>5, <1>6, <1>7

\* A SET that is answered OK has set what was asked for, whatever its options and
\* their order (strcmd.go:96 to 258), in every reachable database.
THEOREM CommandsTakeEffectHolds == Spec => []CommandsTakeEffect
<1>1. Inv => CommandsTakeEffect
  <2> SUFFICES ASSUME Inv, NEW k \in Keys, NEW v \in Values, NEW p \in Parsed,
                      SetGeneric(p.flags, k, v, p.expire, p.unit).reply = <<"OK">>
               PROVE  LET r == SetGeneric(p.flags, k, v, p.expire, p.unit)
                          n == GetLongLong(p.expire)
                      IN /\ LookupKey(r.db, k) = v
                         /\ p.flags \cap {"EX", "EXAT"} # {} => GetExpire(r.db, k) = n * Thousand
                         /\ p.flags \cap {"PX", "PXAT"} # {} => GetExpire(r.db, k) = n
                         /\ "KEEPTTL" \in p.flags => GetExpire(r.db, k) = GetExpire(db, k)
    BY DEF CommandsTakeEffect
  <2> DEFINE r == SetGeneric(p.flags, k, v, p.expire, p.unit)
  <2>1. r = SetGeneric(p.flags, k, v, p.expire, p.unit) /\ r.reply = <<"OK">>
    OBVIOUS
  <2> HIDE DEF r
  <2>2. DbGood(db)
    BY DEF Inv
  <2>3. Sound(p.flags, p.expire, p.unit)
    BY CallsAreSound
  <2>4. Effect(r, p.flags, k, v, p.expire, p.unit)
    BY <2>1, <2>2, <2>3, SetGenericDoes
  <2>5. <<"expireErr">> # <<"OK">> /\ Unless(p.flags, "null") # <<"OK">>
    BY DEF Unless
  <2>6. /\ DbGood(r.db) /\ LookupKey(r.db, k) = v
        /\ TTL(r.db, k) = IF p.expire # NoArgument THEN Asked(p.expire, p.unit) ELSE TTL(db, k)
    BY <2>1, <2>4, <2>5 DEF Effect
  <2>7. GetExpire(r.db, k) = TTL(r.db, k) /\ GetExpire(db, k) = TTL(db, k)
    BY <2>2, <2>6, GetExpireIsTTL
  <2>8. /\ p.unit = "s" => Asked(p.expire, p.unit) = GetLongLong(p.expire) * Thousand
        /\ p.unit = "ms" => Asked(p.expire, p.unit) = GetLongLong(p.expire)
    BY DEF Asked, Milliseconds
  <2>9. /\ p.flags \cap {"EX", "EXAT"} # {} => GetExpire(r.db, k) = GetLongLong(p.expire) * Thousand
        /\ p.flags \cap {"PX", "PXAT"} # {} => GetExpire(r.db, k) = GetLongLong(p.expire)
        /\ "KEEPTTL" \in p.flags => GetExpire(r.db, k) = GetExpire(db, k)
    BY <2>6, <2>7, <2>8, ParsedAgrees
  <2> QED BY <2>6, <2>9 DEF r
<1> QED BY <1>1, InvHolds, PTL

\* To the commands the TTLs are a map from keys to times: every command and every
\* eviction changes the TTL of one key at most, and rehash steps of the expire
\* table (dict.go:180) change none.
THEOREM TTLsAreAMapHolds == Spec => TTLsAreAMap
<1> DEFINE seen == [k \in Keys |-> Expire!Get(db.expire, k)]
<1>1. Init => Expire!Map!Init
  BY InitGood DEF Expire!Map!Init, TTL
<1>2. Inv /\ [Next]_vars => [Expire!Map!Next]_seen
  <2> SUFFICES ASSUME Inv, [Next]_vars PROVE Expire!Map!Next \/ seen' = seen
    OBVIOUS
  <2>1. TTLStep(db, db')
    BY NextKeeps
  <2>2. \/ \A j \in Keys : seen'[j] = seen[j]
        \/ \E k \in Keys, ms \in Times : \A j \in Keys : seen'[j] = IF j = k THEN ms ELSE seen[j]
        \/ \E k \in Keys : \A j \in Keys : seen'[j] = IF j = k THEN Missing ELSE seen[j]
    BY <2>1 DEF TTLStep, TTL
  <2>3. seen = [j \in Keys |-> seen[j]] /\ seen' = [j \in Keys |-> seen'[j]]
    OBVIOUS
  <2> QED BY <2>2, <2>3 DEF Expire!Map!Next, Expire!Map!Put, Expire!Map!Remove
<1> QED BY <1>1, <1>2, InvHolds, PTL DEF Spec, TTLsAreAMap, Expire!ImplementsMap, Expire!Map!Spec

\* The answers of LastAnswerIsTrue's first case: a syntax error or none, then
\* one answer more.
LEMMA AnswersEnd ==
  ASSUME NEW a, NEW b \in {<<>>, <<"syntaxErr">>}
  PROVE  /\ b \o <<a>> # <<>> /\ Last(b \o <<a>>) = a
         /\ Len(b \o <<a>>) > 1 => Front(b \o <<a>>) = <<"syntaxErr">>
<1>1. CASE b = <<>>
  <2>1. b \o <<a>> = <<a>>
    BY <1>1
  <2> QED BY <2>1 DEF Last, Front
<1>2. CASE b = <<"syntaxErr">>
  <2> DEFINE S == {a, "syntaxErr"}
             s == b \o <<a>>
  <2>1. b \in Seq(S) /\ <<a>> \in Seq(S) /\ Len(b) = 1 /\ Len(<<a>>) = 1
        /\ b[1] = "syntaxErr" /\ <<a>>[1] = a
    BY <1>2
  <2>2. s \in Seq(S) /\ Len(s) = 2 /\ s[1] = "syntaxErr" /\ s[2] = a
    <3> DEFINE c == <<a>>
    <3>0. s = b \o c /\ c \in Seq(S) /\ Len(c) = 1 /\ c[1] = a
      BY <2>1
    <3> HIDE DEF c, s, S
    <3>1. /\ s \in Seq(S) /\ Len(s) = Len(b) + Len(c)
          /\ \A i \in 1..Len(b) + Len(c) : s[i] = IF i <= Len(b) THEN b[i] ELSE c[i - Len(b)]
      BY <3>0, <2>1, ConcatProperties
    <3> QED BY <3>0, <3>1, <2>1
  <2> HIDE DEF s
  <2>3. /\ SubSeq(s, 1, 1) \in Seq(S) /\ Len(SubSeq(s, 1, 1)) = 1
        /\ SubSeq(s, 1, 1)[1] = "syntaxErr"
    BY <2>2
  <2>4. SubSeq(s, 1, 1) = <<"syntaxErr">>
    <3> DEFINE f == SubSeq(s, 1, 1)
               e == <<"syntaxErr">>
    <3>1. /\ f \in Seq(S) /\ e \in Seq(S) /\ Len(f) = 1 /\ Len(e) = 1
          /\ f[1] = "syntaxErr" /\ e[1] = "syntaxErr"
      BY <2>3
    <3> HIDE DEF f, e, S
    <3>2. \A i \in 1..Len(f) : f[i] = e[i]
      BY <3>1
    <3>3. f = e
      BY <3>1, <3>2, SeqEqual
    <3> QED BY <3>3 DEF f, e
  <2>5. s # <<>> /\ Last(s) = a /\ Front(s) = <<"syntaxErr">>
    BY <2>2, <2>4 DEF Last, Front
  <2> QED BY <2>5 DEF s
<1> QED BY <1>1, <1>2

LEMMA OneAnswer ==
  ASSUME NEW a
  PROVE  <<a>> # <<>> /\ Last(<<a>>) = a /\ ~(Len(<<a>>) > 1)
BY DEF Last

\* The action of LastAnswerIsTrue, but for evictions.
Told ==
  \/ /\ reply' # <<>> /\ (UNCHANGED db \/ Last(reply') = "OK")
     /\ Len(reply') > 1 => Front(reply') = <<"syntaxErr">>
  \/ /\ reply' \in {<<>>, <<"syntaxErr">>}
     /\ \E k \in Keys, v \in Values, p \in Parses :
          "GET" \in p.flags /\ Set(k, v, p)

\* setGenericCommand says nothing, if GET was asked for, or one thing, and OK if
\* anything changed.
Answered(r, flags) ==
  \/ r.reply = <<>> /\ "GET" \in flags
  \/ \E a : r.reply = <<a>> /\ (r.db # db => a = "OK")

LEMMA SetAnswers ==
  ASSUME Inv, NEW flags, NEW k \in Keys, NEW v \in Values, NEW expire, NEW unit,
         Sound(flags, expire, unit), NEW r, r = SetGeneric(flags, k, v, expire, unit)
  PROVE  Answered(r, flags)
<1>1. Effect(r, flags, k, v, expire, unit)
  BY SetGenericDoes DEF Inv
<1>2. CASE r.reply = <<"expireErr">> /\ r.db = db
  BY <1>2 DEF Answered
<1>3. CASE r.reply = Unless(flags, "null") /\ r.db = db
  BY <1>3 DEF Answered, Unless
<1>4. CASE r.reply = Unless(flags, "OK")
  BY <1>4 DEF Answered, Unless
<1> QED BY <1>1, <1>2, <1>3, <1>4 DEF Effect

\* Without GET there is one answer, and OK if anything changed.
LEMMA PlainAnswer ==
  ASSUME Inv, NEW flags, NEW k \in Keys, NEW v \in Values, NEW expire, NEW unit,
         Sound(flags, expire, unit), "GET" \notin flags,
         SetTo(SetGeneric(flags, k, v, expire, unit))
  PROVE  Told
<1> DEFINE r == SetGeneric(flags, k, v, expire, unit)
<1>1. r = SetGeneric(flags, k, v, expire, unit) /\ db' = r.db /\ reply' = r.reply
  BY DEF SetTo
<1> HIDE DEF r
<1>2. Answered(r, flags)
  BY <1>1, SetAnswers
<1>3. PICK a : reply' = <<a>> /\ (db' # db => a = "OK")
  BY <1>1, <1>2 DEF Answered
<1> QED BY <1>3, OneAnswer DEF Told

\* What a client may conclude from the last answer (strcmd.go:144, strcmd.go:259):
\* a null or an invalid time changed nothing, the second of two answers follows a
\* syntax error, and only GET leaves an answer out.
THEOREM LastAnswerIsTrueHolds == Spec => LastAnswerIsTrue
<1>1. ASSUME Inv, [Next]_vars PROVE Told \/ (\E k \in Keys : Evict(k)) \/ UNCHANGED vars
  <2>1. ASSUME NEW k \in Keys, Get(k) PROVE Told
    <3>1. PICK a : reply' = <<a>> /\ UNCHANGED db
      BY <2>1 DEF Get
    <3> QED BY <3>1, OneAnswer DEF Told
  <2>2. ASSUME NEW k \in Keys, NEW v \in Values, SetNx(k, v) PROVE Told
    BY <1>1, <2>2, PlainAnswer, CallsAreSound DEF SetNx
  <2>3. ASSUME NEW k \in Keys, NEW v \in Values, NEW time \in Arguments, SetEx(k, v, time)
        PROVE  Told
    BY <1>1, <2>3, PlainAnswer, CallsAreSound DEF SetEx
  <2>4. ASSUME NEW k \in Keys, NEW v \in Values, NEW time \in Arguments, PSetEx(k, v, time)
        PROVE  Told
    BY <1>1, <2>4, PlainAnswer, CallsAreSound DEF PSetEx
  <2>5. ASSUME NEW k \in Keys, NEW v \in Values, NEW p \in Parses, Set(k, v, p)
        PROVE  Told
    <3>1. /\ Sound(p.flags, p.expire, p.unit) /\ p.reply \in {<<>>, <<"syntaxErr">>}
          /\ ~p.ok => p.reply = <<"syntaxErr">>
      BY CallsAreSound DEF ParsedOK
    <3>2. CASE ~p.ok
      <4>1. reply' = <<"syntaxErr">> /\ UNCHANGED db
        BY <3>1, <3>2, <2>5 DEF Set
      <4> QED BY <4>1, OneAnswer DEF Told
    <3>3. CASE p.ok
      <4> DEFINE r == SetGeneric(p.flags, k, v, p.expire, p.unit)
      <4>1. r = SetGeneric(p.flags, k, v, p.expire, p.unit)
            /\ r = [db |-> r.db, reply |-> r.reply]
        BY DEF SetGeneric
      <4>2. db' = [r EXCEPT !.reply = p.reply \o r.reply].db
            /\ reply' = [r EXCEPT !.reply = p.reply \o r.reply].reply
        BY <2>5, <3>3 DEF Set, SetTo
      <4> HIDE DEF r
      <4>3. db' = r.db /\ reply' = p.reply \o r.reply
        BY <4>1, <4>2
      <4>4. Answered(r, p.flags)
        BY <1>1, <3>1, <4>1, SetAnswers
      <4>5. CASE r.reply = <<>> /\ "GET" \in p.flags
        <5>1. reply' = p.reply
          BY <4>3, <4>5, <3>1
        <5> QED BY <5>1, <4>5, <3>1, <2>5 DEF Told
      <4>6. ASSUME NEW a, r.reply = <<a>>, r.db # db => a = "OK" PROVE Told
        <5>1. reply' = p.reply \o <<a>> /\ (db' # db => a = "OK")
          BY <4>3, <4>6
        <5> QED BY <5>1, <3>1, AnswersEnd DEF Told
      <4> QED BY <4>4, <4>5, <4>6 DEF Answered
    <3> QED BY <3>2, <3>3
  <2> QED BY <1>1, <2>1, <2>2, <2>3, <2>4, <2>5 DEF Next, Command
<1>2. Inv /\ [Next]_vars =>
        [\/ /\ reply' # <<>> /\ (UNCHANGED db \/ Last(reply') = "OK")
            /\ Len(reply') > 1 => Front(reply') = <<"syntaxErr">>
         \/ \E k \in Keys : Evict(k)
         \/ /\ reply' \in {<<>>, <<"syntaxErr">>}
            /\ \E k \in Keys, v \in Values, p \in Parses :
                 "GET" \in p.flags /\ Set(k, v, p)]_vars
  BY <1>1 DEF Told
<1> QED BY <1>2, InvHolds, PTL DEF Spec, LastAnswerIsTrue

-----------------------------------------------------------------------------
(***************************************************************************)
(* Recursion over finite sets.                                             *)
(***************************************************************************)
\* An element is taken from s, and step combines it with the result for the rest.
Combined(base, pick, step, g, s) ==
  IF s = {} THEN base ELSE step[pick[s]][g[s \ {pick[s]}]]

\* g solves the recursion on the sets of D, with values in V.
Solves(g, D, V, base, pick, step) ==
  /\ g = [s \in D |-> Combined(base, pick, step, g, s)]
  /\ \A s \in D : g[s] \in V

Picks(pick, S) == \A s \in SUBSET S : s # {} => pick[s] \in s

LEMMA Smaller ==
  ASSUME NEW S, IsFiniteSet(S), NEW s \in SUBSET S, NEW x \in s
  PROVE  /\ s \ {x} \in SUBSET S /\ Cardinality(s) \in Nat /\ Cardinality(s) # 0
         /\ Cardinality(s \ {x}) = Cardinality(s) - 1
<1>1. IsFiniteSet(s)
  BY FS_Subset
<1>2. Cardinality(s) \in Nat
  BY <1>1, FS_CardinalityType
<1>3. IsFiniteSet(s \ {x}) /\ Cardinality(s \ {x}) = IF x \in s THEN Cardinality(s) - 1 ELSE Cardinality(s)
  BY <1>1, FS_RemoveElement
<1>4. Cardinality(s) # 0
  BY <1>1, FS_EmptySet
<1> QED BY <1>2, <1>3, <1>4

LEMMA SetRecursion ==
  ASSUME NEW S, IsFiniteSet(S), NEW V, NEW base \in V, NEW pick, Picks(pick, S),
         NEW step, \A x \in S, y \in V : step[x][y] \in V
  PROVE  \E g : Solves(g, SUBSET S, V, base, pick, step)
<1> DEFINE Sub(n) == {s \in SUBSET S : Cardinality(s) <= n}
           Bad == {n \in Nat : ~\E g : Solves(g, Sub(n), V, base, pick, step)}
<1>0. \A s \in SUBSET S : Cardinality(s) \in Nat /\ (s # {} => Cardinality(s) # 0)
  <2> SUFFICES ASSUME NEW s \in SUBSET S PROVE Cardinality(s) \in Nat /\ (s # {} => Cardinality(s) # 0)
    OBVIOUS
  <2>1. IsFiniteSet(s)
    BY FS_Subset
  <2> QED BY <2>1, FS_CardinalityType, FS_EmptySet
<1>1. Bad = {}
  <2> SUFFICES ASSUME Bad # {} PROVE FALSE
    OBVIOUS
  <2>1. PICK b \in Bad : \A m \in Bad : b <= m
    <3>1. Bad \subseteq Nat
      OBVIOUS
    <3> HIDE DEF Bad
    <3> QED BY <3>1, LeastNumber
  <2>2. b \in Nat /\ ~\E g : Solves(g, Sub(b), V, base, pick, step)
    BY <2>1
  <2>3. CASE b = 0
    <3> DEFINE g == [s \in Sub(b) |-> base]
    <3>1. \A s \in Sub(b) : s = {}
      BY <1>0, <2>3
    <3>2. g = [s \in Sub(b) |-> Combined(base, pick, step, g, s)]
      BY <3>1 DEF Combined
    <3>3. \A s \in Sub(b) : g[s] \in V
      OBVIOUS
    <3> HIDE DEF g
    <3>4. Solves(g, Sub(b), V, base, pick, step)
      BY <3>2, <3>3 DEF Solves
    <3> QED BY <2>2, <3>4
  <2>4. CASE b # 0
    <3> DEFINE a == b - 1
    <3>1. a \in Nat /\ ~(b <= a) /\ a <= b
      BY <2>2, <2>4
    <3>2. PICK f : Solves(f, Sub(a), V, base, pick, step)
      BY <2>1, <3>1
    <3> DEFINE g == [s \in Sub(b) |-> Combined(base, pick, step, f, s)]
    <3>3. \A s \in Sub(a) : s \in Sub(b) /\ f[s] = Combined(base, pick, step, f, s) /\ f[s] \in V
      <4>1. \A s \in Sub(a) : s \in Sub(b)
        BY <1>0, <2>2, <3>1
      <4> HIDE DEF Sub
      <4>2. f = [s \in Sub(a) |-> Combined(base, pick, step, f, s)] /\ \A s \in Sub(a) : f[s] \in V
        BY <3>2 DEF Solves
      <4>3. \A s \in Sub(a) : f[s] = Combined(base, pick, step, f, s)
        BY <4>2
      <4> QED BY <4>1, <4>2, <4>3
    <3>4. ASSUME NEW s \in Sub(b), s # {}
          PROVE  s \ {pick[s]} \in Sub(a) /\ pick[s] \in S
      <4>1. s \in SUBSET S /\ pick[s] \in s /\ Cardinality(s) <= b
        BY <3>4 DEF Picks
      <4>2. /\ s \ {pick[s]} \in SUBSET S /\ Cardinality(s) \in Nat /\ Cardinality(s) # 0
            /\ Cardinality(s \ {pick[s]}) = Cardinality(s) - 1
        BY <4>1, Smaller
      <4>3. Cardinality(s \ {pick[s]}) <= a
        BY <2>2, <4>1, <4>2
      <4> QED BY <4>1, <4>2, <4>3
    <3> HIDE DEF Sub, a
    <3>5. ASSUME NEW s \in Sub(b)
          PROVE  Combined(base, pick, step, g, s) = Combined(base, pick, step, f, s) /\ g[s] \in V
      <4>1. CASE s = {}
        BY <4>1 DEF Combined
      <4>2. CASE s # {}
        <5> DEFINE t == s \ {pick[s]}
        <5>1. t \in Sub(a) /\ t \in Sub(b) /\ pick[s] \in S
          BY <3>3, <3>4, <4>2
        <5>2. g[t] = f[t] /\ f[t] \in V
          BY <3>3, <5>1
        <5> QED BY <4>2, <5>1, <5>2 DEF Combined
      <4> QED BY <4>1, <4>2
    <3>6. g = [s \in Sub(b) |-> Combined(base, pick, step, g, s)]
      BY <3>5
    <3> HIDE DEF g
    <3>7. Solves(g, Sub(b), V, base, pick, step)
      BY <3>5, <3>6 DEF Solves
    <3> QED BY <2>2, <3>7
  <2> QED BY <2>3, <2>4
<1>2. Cardinality(S) \in Nat /\ \A s \in SUBSET S : Cardinality(s) <= Cardinality(S)
  BY FS_CardinalityType, FS_Subset
<1>3. Sub(Cardinality(S)) = SUBSET S
  BY <1>2
<1>4. \E g : Solves(g, Sub(Cardinality(S)), V, base, pick, step)
  BY <1>1, <1>2
<1> QED BY <1>3, <1>4

\* Where the values of a recursive function over the subsets of S lie.
LEMMA SetInduction ==
  ASSUME NEW S, IsFiniteSet(S), NEW V, NEW pick, Picks(pick, S), NEW f, f[{}] \in V,
         \A s \in SUBSET S : s # {} /\ f[s \ {pick[s]}] \in V => f[s] \in V
  PROVE  f[S] \in V
<1> DEFINE Bad == {Cardinality(s) : s \in {r \in SUBSET S : f[r] \notin V}}
<1> SUFFICES ASSUME f[S] \notin V PROVE FALSE
  OBVIOUS
<1>1. \A s \in SUBSET S : Cardinality(s) \in Nat
  BY FS_Subset, FS_CardinalityType
<1>2. Bad \subseteq Nat /\ Bad # {}
  <2>1. Cardinality(S) \in Bad
    OBVIOUS
  <2> QED BY <1>1, <2>1
<1>3. PICK b \in Bad : \A m \in Bad : b <= m
  <2> HIDE DEF Bad
  <2> QED BY <1>2, LeastNumber
<1>4. PICK s \in SUBSET S : f[s] \notin V /\ b = Cardinality(s)
  BY <1>3
<1>5. s # {} /\ pick[s] \in s
  BY <1>4 DEF Picks
<1>6. /\ s \ {pick[s]} \in SUBSET S /\ Cardinality(s) \in Nat /\ Cardinality(s) # 0
      /\ Cardinality(s \ {pick[s]}) = Cardinality(s) - 1
  BY <1>5, Smaller
<1>7. f[s \ {pick[s]}] \notin V
  BY <1>4, <1>5
<1>8. b <= Cardinality(s \ {pick[s]})
  <2>1. Cardinality(s \ {pick[s]}) \in Bad
    BY <1>6, <1>7
  <2> QED BY <1>3, <2>1
<1> QED BY <1>4, <1>6, <1>8

-----------------------------------------------------------------------------
(***************************************************************************)
(* The memory in use is a number.                                          *)
(***************************************************************************)
Chosen(s) == CHOOSE x \in s : TRUE

IsSum(d, f) ==
  f = [s \in SUBSET Charged(d) |->
         IF s = {} THEN 0 ELSE Charges(d, Chosen(s)) * KeySize[Chosen(s)] + f[s \ {Chosen(s)}]]

LEMMA UsedMemoryType ==
  ASSUME NEW d, DbGood(d)
  PROVE  UsedMemory(d) \in Nat
<1> DEFINE S == Charged(d)
           pick == [s \in SUBSET S |-> Chosen(s)]
           step == [x \in S |-> [y \in Nat |-> Charges(d, x) * KeySize[x] + y]]
           sum == CHOOSE f : IsSum(d, f)
<1>0. \A s \in SUBSET S : s # {} => Chosen(s) \in s
  BY DEF Chosen
<1>1. Picks(pick, S) /\ \A s \in SUBSET S : pick[s] = Chosen(s)
  BY <1>0 DEF Picks
<1>2. IsFiniteSet(S)
  <2>1. S \subseteq Present(d)
    <3> SUFFICES ASSUME NEW k \in Keys, ~Exists(d, k) PROVE Charges(d, k) = 0
      BY DEF Charged, Present
    <3>1. TTL(d, k) = Missing
      BY DEF DbGood
    <3>2. d.charged[k] = One(Exists(d, k)) /\ d.expireCharged[k] = One(TTL(d, k) # Missing)
      BY DEF DbGood
    <3>3. One(Exists(d, k)) = 0 /\ One(TTL(d, k) # Missing) = 0
      BY <3>1 DEF One
    <3> QED BY <3>2, <3>3 DEF Charges
  <2>2. IsFiniteSet(Present(d))
    BY DEF DbGood
  <2> QED BY <2>1, <2>2, FS_Subset
<1>3. \A x \in S, y \in Nat : Charges(d, x) * KeySize[x] + y \in Nat
  <2> SUFFICES ASSUME NEW x \in S, NEW y \in Nat PROVE Charges(d, x) * KeySize[x] + y \in Nat
    OBVIOUS
  <2>1. x \in Keys
    BY DEF Charged
  <2>2. d.charged \in [Keys -> Nat] /\ d.expireCharged \in [Keys -> Nat]
    BY DEF DbGood, DbType
  <2>3. KeySize \in [Keys -> Nat \ {0}]
    BY EvictionAssumption
  <2> DEFINE a == Charges(d, x)
             b == KeySize[x]
  <2>4. a \in Nat /\ b \in Nat
    BY <2>1, <2>2, <2>3 DEF Charges
  <2> HIDE DEF a, b
  <2>5. a * b \in Nat
    BY <2>4
  <2>6. a * b + y \in Nat
    BY <2>5
  <2> QED BY <2>6 DEF a, b
<1>4. \A x \in S, y \in Nat : step[x][y] = Charges(d, x) * KeySize[x] + y /\ step[x][y] \in Nat
  BY <1>3
<1>u. UsedMemory(d) = sum[S]
  BY DEF UsedMemory, MapThenSumSet, MapThenFoldSet, IsSum, Chosen
<1>s. S = Charged(d)
  OBVIOUS
<1> HIDE DEF S, pick, step
<1>5. PICK g : Solves(g, SUBSET S, Nat, 0, pick, step)
  BY <1>1, <1>2, <1>4, SetRecursion
<1>6. IsSum(d, g)
  <2>1. g = [s \in SUBSET S |-> Combined(0, pick, step, g, s)] /\ \A s \in SUBSET S : g[s] \in Nat
    BY <1>5 DEF Solves
  <2>2. ASSUME NEW s \in SUBSET S
        PROVE  Combined(0, pick, step, g, s) =
                 IF s = {} THEN 0 ELSE Charges(d, Chosen(s)) * KeySize[Chosen(s)] + g[s \ {Chosen(s)}]
    <3>1. CASE s = {}
      BY <3>1 DEF Combined
    <3>2. CASE s # {}
      <4>1. pick[s] = Chosen(s) /\ Chosen(s) \in S /\ s \ {Chosen(s)} \in SUBSET S
        BY <1>0, <1>1, <3>2
      <4>2. g[s \ {Chosen(s)}] \in Nat
        BY <2>1, <4>1
      <4>3. Combined(0, pick, step, g, s) = step[Chosen(s)][g[s \ {Chosen(s)}]]
        BY <3>2, <4>1 DEF Combined
      <4> QED BY <1>4, <3>2, <4>1, <4>2, <4>3
    <3> QED BY <3>1, <3>2
  <2> DEFINE h == [s \in SUBSET S |->
                    IF s = {} THEN 0 ELSE Charges(d, Chosen(s)) * KeySize[Chosen(s)] + g[s \ {Chosen(s)}]]
  <2>3. g = h
    BY <2>1, <2>2
  <2> QED BY <1>s, <2>3 DEF IsSum
<1>7. IsSum(d, sum)
  BY <1>6
<1> HIDE DEF sum
<1>8. ASSUME NEW s \in SUBSET S
      PROVE  sum[s] = IF s = {} THEN 0 ELSE Charges(d, Chosen(s)) * KeySize[Chosen(s)] + sum[s \ {Chosen(s)}]
  BY <1>7, <1>s DEF IsSum
<1>9. sum[{}] \in Nat
  <2>1. \A s \in SUBSET S : s = {} => sum[s] = 0
    BY <1>8
  <2>2. {} \in SUBSET S
    OBVIOUS
  <2>3. sum[{}] = 0
    BY <2>1, <2>2
  <2> QED BY <2>3
<1>10. ASSUME NEW s \in SUBSET S, s # {}, sum[s \ {pick[s]}] \in Nat PROVE sum[s] \in Nat
  <2>1. pick[s] = Chosen(s) /\ Chosen(s) \in S
    BY <1>0, <1>1, <1>10
  <2>2. sum[s] = Charges(d, Chosen(s)) * KeySize[Chosen(s)] + sum[s \ {Chosen(s)}]
    BY <1>8, <1>10
  <2> QED BY <1>3, <1>10, <2>1, <2>2
<1>11. sum[S] \in Nat
  BY <1>1, <1>2, <1>9, <1>10, SetInduction
<1> QED BY <1>u, <1>11

-----------------------------------------------------------------------------
(***************************************************************************)
(* The pool holds keys.                                                    *)
(***************************************************************************)
Offers == INSTANCE EvictionPoolProofs
  WITH todo <- <<>>, lru <- [k \in Keys |-> 0], clock <- 0, ClockMax <- 0

LEMMA OfferKeeps ==
  ASSUME NEW p, Offers!GoodPool(p), NEW k \in Keys
  PROVE  Offers!GoodPool(Pool!Offered(p, k, 0))
<1>0. (PoolSize \in Nat \ {0} /\ Samples \in Nat) /\ 0 \in Nat
  BY EvictionAssumption
<1> DEFINE q == Offers!Offered(p, k, 0)
<1>1. q = Offers!Offered(p, k, 0)
  OBVIOUS
<1>2. Pool!Offered(p, k, 0) = q
  BY DEF Pool!Offered, Offers!Offered, Pool!Passed, Offers!Passed, Pool!Full, Offers!Full,
         Pool!Entry, Offers!Entry
<1> HIDE DEF q
<1>3. Offers!GoodPool(q)
  BY <1>0, <1>1, Offers!OfferedGood
<1> QED BY <1>2, <1>3

Poured(p, s) == FoldLeft(LAMBDA q, k : Pool!Offered(q, k, 0), p, s)

IsPour(p, s, f) ==
  f = [t \in SUBSET DOMAIN s |->
         IF t = {} THEN p ELSE Pool!Offered(f[t \ {Max(t)}], s[Max(t)], 0)]

LEMMA MaxIsMember ==
  ASSUME NEW b \in Nat, NEW t \in SUBSET (1..b), t # {}
  PROVE  Max(t) \in t
<1>1. t \subseteq Nat /\ \A m \in t : m <= b
  OBVIOUS
<1>2. PICK n \in t : \A m \in t : m <= n
  BY <1>1, GreatestNumber
<1>3. \A m \in t : n >= m
  BY <1>1, <1>2
<1>4. \E x \in t : \A y \in t : x >= y
  BY <1>3
<1> QED BY <1>4 DEF Max

LEMMA PouredGood ==
  ASSUME NEW p, Offers!GoodPool(p), NEW b \in Nat, NEW s \in [1..b -> Keys]
  PROVE  Offers!GoodPool(Poured(p, s))
<1> DEFINE S == 1..b
           V == {q \in [1..PoolSize -> Offers!Slots] : Offers!GoodPool(q)}
           pick == [t \in SUBSET S |-> Max(t)]
           step == [x \in S |-> [q \in V |-> Pool!Offered(q, s[x], 0)]]
           pour == CHOOSE f : IsPour(p, s, f)
<1>v. \A q : q \in V <=> Offers!GoodPool(q)
  BY DEF Offers!GoodPool
<1>d. DOMAIN s = S
  OBVIOUS
<1>0. \A t \in SUBSET S : t # {} => Max(t) \in t
  BY MaxIsMember
<1>1. Picks(pick, S) /\ \A t \in SUBSET S : pick[t] = Max(t)
  BY <1>0 DEF Picks
<1>2. IsFiniteSet(S)
  BY FS_Interval
<1>3. \A x \in S, q \in V : Pool!Offered(q, s[x], 0) \in V
  <2> HIDE DEF V
  <2> QED BY <1>v, OfferKeeps
<1>4. \A x \in S, q \in V : step[x][q] = Pool!Offered(q, s[x], 0) /\ step[x][q] \in V
  BY <1>3
<1>u. Poured(p, s) = pour[S]
  <2>1. Poured(p, s) = pour[DOMAIN s]
    BY DEF Poured, FoldLeft, MapThenFoldSet, IsPour
  <2> QED BY <1>d, <2>1
<1>p. p \in V
  BY <1>v
<1> HIDE DEF S, V, pick, step
<1>5. PICK g : Solves(g, SUBSET S, V, p, pick, step)
  BY <1>1, <1>2, <1>4, <1>p, SetRecursion
<1>6. IsPour(p, s, g)
  <2>1. g = [t \in SUBSET S |-> Combined(p, pick, step, g, t)] /\ \A t \in SUBSET S : g[t] \in V
    BY <1>5 DEF Solves
  <2>2. ASSUME NEW t \in SUBSET S
        PROVE  Combined(p, pick, step, g, t) =
                 IF t = {} THEN p ELSE Pool!Offered(g[t \ {Max(t)}], s[Max(t)], 0)
    <3>1. CASE t = {}
      BY <3>1 DEF Combined
    <3>2. CASE t # {}
      <4>1. pick[t] = Max(t) /\ Max(t) \in S /\ t \ {Max(t)} \in SUBSET S
        BY <1>0, <1>1, <3>2
      <4>2. g[t \ {Max(t)}] \in V
        BY <2>1, <4>1
      <4>3. Combined(p, pick, step, g, t) = step[Max(t)][g[t \ {Max(t)}]]
        BY <3>2, <4>1 DEF Combined
      <4> QED BY <1>4, <3>2, <4>1, <4>2, <4>3
    <3> QED BY <3>1, <3>2
  <2> DEFINE h == [t \in SUBSET S |->
                     IF t = {} THEN p ELSE Pool!Offered(g[t \ {Max(t)}], s[Max(t)], 0)]
  <2>3. g = h
    BY <2>1, <2>2
  <2> QED BY <1>d, <2>3 DEF IsPour
<1>7. IsPour(p, s, pour)
  BY <1>6
<1> HIDE DEF pour
<1>8. ASSUME NEW t \in SUBSET S
      PROVE  pour[t] = IF t = {} THEN p ELSE Pool!Offered(pour[t \ {Max(t)}], s[Max(t)], 0)
  BY <1>7, <1>d DEF IsPour
<1>9. pour[{}] \in V
  <2>1. \A t \in SUBSET S : t = {} => pour[t] = p
    BY <1>8
  <2>2. {} \in SUBSET S
    OBVIOUS
  <2>3. pour[{}] = p
    BY <2>1, <2>2
  <2> QED BY <1>p, <2>3
<1>10. ASSUME NEW t \in SUBSET S, t # {}, pour[t \ {pick[t]}] \in V PROVE pour[t] \in V
  <2>1. pick[t] = Max(t) /\ Max(t) \in S
    BY <1>0, <1>1, <1>10
  <2>2. pour[t] = Pool!Offered(pour[t \ {Max(t)}], s[Max(t)], 0)
    BY <1>8, <1>10
  <2> QED BY <1>3, <1>10, <2>1, <2>2
<1>11. pour[S] \in V
  BY <1>1, <1>2, <1>9, <1>10, SetInduction
<1> QED BY <1>u, <1>v, <1>11

-----------------------------------------------------------------------------
(***************************************************************************)
(* PerformEvictions.                                                       *)
(***************************************************************************)
\* What is still to be freed is what is in use above the limit.
Account ==
  phase = "evict" =>
    /\ toFree \in Int /\ memFreed \in Int /\ memFreed < toFree
    /\ toFree - memFreed = UsedMemory(db) - MaxMemory

EvictionInv ==
  /\ Inv /\ Offers!GoodPool(ep)
  /\ phase \in {"idle", "evict", "spin"} /\ Account

LEMMA EvictionInvInit == EvictionInit => EvictionInv
<1> SUFFICES ASSUME EvictionInit PROVE EvictionInv
  OBVIOUS
<1>1. Inv
  BY InitGood DEF EvictionInit
<1>2. ep = [i \in 1..PoolSize |-> [used |-> FALSE]]
  BY DEF EvictionInit, Pool!NewPool, Pool!Empty
<1>3. [used |-> FALSE] \in Offers!Slots
  BY DEF Offers!Slots, Offers!Empty
<1>4. \A i \in 1..PoolSize : ~ep[i].used
  BY <1>2
<1>5. Offers!GoodPool(ep)
  BY <1>2, <1>3, <1>4 DEF Offers!GoodPool, Offers!Sorted
<1>6. phase = "idle"
  BY DEF EvictionInit
<1> QED BY <1>1, <1>5, <1>6 DEF EvictionInv, Account

LEMMA BestIsAKey ==
  ASSUME Offers!GoodPool(ep), Candidates # {}
  PROVE  ep[Max(Candidates)].key \in Keys
<1>1. PoolSize \in Nat
  BY EvictionAssumption
<1>2. Candidates \in SUBSET (1..PoolSize)
  BY DEF Candidates
<1> DEFINE i == Max(Candidates)
<1>3. i \in Candidates
  BY <1>1, <1>2, MaxIsMember
<1> HIDE DEF i
<1>4. i \in 1..PoolSize /\ ep[i].used
  BY <1>3 DEF Candidates
<1>5. ep[i] \in Offers!Slots
  BY <1>4 DEF Offers!GoodPool
<1>6. ep[i].key \in Keys
  <2>1. CASE ep[i] = Offers!Empty
    BY <1>4, <2>1 DEF Offers!Empty
  <2>2. CASE ep[i] # Offers!Empty
    <3>1. PICK k \in Keys, n \in Nat : ep[i] = Offers!Entry(k, n)
      BY <1>5, <2>2 DEF Offers!Slots
    <3> QED BY <3>1 DEF Offers!Entry
  <2> QED BY <2>1, <2>2
<1> QED BY <1>6 DEF i

\* With nothing left to free, there is not too much in use.
LEMMA NothingLeft ==
  ASSUME NEW free \in Int, NEW freed \in Int, NEW used \in Nat, NEW limit \in Nat,
         free - freed = used - limit, ~(freed < free)
  PROVE  used <= limit
  OBVIOUS

\* A step keeps the books, and what it does to a call of PerformEvictions.
LEMMA EvictionStep ==
  ASSUME EvictionInv, EvictionNext
  PROVE  /\ EvictionInv'
         /\ phase = "evict" =>
              /\ db' # db => UsedMemory(db) > MaxMemory
              /\ phase' = "idle" => UsedMemory(db') <= MaxMemory
<1>0. /\ Inv /\ DbGood(db) /\ Offers!GoodPool(ep) /\ UsedMemory(db) \in Nat /\ MaxMemory \in Nat
      /\ phase \in {"idle", "evict", "spin"} /\ Account
  BY UsedMemoryType, EvictionAssumption DEF EvictionInv, Inv
<1>i. ASSUME Inv', ep' = ep, phase' \in {"idle", "spin"} PROVE EvictionInv'
  BY <1>0, <1>i DEF EvictionInv, Account, Offers!GoodPool, Offers!Sorted, Offers!Slots, Offers!Empty, Offers!Entry
<1>1. CASE Serve
  <2>1. phase = "idle" /\ Command /\ phase' = phase /\ ep' = ep
    BY <1>1 DEF Serve, lruVars
  <2>2. Inv'
    BY <1>0, <2>1, NextKeeps DEF Next
  <2> QED BY <1>i, <2>1, <2>2
<1>v. ASSUME UNCHANGED vars PROVE Inv'
  BY <1>0, <1>v, NextKeeps
<1>2. CASE Populate
  <2>1. phase = "idle" /\ phase' = phase /\ UNCHANGED vars
    BY <1>2 DEF Populate
  <2>2. PICK s \in Pool!SomeKeys : ep' = Poured(ep, s)
    BY <1>2 DEF Populate, Poured
  <2>3. PICK b \in 0..Samples : s \in [1..b -> Keys]
    BY <2>2 DEF Pool!SomeKeys
  <2>4. b \in Nat
    BY EvictionAssumption
  <2>5. Offers!GoodPool(ep')
    BY <1>0, <2>2, <2>3, <2>4, PouredGood
  <2>6. Offers!GoodPool(ep)'
    BY <2>5 DEF Offers!GoodPool, Offers!Sorted, Offers!Slots, Offers!Empty, Offers!Entry
  <2> QED BY <1>v, <2>1, <2>6 DEF EvictionInv, Account
<1>3. CASE Begin
  <2>1. /\ phase = "idle" /\ UsedMemory(db) > MaxMemory /\ phase' = "evict"
        /\ toFree' = UsedMemory(db) - MaxMemory /\ memFreed' = 0
        /\ UNCHANGED vars /\ ep' = ep /\ db' = db
    BY <1>3 DEF Begin, vars
  <2>2. UsedMemory(db)' = UsedMemory(db)
    BY <2>1
  <2> DEFINE u == UsedMemory(db)
  <2>3. u \in Nat /\ UsedMemory(db)' = u /\ u > MaxMemory /\ toFree' = u - MaxMemory
    BY <1>0, <2>1, <2>2
  <2> HIDE DEF u
  <2>4. Account'
    BY <1>0, <2>1, <2>3 DEF Account
  <2>5. Offers!GoodPool(ep)'
    BY <1>0, <2>1 DEF Offers!GoodPool, Offers!Sorted, Offers!Slots, Offers!Empty, Offers!Entry
  <2> QED BY <1>v, <2>1, <2>4, <2>5 DEF EvictionInv
<1>4. CASE EvictBest
  <2> DEFINE k == ep[Max(Candidates)].key
             e == GenericDelete(db, k)
             u == UsedMemory(db)
             w == UsedMemory(e)
  <2>1. /\ phase = "evict" /\ Candidates # {} /\ db' = e /\ reply' = reply /\ ep' = ep /\ toFree' = toFree
        /\ memFreed' = memFreed + (UsedMemory(db) - UsedMemory(db'))
        /\ phase' = IF memFreed' < toFree THEN "evict" ELSE "idle"
    BY <1>4 DEF EvictBest, Delta
  <2>2. k \in Keys
    BY <1>0, <2>1, BestIsAKey
  <2> HIDE DEF k
  <2>3. Evict(k)
    BY <2>1 DEF Evict
  <2>4. Inv'
    BY <1>0, <2>2, <2>3, NextKeeps DEF Next
  <2>5. DbGood(e)
    <3>1. e = GenericDelete(db, k)
      OBVIOUS
    <3> HIDE DEF e
    <3> QED BY <1>0, <2>2, <3>1, EvictGood
  <2> HIDE DEF e
  <2>6. w \in Nat /\ u \in Nat
    BY <1>0, <2>5, UsedMemoryType
  <2>7. UsedMemory(db') = w /\ UsedMemory(db)' = w
    BY <2>1
  <2>8. /\ toFree \in Int /\ memFreed \in Int /\ memFreed < toFree
        /\ toFree - memFreed = u - MaxMemory
    BY <1>0, <2>1 DEF Account
  <2>9. memFreed' = memFreed + (u - w)
    BY <2>1, <2>7
  <2> HIDE DEF u, w
  <2>10. u > MaxMemory
    BY <1>0, <2>6, <2>8
  <2>11. memFreed' \in Int /\ toFree - memFreed' = w - MaxMemory
    BY <1>0, <2>6, <2>8, <2>9
  <2>12. phase' = "idle" => w <= MaxMemory
    <3>1. phase' = "idle" => ~(memFreed' < toFree)
      BY <2>1
    <3>2. toFree \in Int /\ memFreed' \in Int /\ w \in Nat /\ MaxMemory \in Nat
      BY <2>6, <2>8, <2>11, EvictionAssumption
    <3>3. toFree - memFreed' = w - MaxMemory
      BY <2>11
    <3> QED BY <3>1, <3>2, <3>3, NothingLeft
  <2>13. Account'
    <3>1. phase' = "evict" => memFreed' < toFree
      BY <2>1
    <3> QED BY <2>1, <2>7, <2>8, <2>11, <3>1 DEF Account
  <2>14. Offers!GoodPool(ep)'
    BY <1>0, <2>1 DEF Offers!GoodPool, Offers!Sorted, Offers!Slots, Offers!Empty, Offers!Entry
  <2>15. phase' \in {"idle", "evict", "spin"}
    BY <2>1
  <2> QED BY <2>4, <2>7, <2>10, <2>12, <2>13, <2>14, <2>15 DEF EvictionInv, u
<1>5. CASE EvictNone
  <2>1. phase' = "spin" /\ UNCHANGED vars /\ ep' = ep /\ db' = db
    BY <1>5 DEF EvictNone, vars
  <2> QED BY <1>i, <1>v, <2>1
<1> QED BY <1>1, <1>2, <1>3, <1>4, <1>5 DEF EvictionNext, PerformEvictions

\* EvictionsStopAtTheLimit, for all keys with their sizes and every limit: the
\* sum that the loop of PerformEvictions keeps (lru.go:182) is always what there
\* was to free less what is in use above the limit, so that it goes on exactly as
\* long as there is too much.
THEOREM EvictionsStopAtTheLimitHolds == EvictionSpec => EvictionsStopAtTheLimit
<1>1. EvictionInit => EvictionInv
  BY EvictionInvInit
<1>2. EvictionInv /\ [EvictionNext]_allVars => EvictionInv'
  <2> SUFFICES ASSUME EvictionInv, UNCHANGED allVars PROVE EvictionInv'
    BY EvictionStep
  <2>1. db' = db /\ ep' = ep /\ phase' = phase /\ toFree' = toFree /\ memFreed' = memFreed
        /\ UNCHANGED vars
    BY DEF allVars, lruVars, vars
  <2>2. Inv'
    BY <2>1, NextKeeps DEF EvictionInv
  <2>3. Offers!GoodPool(ep)'
    BY <2>1 DEF EvictionInv, Offers!GoodPool, Offers!Sorted, Offers!Slots, Offers!Empty, Offers!Entry
  <2>4. UsedMemory(db)' = UsedMemory(db)
    BY <2>1
  <2> QED BY <2>1, <2>2, <2>3, <2>4 DEF EvictionInv, Account
<1>3. EvictionInv /\ [EvictionNext]_allVars =>
        [phase = "evict" =>
           /\ db' # db => UsedMemory(db) > MaxMemory
           /\ phase' = "idle" => UsedMemory(db') <= MaxMemory]_allVars
  BY EvictionStep
<1> QED BY <1>1, <1>2, <1>3, PTL DEF EvictionSpec, EvictionsStopAtTheLimit
=============================================================================
