------------------------------ MODULE RedisDb ------------------------------
(***************************************************************************)
(* One database (db/db.go): the keyspace dict, the expire table, and the   *)
(* memory the two are charged for (db/zmalloc.go).                         *)
(*                                                                         *)
(* The expire table is a HashTable, with all that module says about        *)
(* rehashing.  The keyspace is filled through AddRaw.  Until it begins to  *)
(* rehash (DictFull) AddRaw inserts an absent key once and finds a present *)
(* one, so it is a map here.  During a rehash of the keyspace AddRaw links *)
(* one entry into both arrays, counts it twice and charges it twice        *)
(* (dict.go:268-271 and 291-294); its callers stop short of those states   *)
(* (StrCmd's Bounded), which DictHeap and DictMemory are about.            *)
(*                                                                         *)
(* The operators map a database to the database after a call.              *)
(***************************************************************************)
EXTENDS Integers, Sequences, FiniteSets

CONSTANTS Keys, Values, Missing,
          Times,             \* what a TTL may be, in milliseconds
          HashCode,
          InitSize,          \* INITIAL_DB_SIZE, 16
          RehashingBuckets,
          MaxCount           \* bound: no TTL is set once expire.Count reaches it

VARIABLE db  \* dict, its Count, the expire table, and how many times the size
             \* of each key is charged to usedMemory for the one and the other

ASSUME DbAssumption == Missing \notin Values /\ Missing \notin Times
ASSUME DbHashAssumption == HashCode \in [Keys -> Nat]
ASSUME DbSizeAssumption == /\ InitSize \in Nat \ {0} /\ RehashingBuckets \in Nat \ {0}
                           /\ MaxCount \in Nat

Expire == INSTANCE HashTable WITH Values <- Times, h <- db.expire

New == [dict    |-> [k \in Keys |-> Missing], count |-> 0,
        expire  |-> Expire!NewHashTable(InitSize),
        charged |-> [k \in Keys |-> 0], expireCharged |-> [k \in Keys |-> 0]]

Exists(d, k) == d.dict[k] # Missing

\* One more insertion and the keyspace would begin to rehash (dict.go:254).
DictFull(d) == 10 * (d.count + 1) > 7 * InitSize

\* lookupKey.  (The access time it writes is the constant lruClock(100, 100)
\* and the hit and miss counters are never read.)
LookupKey(d, k) == d.dict[k]

(***************************************************************************)
(* Memory.  Neither a *RedisObj nor a uint64 is a type that                *)
(* estimateMemoryUsage knows: only the keys are charged.  Set charges one  *)
(* for every call but an overwrite in the new table; Delete takes one back *)
(* for every entry it removes.                                             *)
(***************************************************************************)
SetCharge(t, k) ==
  LET s == Expire!Stepped(t)
  IN IF Expire!Rehashing(s) /\ s.rehashingTbl[k] # <<>> THEN 0 ELSE 1

\* Mutant: what is removed from the new table is not given back.
DeleteCharge_MainOnly(t, k) == IF t.table[k] = <<>> THEN 0 ELSE 1

DeleteCharge(t, k) ==
  (IF t.table[k] = <<>> THEN 0 ELSE 1)
    + (IF Expire!Rehashing(t) /\ t.rehashingTbl[k] # <<>> THEN 1 ELSE 0)

(***************************************************************************)
(* The expire table.                                                       *)
(***************************************************************************)
GetExpire(d, k) == IF Expire!TableEmpty(d.expire) THEN Missing ELSE Expire!Get(d.expire, k)

ExpireDelete(d, k) ==
  [d EXCEPT !.expire = Expire!AfterDelete(d.expire, k),
            !.expireCharged[k] = @ - DeleteCharge(d.expire, k)]

RmExpire(d, k) == IF Exists(d, k) THEN ExpireDelete(d, k) ELSE d

SetExpire(d, k, t) ==
  IF Exists(d, k)
  THEN [d EXCEPT !.expire = Expire!AfterSet(d.expire, k, t),
                 !.expireCharged[k] = @ + SetCharge(d.expire, k)]
  ELSE d

(***************************************************************************)
(* The keyspace.                                                           *)
(***************************************************************************)
\* Mutant: AddRaw does not count.
Add_NotCounted(d, k, v) ==
  IF Exists(d, k) THEN [d EXCEPT !.dict[k] = v]
  ELSE [d EXCEPT !.dict[k] = v, !.charged[k] = @ + 1]

\* add: AddRaw, then SetVal, in a keyspace that is not being rehashed.
Add(d, k, v) ==
  IF Exists(d, k) THEN [d EXCEPT !.dict[k] = v]
  ELSE [d EXCEPT !.dict[k] = v, !.count = @ + 1, !.charged[k] = @ + 1]

\* setValue, on a key that is there.
SetValue(d, k, v) == [d EXCEPT !.dict[k] = v]

\* SetKey.  The flag SetKeyAddOrUpdated is left out: nothing passes it.
KeyFound(d, k, flags) ==
  \/ "AlreadyExists" \in flags
  \/ "DoesNotExist" \notin flags /\ Exists(d, k)

SetKey(d, k, v, flags) ==
  LET e == IF KeyFound(d, k, flags) THEN SetValue(d, k, v) ELSE Add(d, k, v)
  IN IF "KeepTTL" \in flags THEN e ELSE RmExpire(e, k)

\* Mutant: the TTL is forgotten.
GenericDelete_KeepsTTL(d, k) ==
  IF Exists(d, k)
  THEN [d EXCEPT !.dict[k] = Missing, !.charged[k] = @ - 1]
  ELSE d

GenericDelete(d, k) ==
  IF Exists(d, k)
  THEN ExpireDelete([d EXCEPT !.dict[k] = Missing, !.charged[k] = @ - 1], k)
  ELSE d

-----------------------------------------------------------------------------
(***************************************************************************)
(* Properties of a database, whatever commands are run on it.              *)
(***************************************************************************)
\* The fields of RedisDb (db.go:30) have their types.
DbTypeOK ==
  /\ db.dict \in [Keys -> Values \cup {Missing}]
  /\ db.count \in Nat /\ Cardinality({k \in Keys : Exists(db, k)}) <= db.count
  /\ db.expire \in Expire!TableType
  /\ db.charged \in [Keys -> Nat] /\ db.expireCharged \in [Keys -> Nat]

\* A TTL belongs to a key of the keyspace: SetExpire refuses other keys
\* (db.go:108) and GenericDelete (db.go:138) leaves no TTL behind that a later
\* key of the same name would inherit.
TTLsBelongToKeys ==
  \A k \in Keys : GetExpire(db, k) # Missing => Exists(db, k)

\* No key has two entries in the expire table, although Set on a table that
\* is being rehashed (dict.go:78) would make a second one: a TTL that was
\* replaced or removed never comes back.
OneTTLPerKey == Expire!OneEntryPerKey

\* The expire table never drifts from the memory it is charged for (zmalloc.go:10),
\* on which eviction decides: through its rehashes every entry is charged once,
\* and what a deletion gives back, from whichever array it takes the entry, was
\* charged.  dict.go charges an overwrite in one array again (dict.go:114) and not
\* in the other (dict.go:87), but no command overwrites a TTL.  (Of the keyspace
\* this is not true: see DictMemory.)
TTLsAreChargedOnce ==
  \A k \in Keys :
    db.expireCharged[k] = Len(db.expire.table[k]) + Len(db.expire.rehashingTbl[k])
=============================================================================
