--------------------------- MODULE DictHeapProofs ---------------------------
(***************************************************************************)
(* Proofs about DictHeap, for any set of keys, any hash function, any      *)
(* number of entries.                                                      *)
(*                                                                         *)
(* In a keyspace entries are shared and chains knotted, so that a chain is *)
(* only known by where it leads: entries point to entries of their class,  *)
(* the remainder of the hash by the size the table began with (Loose).     *)
(* That suffices for what a lookup finds after a write (LooseInv).         *)
(*                                                                         *)
(* In the expire table the buckets of both arrays lead to lists that have  *)
(* no entry in common, every entry in the bucket its key hashes to         *)
(* (Ordered, OrderInv).  So what a call does to the links is what          *)
(* HashTable says of the values of each key.                               *)
(*                                                                         *)
(* Of either table, Count is at least the number of its entries            *)
(* (CountInv), which is how far a sample can rely on it.                   *)
(***************************************************************************)
EXTENDS DictHeap, NumberLemmas, FiniteSetTheorems, SequenceTheorems, TLAPS

Pointers == 0..MaxEntries

EntryType == [key : Keys, val : Values \cup {Unset}, next : Pointers]

HeapType == [Addresses -> {Free} \cup EntryType]

-----------------------------------------------------------------------------
(***************************************************************************)
(* Walks.  From p, the links lk lead through c; c ends at nil or after n   *)
(* steps.                                                                  *)
(***************************************************************************)
Links0(lk) == lk \in [Pointers -> Pointers] /\ lk[Nil] = Nil

Step(lk, p, c, i) == IF i = 1 THEN p ELSE lk[c[i - 1]]

Path(lk, p, n, c) ==
  /\ c \in Seq(Addresses) /\ Len(c) <= n
  /\ \A i \in 1..Len(c) : c[i] = Step(lk, p, c, i)
  /\ Len(c) < n => Step(lk, p, c, Len(c) + 1) = Nil

LEMMA PointersAre == Pointers = Addresses \cup {Nil} /\ Nil \notin Addresses /\ Addresses \subseteq Pointers
BY BoundAssumption DEF Pointers, Addresses, Nil

LEMMA LinksType ==
  ASSUME NEW hp \in HeapType
  PROVE  /\ Links0(Links(hp)) /\ Entries(hp) \subseteq Addresses
         /\ \A p \in Entries(hp) : hp[p] \in EntryType /\ Links(hp)[p] = hp[p].next
<1>1. \A p \in Entries(hp) : p \in Addresses /\ hp[p] \in EntryType /\ hp[p].next \in Pointers
  BY DEF HeapType, Entries, EntryType
<1>2. Nil \in Pointers /\ Nil \notin Entries(hp)
  BY PointersAre, <1>1
<1>3. Links(hp) = [p \in Pointers |-> IF p \in Entries(hp) THEN hp[p].next ELSE Nil]
  BY PointersAre DEF Links
<1>4. Links(hp) \in [Pointers -> Pointers]
  BY <1>1, <1>2, <1>3
<1>5. Links(hp)[Nil] = Nil
  BY <1>2, <1>3
<1>6. \A p \in Entries(hp) : Links(hp)[p] = hp[p].next
  BY <1>1, <1>3, PointersAre
<1> QED BY <1>1, <1>4, <1>5, <1>6 DEF Links0

\* The pointers a walk meets, nil included.
IsWalk(lk, p, n, f) == f = [i \in 1..n |-> IF i = 1 THEN p ELSE lk[f[i - 1]]]

LEMMA WalkExists ==
  ASSUME NEW lk, NEW p, NEW n \in Nat
  PROVE  \E f : IsWalk(lk, p, n, f)
<1> DEFINE S == {m \in Nat : ~ \E f : IsWalk(lk, p, m, f)}
<1> SUFFICES ASSUME S # {} PROVE FALSE
  OBVIOUS
<1>1. PICK m \in S : \A i \in S : m <= i
  BY LeastNumber
<1>2. m # 0
  <2>1. IsWalk(lk, p, 0, <<>>)
    BY DEF IsWalk
  <2> QED BY <2>1
<1>3. m - 1 \in Nat /\ m - 1 \notin S
  BY <1>1, <1>2
<1>4. PICK f : IsWalk(lk, p, m - 1, f)
  BY <1>3
<1> DEFINE g == [i \in 1..m |-> IF i = 1 THEN p ELSE lk[f[i - 1]]]
<1>5. \A i \in 1..(m - 1) : f[i] = IF i = 1 THEN p ELSE lk[f[i - 1]]
  BY <1>4 DEF IsWalk
<1>6. \A i \in 1..m : g[i] = IF i = 1 THEN p ELSE lk[g[i - 1]]
  <2> SUFFICES ASSUME NEW i \in 1..m, i # 1 PROVE g[i] = lk[g[i - 1]]
    OBVIOUS
  <2>1. i - 1 \in 1..(m - 1) /\ i - 1 \in 1..m
    BY <1>3
  <2>2. g[i - 1] = f[i - 1]
    BY <1>5, <2>1
  <2> QED BY <2>2
<1>7. g = [i \in 1..m |-> g[i]]
  OBVIOUS
<1> HIDE DEF g
<1>8. IsWalk(lk, p, m, g)
  BY <1>6, <1>7 DEF IsWalk
<1> QED BY <1>1, <1>8

LEMMA Interval ==
  ASSUME NEW n \in Nat
  PROVE  IsFiniteSet(1..n) /\ Cardinality(1..n) = n
<1>1. IsFiniteSet(1..n) /\ Cardinality(1..n) = IF 1 > n THEN 0 ELSE n - 1 + 1
  BY FS_Interval
<1>2. (IF 1 > n THEN 0 ELSE n - 1 + 1) = n
  OBVIOUS
<1> QED BY <1>1, <1>2

LEMMA WalkIsPath ==
  ASSUME NEW hp \in HeapType, NEW p \in Pointers, NEW n \in Nat
  PROVE  Path(Links(hp), p, n, Walk(hp, p, n))
<1> DEFINE lk == Links(hp)
           at == CHOOSE f : IsWalk(lk, p, n, f)
<1>1. IsWalk(lk, p, n, at)
  BY WalkExists
<1>2. Walk(hp, p, n) = [i \in 1..Cardinality({j \in 1..n : at[j] # Nil}) |-> at[i]]
  BY DEF Walk, IsWalk
<1>3. DOMAIN at = 1..n /\ \A i \in 1..n : at[i] = IF i = 1 THEN p ELSE lk[at[i - 1]]
  <2> DEFINE a == at
  <2>1. IsWalk(lk, p, n, a)
    BY <1>1
  <2> HIDE DEF a
  <2>2. DOMAIN a = 1..n /\ \A i \in 1..n : a[i] = IF i = 1 THEN p ELSE lk[a[i - 1]]
    BY <2>1 DEF IsWalk
  <2> QED BY <2>2 DEF a
<1>4. Links0(lk)
  BY LinksType
<1> HIDE DEF at, lk
<1>5. \A i \in 1..n : at[i] \in Pointers
  <2> DEFINE B == {i \in 1..n : at[i] \notin Pointers}
  <2> SUFFICES ASSUME B # {} PROVE FALSE
    OBVIOUS
  <2>1. B \subseteq Nat
    OBVIOUS
  <2>2. PICK b \in B : \A m \in B : b <= m
    <3> HIDE DEF B
    <3> QED BY <2>1, LeastNumber
  <2>3. b # 1
    BY <1>3
  <2>4. b - 1 \in 1..n /\ ~(b <= b - 1)
    BY <2>3
  <2>5. at[b - 1] \in Pointers
    BY <2>2, <2>4
  <2> QED BY <1>3, <1>4, <2>3, <2>5 DEF Links0
<1>6. PICK z \in 0..n : (\A i \in 1..z : at[i] # Nil) /\ \A i \in 1..n : i > z => at[i] = Nil
  <2> DEFINE Z == {i \in 1..n : at[i] = Nil}
  <2>1. CASE Z = {}
    BY <2>1
  <2>2. CASE Z # {}
    <3>1. Z \subseteq Nat
      OBVIOUS
    <3>2. PICK z \in Z : \A m \in Z : z <= m
      <4> HIDE DEF Z
      <4> QED BY <3>1, <2>2, LeastNumber
    <3>3. \A i \in 1..(z - 1) : at[i] # Nil
      BY <3>2
    <3> DEFINE B == {i \in 1..n : i >= z /\ at[i] # Nil}
    <3>4. B = {}
      <4> SUFFICES ASSUME B # {} PROVE FALSE
        OBVIOUS
      <4>1. B \subseteq Nat
        OBVIOUS
      <4>2. PICK b \in B : \A m \in B : b <= m
        <5> HIDE DEF B
        <5> QED BY <4>1, LeastNumber
      <4>3. b # z /\ b \in 1..n /\ b >= z
        BY <3>2, <4>2
      <4>4. b - 1 \in 1..n /\ ~(b <= b - 1) /\ b - 1 >= z /\ b # 1
        BY <4>3
      <4>5. at[b - 1] = Nil
        BY <4>2, <4>4
      <4> QED BY <1>3, <1>4, <4>2, <4>3, <4>4, <4>5 DEF Links0
    <3>5. z - 1 \in 0..n /\ \A i \in 1..n : i > z - 1 => i >= z
      BY <3>2
    <3> QED BY <3>3, <3>4, <3>5
  <2> QED BY <2>1, <2>2
<1>7. {j \in 1..n : at[j] # Nil} = 1..z
  BY <1>6
<1>8. Walk(hp, p, n) = [i \in 1..z |-> at[i]]
  <2>1. Cardinality(1..z) = z
    BY Interval
  <2> QED BY <1>2, <1>7, <2>1
<1> DEFINE c == [i \in 1..z |-> at[i]]
<1>9. \A i \in 1..z : at[i] \in Addresses
  <2>1. \A i \in 1..z : i \in 1..n
    OBVIOUS
  <2> QED BY <1>5, <1>6, <2>1, PointersAre
<1>10. c \in Seq(Addresses) /\ Len(c) = z
  BY <1>9
<1>11. \A i \in 1..z : c[i] = Step(lk, p, c, i)
  <2> SUFFICES ASSUME NEW i \in 1..z PROVE at[i] = Step(lk, p, c, i)
    OBVIOUS
  <2>1. i \in 1..n /\ (i # 1 => i - 1 \in 1..z)
    OBVIOUS
  <2> QED BY <1>3, <2>1 DEF Step
<1>12. z < n => Step(lk, p, c, z + 1) = Nil
  <2> SUFFICES ASSUME z < n PROVE Step(lk, p, c, z + 1) = Nil
    OBVIOUS
  <2>1. z + 1 \in 1..n /\ z + 1 > z /\ (z + 1 # 1 => z \in 1..z) /\ (z + 1) - 1 = z
    OBVIOUS
  <2>2. at[z + 1] = Nil
    BY <1>6, <2>1
  <2>3. at[z + 1] = IF z + 1 = 1 THEN p ELSE lk[at[z]]
    BY <1>3, <2>1
  <2>4. z + 1 # 1 => c[z] = at[z]
    BY <2>1
  <2> QED BY <2>1, <2>2, <2>3, <2>4 DEF Step
<1> HIDE DEF c
<1>13. Path(lk, p, n, c)
  BY <1>10, <1>11, <1>12 DEF Path
<1> QED BY <1>8, <1>13 DEF lk, c

LEMMA PathUnique ==
  ASSUME NEW lk, NEW p, NEW n \in Nat, NEW c, NEW d, Path(lk, p, n, c), Path(lk, p, n, d)
  PROVE  c = d
<1> USE DEF Path
<1>0. c \in Seq(Addresses) /\ d \in Seq(Addresses) /\ Len(c) \in Nat /\ Len(d) \in Nat
  OBVIOUS
<1>1. \A i \in 1..Len(c) : i <= Len(d) /\ c[i] = d[i]
  <2> DEFINE B == {i \in 1..Len(c) : ~(i <= Len(d) /\ c[i] = d[i])}
  <2> SUFFICES ASSUME B # {} PROVE FALSE
    OBVIOUS
  <2>1. B \subseteq Nat
    OBVIOUS
  <2>2. PICK b \in B : \A m \in B : b <= m
    <3> HIDE DEF B
    <3> QED BY <2>1, LeastNumber
  <2>3. b \in 1..Len(c) /\ ~(b <= Len(d) /\ c[b] = d[b])
    BY <2>2
  <2>4. b # 1 => b - 1 \in 1..Len(c) /\ ~(b <= b - 1)
    BY <2>3, <1>0
  <2>5. b # 1 => b - 1 <= Len(d) /\ c[b - 1] = d[b - 1]
    BY <2>2, <2>4
  <2>6. Step(lk, p, c, b) = Step(lk, p, d, b)
    BY <2>5 DEF Step
  <2>7. c[b] # Nil /\ c[b] = Step(lk, p, c, b)
    BY <1>0, <2>3, PointersAre
  <2>8. b <= Len(d)
    <3> SUFFICES ASSUME b > Len(d) PROVE FALSE
      BY <2>3, <1>0
    <3>1. b = Len(d) + 1 /\ Len(d) < n
      BY <2>3, <2>5, <1>0
    <3> QED BY <3>1, <2>6, <2>7
  <2>9. b \in 1..Len(d)
    BY <2>8, <2>3, <1>0
  <2> QED BY <2>9, <2>3, <2>6, <2>7
<1>2. Len(c) <= Len(d)
  BY <1>0, <1>1
<1>3. Len(c) = Len(d)
  <2> SUFFICES ASSUME Len(c) < Len(d) PROVE FALSE
    BY <1>0, <1>2
  <2> DEFINE b == Len(c) + 1
  <2>1. b \in 1..Len(d) /\ Len(c) < n /\ (b # 1 => b - 1 \in 1..Len(c) /\ b - 1 = Len(c))
    BY <1>0
  <2>2. Step(lk, p, c, b) = Nil
    BY <2>1
  <2>3. Step(lk, p, c, b) = Step(lk, p, d, b)
    BY <1>1, <2>1 DEF Step
  <2>4. d[b] = Step(lk, p, d, b) /\ d[b] # Nil
    BY <2>1, <1>0, PointersAre
  <2> QED BY <2>2, <2>3, <2>4
<1> QED BY <1>0, <1>1, <1>3

\* What a set that the links do not leave contains, once it contains p.
LEMMA PathStays ==
  ASSUME NEW lk, NEW p, NEW n \in Nat, NEW c, Path(lk, p, n, c),
         NEW R, p \in R \cup {Nil}, \A q \in R : lk[q] \in R \cup {Nil}
  PROVE  \A i \in 1..Len(c) : c[i] \in R
<1> DEFINE B == {i \in 1..Len(c) : c[i] \notin R}
<1> SUFFICES ASSUME B # {} PROVE FALSE
  OBVIOUS
<1>0. c \in Seq(Addresses) /\ Len(c) \in Nat /\ \A i \in 1..Len(c) : c[i] = Step(lk, p, c, i) /\ c[i] # Nil
  BY PointersAre DEF Path
<1>1. B \subseteq Nat
  OBVIOUS
<1>2. PICK b \in B : \A m \in B : b <= m
  <2> HIDE DEF B
  <2> QED BY <1>1, LeastNumber
<1>3. b \in 1..Len(c) /\ c[b] \notin R
  BY <1>2
<1>4. b # 1
  BY <1>0, <1>3 DEF Step
<1>5. b - 1 \in 1..Len(c) /\ ~(b <= b - 1)
  BY <1>0, <1>3, <1>4
<1>6. c[b - 1] \in R
  BY <1>2, <1>5
<1> QED BY <1>0, <1>3, <1>4, <1>6 DEF Step

LEMMA AddressesFinite == IsFiniteSet(Addresses) /\ Cardinality(Addresses) = MaxEntries
BY BoundAssumption, Interval DEF Addresses

\* A chain that has MaxEntries + 1 steps meets an entry twice, so that there too
\* the links do not leave it.
LEMMA PathClosed ==
  ASSUME NEW lk, NEW p, NEW c, Path(lk, p, MaxEntries + 1, c)
  PROVE  \A i \in 1..Len(c) : lk[c[i]] \in Range(c) \cup {Nil}
<1> DEFINE N == MaxEntries + 1
<1>0. /\ N \in Nat /\ c \in Seq(Addresses) /\ Len(c) \in Nat /\ Len(c) <= N
      /\ \A i \in 1..Len(c) : c[i] = Step(lk, p, c, i) /\ c[i] # Nil /\ c[i] \in Addresses
  BY PointersAre, BoundAssumption DEF Path
<1>1. \A i \in 1..Len(c) : c[i] \in Range(c)
  BY <1>0 DEF Range
<1>2. \A i \in 1..Len(c) : i # Len(c) => i + 1 \in 1..Len(c) /\ lk[c[i]] = c[i + 1]
  BY <1>0 DEF Step
<1>3. Len(c) < N /\ Len(c) # 0 => lk[c[Len(c)]] = Nil
  BY <1>0 DEF Path, Step
<1>4. CASE Len(c) < N
  BY <1>0, <1>1, <1>2, <1>3, <1>4
<1>5. CASE Len(c) = N
  <2>1. PICK a \in 1..N, b \in 1..N : a < b /\ c[a] = c[b]
    <3> SUFFICES ASSUME \A a, b \in 1..N : a < b => c[a] # c[b] PROVE FALSE
      OBVIOUS
    <3>1. \A a, b \in 1..N : c[a] = c[b] => a = b
      BY <1>0
    <3> DEFINE I == 1..N
    <3>2. IsFiniteSet(I) /\ Cardinality(I) = N
      BY <1>0, Interval
    <3>3. c \in [I -> Addresses] /\ \A a, b \in I : c[a] = c[b] => a = b
      BY <1>0, <1>5, <3>1
    <3> HIDE DEF I
    <3>4. c \in Injection(I, Addresses)
      BY <3>3 DEF Injection, IsInjective
    <3>5. Cardinality(I) <= Cardinality(Addresses)
      BY <3>4, AddressesFinite, FS_Injection
    <3> QED BY <3>2, <3>5, AddressesFinite, BoundAssumption
  <2> DEFINE R == {c[i] : i \in 1..(b - 1)}
  <2>2. \A i \in 1..(b - 1) : i \in 1..N /\ i \in 1..Len(c) /\ c[i] \in R /\ i # Len(c) /\ (i # b - 1 => i + 1 \in 1..(b - 1))
    BY <1>0, <1>5
  <2>3. \A q \in R : lk[q] \in R
    <3> SUFFICES ASSUME NEW i \in 1..(b - 1) PROVE lk[c[i]] \in R
      OBVIOUS
    <3>1. lk[c[i]] = c[i + 1]
      BY <1>2, <2>2
    <3>2. CASE i = b - 1
      <4>1. i + 1 = b /\ a \in 1..(b - 1)
        BY <2>1, <3>2
      <4> QED BY <2>1, <2>2, <3>1, <4>1
    <3>3. CASE i # b - 1
      BY <2>2, <3>1, <3>3
    <3> QED BY <3>2, <3>3
  <2>4. p \in R
    <3>1. 1 \in 1..(b - 1) /\ 1 \in 1..Len(c) /\ c[1] = p
      BY <1>0, <1>5, <2>1 DEF Step
    <3> QED BY <3>1, <2>2
  <2>5. R \subseteq Range(c)
    BY <1>1, <2>2
  <2> HIDE DEF R
  <2>6. \A i \in 1..Len(c) : c[i] \in R
    BY <1>0, <2>3, <2>4, PathStays
  <2> QED BY <2>3, <2>5, <2>6
<1> QED BY <1>0, <1>4, <1>5

LEMMA ChainIsPath ==
  ASSUME NEW hp \in HeapType, NEW p \in Pointers
  PROVE  /\ Path(Links(hp), p, MaxEntries + 1, Chain(hp, p))
         /\ \A c : Path(Links(hp), p, MaxEntries + 1, c) => Chain(hp, p) = c
<1>1. MaxEntries + 1 \in Nat
  BY BoundAssumption
<1>2. Path(Links(hp), p, MaxEntries + 1, Chain(hp, p))
  BY <1>1, WalkIsPath DEF Chain
<1>3. \A c : Path(Links(hp), p, MaxEntries + 1, c) => Chain(hp, p) = c
  BY <1>1, <1>2, PathUnique
<1> QED BY <1>2, <1>3

-----------------------------------------------------------------------------
(***************************************************************************)
(* Assignments to an entry.                                                *)
(***************************************************************************)
\* The same entries, with the same keys.
SameKeys(hp, gp) ==
  /\ gp \in HeapType /\ Entries(gp) = Entries(hp)
  /\ \A p \in Entries(hp) : gp[p].key = hp[p].key

\* The entry e of hp points to q in gp.
NextSet(hp, e, q, gp) ==
  /\ SameKeys(hp, gp)
  /\ \A p \in Entries(hp) : gp[p].val = hp[p].val
  /\ \A p \in Entries(hp) : gp[p].next = IF p = e THEN q ELSE hp[p].next
  /\ gp[e].next = q /\ \A p \in Addresses : p # e => gp[p] = hp[p]

LEMMA NextIsSet ==
  ASSUME NEW hp \in HeapType, NEW e \in Entries(hp), NEW q \in Pointers,
         NEW gp, gp = [hp EXCEPT ![e].next = q]
  PROVE  NextSet(hp, e, q, gp)
<1>1. e \in Addresses /\ hp[e] \in EntryType
  BY LinksType
<1> DEFINE r == [hp[e] EXCEPT !.next = q]
<1>2. r \in EntryType /\ r.key = hp[e].key /\ r.val = hp[e].val /\ r.next = q
  BY <1>1 DEF EntryType
<1>3. gp = [hp EXCEPT ![e] = r]
  OBVIOUS
<1> HIDE DEF r
<1>4. gp \in HeapType /\ gp[e] = r /\ \A p \in Addresses : p # e => gp[p] = hp[p]
  BY <1>1, <1>2, <1>3 DEF HeapType
<1>5. r # Free /\ hp[e] # Free
  BY <1>2, FreeAssumption DEF EntryType, Pointers, Entries
<1>6. Entries(gp) = Entries(hp)
  BY <1>4, <1>5 DEF Entries
<1>7. \A p \in Entries(hp) : p \in Addresses
  BY DEF Entries
<1>8. SameKeys(hp, gp)
  BY <1>2, <1>4, <1>6, <1>7 DEF SameKeys
<1> QED BY <1>2, <1>4, <1>7, <1>8 DEF NextSet

\* The entry e of hp has the value v in gp.
ValueSet(hp, e, v, gp) ==
  /\ SameKeys(hp, gp)
  /\ \A p \in Entries(hp) : gp[p].next = hp[p].next
  /\ \A p \in Entries(hp) : gp[p].val = IF p = e THEN v ELSE hp[p].val
  /\ Links(gp) = Links(hp)

LEMMA ValueIsSet ==
  ASSUME NEW hp \in HeapType, NEW e \in Entries(hp), NEW v \in Values \cup {Unset},
         NEW gp, gp = [hp EXCEPT ![e].val = v]
  PROVE  ValueSet(hp, e, v, gp)
<1>1. e \in Addresses /\ hp[e] \in EntryType
  BY LinksType
<1> DEFINE r == [hp[e] EXCEPT !.val = v]
<1>2. r \in EntryType /\ r.key = hp[e].key /\ r.val = v /\ r.next = hp[e].next
  BY <1>1 DEF EntryType
<1>3. gp = [hp EXCEPT ![e] = r]
  OBVIOUS
<1> HIDE DEF r
<1>4. gp \in HeapType /\ gp[e] = r /\ \A p \in Addresses : p # e => gp[p] = hp[p]
  BY <1>1, <1>2, <1>3 DEF HeapType
<1>5. r # Free /\ hp[e] # Free
  BY <1>2, FreeAssumption DEF EntryType, Pointers, Entries
<1>6. Entries(gp) = Entries(hp)
  BY <1>4, <1>5 DEF Entries
<1>7. \A p \in Entries(hp) : p \in Addresses
  BY DEF Entries
<1>8. \A p \in Entries(hp) : gp[p].next = hp[p].next
  BY <1>2, <1>4, <1>7
<1>9. Links(gp) = Links(hp)
  BY <1>6, <1>8 DEF Links
<1>10. SameKeys(hp, gp)
  BY <1>2, <1>4, <1>6, <1>7 DEF SameKeys
<1> QED BY <1>2, <1>4, <1>7, <1>8, <1>9, <1>10 DEF ValueSet

\* e is a new entry of k in gp.
Made(hp, e, k, v, gp) ==
  /\ gp \in HeapType /\ Entries(gp) = Entries(hp) \cup {e} /\ e \notin Entries(hp) /\ e \in Addresses
  /\ gp[e].key = k /\ gp[e].val = v /\ gp[e].next = Nil
  /\ \A p \in Addresses : p # e => gp[p] = hp[p]

LEMMA EntryIsMade ==
  ASSUME NEW hp \in HeapType, NEW e \in Addresses, hp[e] = Free,
         NEW k \in Keys, NEW v \in Values \cup {Unset},
         NEW gp, gp = [hp EXCEPT ![e] = NewEntry(k, v)]
  PROVE  Made(hp, e, k, v, gp) /\ Links(gp) = Links(hp)
<1> DEFINE r == NewEntry(k, v)
<1>1. r \in EntryType /\ r.key = k /\ r.val = v /\ r.next = Nil
  BY PointersAre DEF EntryType, NewEntry
<1> HIDE DEF r
<1>2. gp \in HeapType /\ gp[e] = r /\ \A p \in Addresses : p # e => gp[p] = hp[p]
  BY <1>1 DEF HeapType, r
<1>3. r # Free
  BY <1>1, FreeAssumption DEF EntryType, Pointers
<1>4. Entries(gp) = Entries(hp) \cup {e} /\ e \notin Entries(hp)
  BY <1>2, <1>3 DEF Entries
<1>5. \A p \in Entries(hp) : gp[p] = hp[p]
  BY <1>2, <1>4 DEF Entries
<1>6. \A p : (IF p \in Entries(gp) THEN gp[p].next ELSE Nil) = IF p \in Entries(hp) THEN hp[p].next ELSE Nil
  <2> TAKE p
  <2>1. CASE p = e
    BY <1>1, <1>2, <1>4, <2>1
  <2>2. CASE p # e
    <3>1. p \in Entries(gp) <=> p \in Entries(hp)
      BY <1>4, <2>2
    <3> QED BY <1>5, <3>1
  <2> QED BY <2>1, <2>2
<1>7. Links(gp) = Links(hp)
  BY <1>6 DEF Links
<1> QED BY <1>1, <1>2, <1>4, <1>7 DEF Made

-----------------------------------------------------------------------------
(***************************************************************************)
(* Remainders.                                                             *)
(***************************************************************************)
Divides(n, m) == \E q \in Nat : m = q * n

LEMMA DivMod ==
  ASSUME NEW x \in Nat, NEW n \in Nat \ {0}
  PROVE  /\ x \div n \in Nat /\ x % n \in 0..(n - 1)
         /\ x = (x \div n) * n + (x % n)
<1>1. x % n \in Nat /\ x % n < n /\ x \div n \in Nat
  OBVIOUS
<1>2. x = (x \div n) * n + (x % n)
  BY SMTT(20)
<1> QED BY <1>1, <1>2

LEMMA ModIs ==
  ASSUME NEW n \in Nat \ {0}, NEW q \in Nat, NEW r \in Nat, r < n
  PROVE  (q * n + r) % n = r
<1> DEFINE x == q * n + r
<1>1. x \in Nat /\ x = q * n + r
  OBVIOUS
<1> HIDE DEF x
<1>2. x % n = r
  BY <1>1, SMTT(20)
<1> QED BY <1>2 DEF x

\* The bucket in a larger table tells the bucket in a smaller one.
LEMMA ModMod ==
  ASSUME NEW x \in Nat, NEW n \in Nat \ {0}, NEW m \in Nat \ {0}, Divides(n, m)
  PROVE  (x % m) % n = x % n
<1>1. PICK q \in Nat : m = q * n
  BY DEF Divides
<1>2. PICK d \in Nat, y \in Nat : x = d * m + y /\ y = x % m
  <2>0. x \div m \in Nat /\ x % m \in 0..(m - 1) /\ x = (x \div m) * m + (x % m)
    BY DivMod
  <2>1. x \div m \in Nat /\ x % m \in Nat /\ x = (x \div m) * m + (x % m)
    BY <2>0
  <2> QED BY <2>1, Zenon
<1>3. PICK e \in Nat, r \in Nat : r < n /\ y = e * n + r /\ r = y % n
  <2>0. y \div n \in Nat /\ y % n \in 0..(n - 1) /\ y = (y \div n) * n + (y % n)
    BY DivMod
  <2>1. y \div n \in Nat /\ y % n \in Nat /\ y % n < n /\ y = (y \div n) * n + (y % n)
    BY <2>0
  <2> QED BY <2>1, Zenon
<1>4. PICK f \in Nat : f = d * q /\ d * m = f * n
  <2>1. d * q \in Nat /\ d * (q * n) = (d * q) * n
    OBVIOUS
  <2> QED BY <1>1, <2>1
<1>5. f + e \in Nat /\ (f + e) * n = f * n + e * n
  OBVIOUS
<1>6. f * n \in Nat /\ e * n \in Nat
  OBVIOUS
<1>7. x = (f + e) * n + r
  <2>1. x = f * n + (e * n + r)
    BY <1>2, <1>3, <1>4
  <2>2. \A a, b \in Nat : a + (b + r) = (a + b) + r
    OBVIOUS
  <2> QED BY <1>5, <1>6, <2>1, <2>2
<1>8. ((f + e) * n + r) % n = r
  BY <1>3, <1>5, ModIs
<1> QED BY <1>2, <1>3, <1>7, <1>8

-----------------------------------------------------------------------------
(***************************************************************************)
(* What holds of the links whatever the calls: an entry points to entries  *)
(* of its own class, which is the remainder of its hash by n, and so does  *)
(* a bucket.                                                               *)
(***************************************************************************)
Belong(hp, n, c) == {p \in Entries(hp) : Hash(hp[p].key, n) = c}

HeapIn(hp, n) ==
  hp \in HeapType /\ \A p \in Entries(hp) : hp[p].next \in Belong(hp, n, Hash(hp[p].key, n)) \cup {Nil}

TableIn(hp, tbl, m, n) ==
  tbl \in [0..(m - 1) -> Pointers] /\ \A i \in 0..(m - 1) : tbl[i] \in Belong(hp, n, i % n) \cup {Nil}

LEMMA HashType ==
  ASSUME NEW k \in Keys, NEW n \in Nat \ {0}
  PROVE  Hash(k, n) \in 0..(n - 1) /\ HashCode[k] \in Nat
<1>1. HashCode[k] \in Nat
  BY HashAssumption
<1>2. HashCode[k] % n \in 0..(n - 1)
  BY <1>1, DivMod
<1> QED BY <1>1, <1>2 DEF Hash

LEMMA HashHash ==
  ASSUME NEW k \in Keys, NEW n \in Nat \ {0}, NEW m \in Nat \ {0}, Divides(n, m)
  PROVE  Hash(k, m) % n = Hash(k, n)
BY HashType, ModMod DEF Hash

LEMMA SameClasses ==
  ASSUME NEW hp, NEW gp, SameKeys(hp, gp), NEW n, NEW c
  PROVE  Belong(gp, n, c) = Belong(hp, n, c)
BY DEF SameKeys, Belong

LEMMA BelongType ==
  ASSUME NEW hp \in HeapType, NEW n, NEW c, NEW p \in Belong(hp, n, c)
  PROVE  /\ p \in Entries(hp) /\ p \in Addresses /\ p \in Pointers /\ p # Nil
         /\ hp[p] \in EntryType /\ hp[p].key \in Keys /\ hp[p].next \in Pointers
         /\ Hash(hp[p].key, n) = c
<1>1. p \in Entries(hp) /\ p \in Addresses /\ hp[p] \in EntryType /\ Hash(hp[p].key, n) = c
  BY LinksType DEF Belong
<1> QED BY <1>1, PointersAre DEF EntryType

\* A pass of the inner loop of rehashStep, and all of them.
Moved(hp, n, m, c, s) ==
  /\ SameKeys(hp, s.heap) /\ HeapIn(s.heap, n) /\ TableIn(s.heap, s.tbl, m, n)
  /\ s.entries \in Belong(hp, n, c) \cup {Nil}
  /\ \A p \in Entries(hp) : s.heap[p].val = hp[p].val
  /\ \A p \in Addresses : p \notin Belong(hp, n, c) => s.heap[p] = hp[p]

LEMMA MoveEntryKeeps ==
  ASSUME NEW n \in Nat \ {0}, NEW m \in Nat \ {0}, Divides(n, m), NEW hp, NEW c, NEW s, Moved(hp, n, m, c, s)
  PROVE  Moved(hp, n, m, c, MoveEntry(s, m))
<1>1. CASE s.entries = Nil
  BY <1>1 DEF MoveEntry
<1>2. CASE s.entries # Nil
  <2> DEFINE e == s.entries
             i == Hash(s.heap[e].key, m)
             gp == [s.heap EXCEPT ![e].next = s.tbl[i]]
             r == MoveEntry(s, m)
  <2>1. r.heap = gp /\ r.tbl = [s.tbl EXCEPT ![i] = e] /\ r.entries = s.heap[e].next
    BY <1>2 DEF MoveEntry
  <2>2. \A d : Belong(s.heap, n, d) = Belong(hp, n, d)
    BY SameClasses DEF Moved
  <2>3. e \in Belong(s.heap, n, c)
    BY <1>2, <2>2 DEF Moved
  <2>4. /\ s.heap \in HeapType /\ e \in Entries(s.heap) /\ e \in Pointers /\ e # Nil
        /\ s.heap[e].key \in Keys /\ s.heap[e].next \in Pointers /\ Hash(s.heap[e].key, n) = c
    BY <2>3, BelongType DEF Moved, HeapIn
  <2>5. i \in 0..(m - 1) /\ i % n = c
    BY <2>4, HashType, HashHash
  <2>6. s.tbl \in [0..(m - 1) -> Pointers] /\ s.tbl[i] \in Belong(s.heap, n, c) \cup {Nil} /\ s.tbl[i] \in Pointers
    BY <2>5 DEF Moved, TableIn
  <2>7. /\ SameKeys(s.heap, gp) /\ gp \in HeapType /\ Entries(gp) = Entries(s.heap)
        /\ \A p \in Entries(s.heap) : gp[p].key = s.heap[p].key /\ gp[p].val = s.heap[p].val
        /\ \A p \in Entries(s.heap) : gp[p].next = IF p = e THEN s.tbl[i] ELSE s.heap[p].next
        /\ \A p \in Addresses : p # e => gp[p] = s.heap[p]
    <3> DEFINE q == s.tbl[i]
    <3>1. q \in Pointers /\ gp = [s.heap EXCEPT ![e].next = q]
      BY <2>6
    <3> HIDE DEF e, i, q, gp
    <3>2. NextSet(s.heap, e, q, gp)
      BY <2>4, <3>1, NextIsSet
    <3> QED BY <3>2 DEF SameKeys, NextSet, q
  <2>8. \A d : Belong(gp, n, d) = Belong(s.heap, n, d)
    BY <2>7, SameClasses
  <2> HIDE DEF e, i, gp, r
  <2>9. HeapIn(gp, n)
    <3> SUFFICES ASSUME NEW p \in Entries(s.heap)
                 PROVE  gp[p].next \in Belong(s.heap, n, Hash(s.heap[p].key, n)) \cup {Nil}
      BY <2>7, <2>8 DEF HeapIn
    <3>1. CASE p = e
      BY <2>4, <2>6, <2>7, <3>1
    <3>2. CASE p # e
      BY <2>7, <3>2 DEF Moved, HeapIn
    <3> QED BY <3>1, <3>2
  <2>10. TableIn(gp, r.tbl, m, n)
    <3>1. r.tbl \in [0..(m - 1) -> Pointers]
      BY <2>1, <2>4, <2>6
    <3>2. \A j \in 0..(m - 1) : r.tbl[j] = IF j = i THEN e ELSE s.tbl[j]
      BY <2>1, <2>6
    <3>3. \A j \in 0..(m - 1) : s.tbl[j] \in Belong(s.heap, n, j % n) \cup {Nil}
      BY DEF Moved, TableIn
    <3> QED BY <2>3, <2>5, <2>8, <3>1, <3>2, <3>3 DEF TableIn
  <2>11. r.entries \in Belong(hp, n, c) \cup {Nil}
    BY <2>1, <2>2, <2>4 DEF Moved, HeapIn
  <2>12. SameKeys(hp, gp) /\ \A p \in Entries(hp) : gp[p].val = hp[p].val
    BY <2>7 DEF Moved, SameKeys
  <2>13. \A p \in Addresses : p \notin Belong(hp, n, c) => gp[p] = hp[p]
    BY <2>2, <2>3, <2>7 DEF Moved
  <2>14. Moved(hp, n, m, c, r)
    BY <2>1, <2>9, <2>10, <2>11, <2>12, <2>13 DEF Moved
  <2> QED BY <2>14 DEF r
<1> QED BY <1>1, <1>2

IsMove(s, m, n, f) == f = [j \in 0..n |-> IF j = 0 THEN s ELSE MoveEntry(f[j - 1], m)]

LEMMA MoveExists ==
  ASSUME NEW s, NEW m, NEW n \in Nat
  PROVE  \E f : IsMove(s, m, n, f)
<1> DEFINE S == {i \in Nat : ~ \E f : IsMove(s, m, i, f)}
<1> SUFFICES ASSUME S # {} PROVE FALSE
  OBVIOUS
<1>1. PICK i \in S : \A j \in S : i <= j
  BY LeastNumber
<1>2. i # 0
  <2>1. IsMove(s, m, 0, [j \in 0..0 |-> s])
    BY DEF IsMove
  <2> QED BY <2>1
<1>3. i - 1 \in Nat /\ i - 1 \notin S
  BY <1>1, <1>2
<1>4. PICK f : IsMove(s, m, i - 1, f)
  BY <1>3
<1> DEFINE g == [j \in 0..i |-> IF j = i THEN MoveEntry(f[i - 1], m) ELSE f[j]]
<1>5. \A j \in 0..(i - 1) : f[j] = IF j = 0 THEN s ELSE MoveEntry(f[j - 1], m)
  BY <1>4 DEF IsMove
<1>6. \A j \in 0..i : g[j] = IF j = 0 THEN s ELSE MoveEntry(g[j - 1], m)
  <2> SUFFICES ASSUME NEW j \in 0..i PROVE g[j] = IF j = 0 THEN s ELSE MoveEntry(g[j - 1], m)
    OBVIOUS
  <2>1. CASE j = i
    <3>1. g[i] = MoveEntry(f[i - 1], m) /\ g[i - 1] = f[i - 1]
      BY <1>3, <1>2
    <3> QED BY <3>1, <2>1, <1>2
  <2>2. CASE j # i
    <3>1. j \in 0..(i - 1) /\ g[j] = f[j] /\ (j # 0 => g[j - 1] = f[j - 1])
      BY <2>2, <1>3
    <3> QED BY <3>1, <1>5
  <2> QED BY <2>1, <2>2
<1>7. g = [j \in 0..i |-> g[j]]
  OBVIOUS
<1> HIDE DEF g
<1>8. IsMove(s, m, i, g)
  BY <1>6, <1>7 DEF IsMove
<1> QED BY <1>1, <1>8

\* MoveChain is the last of the states f[0], f[1] ... of its loop.
LEMMA MoveChainUnfolds ==
  ASSUME NEW hp, NEW tbl, NEW m, NEW e
  PROVE  \E f : /\ MoveChain(hp, tbl, m, e) = f[2 * MaxEntries] /\ 2 * MaxEntries \in Nat
                /\ f[0] = [heap |-> hp, tbl |-> tbl, entries |-> e]
                /\ \A j \in 1..(2 * MaxEntries) : f[j] = MoveEntry(f[j - 1], m)
<1> DEFINE s == [heap |-> hp, tbl |-> tbl, entries |-> e]
           N == 2 * MaxEntries
           f == CHOOSE g : IsMove(s, m, N, g)
<1>0. N \in Nat
  BY BoundAssumption
<1>1. IsMove(s, m, N, f)
  BY <1>0, MoveExists
<1>2. MoveChain(hp, tbl, m, e) = f[N]
  BY DEF MoveChain, IsMove
<1> HIDE DEF f, s, N
<1>3. f[0] = s /\ \A j \in 1..N : f[j] = MoveEntry(f[j - 1], m)
  BY <1>0, <1>1 DEF IsMove
<1> QED BY <1>0, <1>2, <1>3 DEF s, N

LEMMA MoveChainKeeps ==
  ASSUME NEW n \in Nat \ {0}, NEW m \in Nat \ {0}, Divides(n, m), NEW hp, NEW c, NEW tbl, NEW e,
         HeapIn(hp, n), TableIn(hp, tbl, m, n), e \in Belong(hp, n, c) \cup {Nil}
  PROVE  Moved(hp, n, m, c, MoveChain(hp, tbl, m, e))
<1> DEFINE N == 2 * MaxEntries
<1>1. PICK f : /\ MoveChain(hp, tbl, m, e) = f[N] /\ N \in Nat
               /\ f[0] = [heap |-> hp, tbl |-> tbl, entries |-> e]
               /\ \A j \in 1..N : f[j] = MoveEntry(f[j - 1], m)
  BY MoveChainUnfolds
<1>2. Moved(hp, n, m, c, f[0])
  <2>1. f[0].heap = hp /\ f[0].tbl = tbl /\ f[0].entries = e
    BY <1>1
  <2>2. SameKeys(hp, hp)
    BY DEF HeapIn, SameKeys
  <2> QED BY <2>1, <2>2 DEF Moved
<1> HIDE DEF N
<1>3. \A j \in 0..N : Moved(hp, n, m, c, f[j])
  <2> DEFINE B == {j \in 0..N : ~Moved(hp, n, m, c, f[j])}
  <2> SUFFICES ASSUME B # {} PROVE FALSE
    OBVIOUS
  <2>1. B \subseteq Nat
    BY <1>1
  <2>2. PICK b \in B : \A j \in B : b <= j
    <3> HIDE DEF B
    <3> QED BY <2>1, LeastNumber
  <2>3. b \in 0..N /\ b # 0 /\ ~Moved(hp, n, m, c, f[b])
    BY <1>2, <2>2
  <2>4. b - 1 \in 0..N /\ b \in 1..N /\ ~(b <= b - 1)
    BY <1>1, <2>3
  <2>5. Moved(hp, n, m, c, f[b - 1])
    BY <2>2, <2>4
  <2>6. Moved(hp, n, m, c, f[b])
    BY <1>1, <2>4, <2>5, MoveEntryKeeps
  <2> QED BY <2>3, <2>6
<1>4. N \in 0..N
  BY <1>1
<1> QED BY <1>1, <1>3, <1>4

-----------------------------------------------------------------------------
(***************************************************************************)
(* rehashStep.                                                             *)
(***************************************************************************)
Tables == UNION {[0..(m - 1) -> Pointers] : m \in Nat}

TableType ==
  [table : Tables, size : Nat \ {0}, rehashingIdx : Nat \cup {-1}, rehashingSize : Nat,
   rehashingTbl : Tables, count : Nat]

Books(t) ==
  IF Rehashing(t) THEN t.rehashingIdx <= t.size /\ t.rehashingSize = 2 * t.size
  ELSE t.rehashingIdx = -1 /\ t.rehashingSize = 0

\* The links respect the classes, in the heap and in both arrays.
Loose(hp, t, n) ==
  /\ HeapIn(hp, n) /\ t \in TableType /\ Books(t) /\ Divides(n, t.size)
  /\ TableIn(hp, t.table, t.size, n) /\ TableIn(hp, t.rehashingTbl, t.rehashingSize, n)

LEMMA DoubleDivides ==
  ASSUME NEW n \in Nat \ {0}, NEW m \in Nat \ {0}, Divides(n, m)
  PROVE  Divides(n, 2 * m) /\ 2 * m \in Nat \ {0}
<1>1. PICK q \in Nat : m = q * n
  BY DEF Divides
<1>2. 2 * q \in Nat /\ 2 * m = (2 * q) * n
  BY <1>1
<1> QED BY <1>2 DEF Divides

LEMMA TableKept ==
  ASSUME NEW hp, NEW gp, SameKeys(hp, gp), NEW tbl, NEW m, NEW n, TableIn(hp, tbl, m, n)
  PROVE  TableIn(gp, tbl, m, n)
BY SameClasses DEF TableIn

LEMMA TableSet ==
  ASSUME NEW hp, NEW tbl, NEW m \in Nat, NEW n, TableIn(hp, tbl, m, n),
         NEW i \in 0..(m - 1), NEW p \in Pointers, p \in Belong(hp, n, i % n) \cup {Nil}
  PROVE  TableIn(hp, [tbl EXCEPT ![i] = p], m, n) /\ [tbl EXCEPT ![i] = p] \in Tables
<1> DEFINE u == [tbl EXCEPT ![i] = p]
<1>1. u \in [0..(m - 1) -> Pointers] /\ \A j \in 0..(m - 1) : u[j] = IF j = i THEN p ELSE tbl[j]
  BY DEF TableIn
<1>2. \A j \in 0..(m - 1) : tbl[j] \in Belong(hp, n, j % n) \cup {Nil}
  BY DEF TableIn
<1> HIDE DEF u
<1>3. TableIn(hp, u, m, n) /\ u \in Tables
  BY <1>1, <1>2 DEF TableIn, Tables
<1> QED BY <1>3 DEF u

\* What some passes of the outer loop make of hp and t.
Carried(hp, t, n, s) ==
  /\ SameKeys(hp, s.heap) /\ Loose(s.heap, s.h, n) /\ s.hangs \in BOOLEAN /\ Rehashing(s.h)
  /\ s.h.size = t.size /\ s.h.count = t.count /\ s.h.rehashingIdx >= t.rehashingIdx
  /\ \A p \in Entries(hp) : s.heap[p].val = hp[p].val
  /\ \A p \in Entries(hp) :
       (\A i \in t.rehashingIdx..(s.h.rehashingIdx - 1) : Hash(hp[p].key, n) # i % n) => s.heap[p] = hp[p]
  /\ \A i \in 0..(t.size - 1) :
       s.h.table[i] = IF i >= t.rehashingIdx /\ i < s.h.rehashingIdx THEN Nil ELSE t.table[i]

LEMMA MoveBucketKeeps ==
  ASSUME NEW n \in Nat \ {0}, NEW hp \in HeapType, NEW t \in TableType, Rehashing(t), NEW s, Carried(hp, t, n, s)
  PROVE  /\ Carried(hp, t, n, MoveBucket(s))
         /\ MoveBucket(s).hangs = FALSE => s.hangs = FALSE
         /\ MoveBucket(s).hangs = FALSE =>
              MoveBucket(s).h.rehashingIdx = IF s.h.rehashingIdx = t.size THEN t.size ELSE s.h.rehashingIdx + 1
<1> DEFINE g == s.h
           x == g.rehashingIdx
<1>0. /\ g \in TableType /\ Books(g) /\ HeapIn(s.heap, n) /\ s.heap \in HeapType
      /\ Divides(n, g.size) /\ TableIn(s.heap, g.table, g.size, n)
      /\ TableIn(s.heap, g.rehashingTbl, g.rehashingSize, n) /\ Rehashing(g) /\ g.size = t.size
  BY DEF Carried, Loose, HeapIn
<1>1. CASE s.hangs \/ g.rehashingIdx = g.size
  BY <1>0, <1>1 DEF MoveBucket, Carried
<1>2. CASE ~(s.hangs \/ g.rehashingIdx = g.size)
  <2> DEFINE m == MoveChain(s.heap, g.rehashingTbl, g.rehashingSize, g.table[x])
             u == [g.table EXCEPT ![x] = Nil]
             d == [g EXCEPT !.table[x] = Nil, !.rehashingTbl = m.tbl, !.rehashingIdx = x + 1]
             r == MoveBucket(s)
  <2>1. r = [heap |-> m.heap, hangs |-> m.entries # Nil, h |-> d]
    BY <1>2 DEF MoveBucket
  <2>2. /\ x \in Nat /\ g.size \in Nat \ {0} /\ g.rehashingSize = 2 * g.size /\ x < g.size /\ x \in 0..(g.size - 1)
        /\ g.rehashingSize \in Nat \ {0} /\ Divides(n, g.rehashingSize) /\ g.table[x] \in Belong(s.heap, n, x % n) \cup {Nil}
    <3>1. x \in Nat /\ g.size \in Nat \ {0} /\ g.rehashingSize = 2 * g.size /\ x < g.size
      BY <1>0, <1>2 DEF TableType, Books, Rehashing
    <3>2. g.rehashingSize \in Nat \ {0} /\ Divides(n, g.rehashingSize)
      BY <1>0, <3>1, DoubleDivides
    <3>3. x \in 0..(g.size - 1)
      BY <3>1
    <3> HIDE DEF x, g
    <3> QED BY <1>0, <3>1, <3>2, <3>3 DEF TableIn
  <2>3. Moved(s.heap, n, g.rehashingSize, x % n, m)
    <3> HIDE DEF g, x
    <3> QED BY <1>0, <2>2, MoveChainKeeps
  <2> HIDE DEF m
  <2>4. /\ SameKeys(s.heap, m.heap) /\ HeapIn(m.heap, n) /\ TableIn(m.heap, m.tbl, g.rehashingSize, n)
        /\ \A p \in Entries(s.heap) : m.heap[p].val = s.heap[p].val
        /\ \A p \in Addresses : p \notin Belong(s.heap, n, x % n) => m.heap[p] = s.heap[p]
    BY <2>3 DEF Moved
  <2>5. TableIn(m.heap, u, g.size, n) /\ u \in Tables
    <3>1. TableIn(m.heap, g.table, g.size, n)
      BY <1>0, <2>4, TableKept
    <3> HIDE DEF g, x
    <3> QED BY <2>2, <3>1, TableSet, PointersAre
  <2>6. m.tbl \in Tables
    BY <2>2, <2>4 DEF TableIn, Tables
  <2>7. /\ d = [g EXCEPT !.table = u, !.rehashingTbl = m.tbl, !.rehashingIdx = x + 1]
        /\ d.table = u /\ d.rehashingTbl = m.tbl /\ d.rehashingIdx = x + 1 /\ d.size = g.size
        /\ d.rehashingSize = g.rehashingSize /\ d.count = g.count
    BY <1>0 DEF TableType
  <2>8. d \in TableType /\ Books(d) /\ Rehashing(d)
    <3>0. x + 1 \in Nat /\ x + 1 <= g.size
      BY <2>2
    <3> HIDE DEF u, d, x
    <3>1. d \in TableType
      BY <1>0, <2>5, <2>6, <2>7, <3>0 DEF TableType
    <3>2. Rehashing(d)
      BY <2>7, <3>0 DEF Rehashing
    <3> QED BY <2>2, <2>7, <3>0, <3>1, <3>2 DEF Books
  <2> HIDE DEF d
  <2>9. Loose(m.heap, d, n)
    BY <1>0, <2>4, <2>5, <2>7, <2>8 DEF Loose
  <2>10. SameKeys(hp, m.heap) /\ Entries(s.heap) = Entries(hp)
    BY <2>4 DEF Carried, SameKeys
  <2>11. \A p \in Entries(hp) : m.heap[p].val = hp[p].val
    BY <2>4, <2>10 DEF Carried
  <2>12. /\ t.rehashingIdx \in Nat /\ x >= t.rehashingIdx
         /\ \A i \in t.rehashingIdx..(x - 1) : i \in t.rehashingIdx..((x + 1) - 1)
         /\ x \in t.rehashingIdx..((x + 1) - 1)
    <3>1. t.rehashingIdx \in Nat
      BY DEF TableType, Rehashing
    <3>2. x >= t.rehashingIdx
      BY DEF Carried
    <3> HIDE DEF x
    <3> QED BY <2>2, <3>1, <3>2
  <2>13. \A p \in Entries(hp) :
           (\A i \in t.rehashingIdx..((x + 1) - 1) : Hash(hp[p].key, n) # i % n) => m.heap[p] = hp[p]
    <3> SUFFICES ASSUME NEW p \in Entries(hp), \A i \in t.rehashingIdx..((x + 1) - 1) : Hash(hp[p].key, n) # i % n
                 PROVE  m.heap[p] = hp[p]
      OBVIOUS
    <3>1. s.heap[p] = hp[p]
      BY <2>12 DEF Carried
    <3>2. Hash(hp[p].key, n) # x % n
      BY <2>12
    <3>3. p \in Addresses /\ p \notin Belong(s.heap, n, x % n)
      BY <3>1, <3>2 DEF Belong, Entries
    <3> QED BY <2>4, <3>1, <3>3
  <2>14. \A i \in 0..(t.size - 1) :
           u[i] = IF i >= t.rehashingIdx /\ i < x + 1 THEN Nil ELSE t.table[i]
    <3> SUFFICES ASSUME NEW i \in 0..(t.size - 1)
                 PROVE  u[i] = IF i >= t.rehashingIdx /\ i < x + 1 THEN Nil ELSE t.table[i]
      OBVIOUS
    <3>1. g.table \in [0..(g.size - 1) -> Pointers]
      BY <1>0 DEF TableIn
    <3>2. g.table[i] = IF i >= t.rehashingIdx /\ i < x THEN Nil ELSE t.table[i]
      BY DEF Carried
    <3>3. u[i] = IF i = x THEN Nil ELSE g.table[i]
      BY <1>0, <3>1
    <3> HIDE DEF u, x
    <3>4. i \in Nat /\ (i < x + 1 <=> i < x \/ i = x)
      BY <2>2
    <3> QED BY <2>12, <3>2, <3>3, <3>4
  <2> HIDE DEF u, x, g
  <2>15. r.heap = m.heap /\ r.h = d /\ r.hangs \in BOOLEAN
    BY <2>1
  <2>16. x + 1 >= t.rehashingIdx /\ x # t.size
    BY <1>0, <2>2, <2>12
  <2> HIDE DEF r
  <2>17. d.size = t.size /\ d.count = t.count
    BY <1>0, <2>7 DEF Carried, g
  <2>18. Carried(hp, t, n, r)
    BY <2>7, <2>8, <2>9, <2>10, <2>11, <2>13, <2>14, <2>15, <2>16, <2>17 DEF Carried
  <2>19. s.hangs = FALSE
    BY <1>2 DEF Carried
  <2> QED BY <2>7, <2>15, <2>16, <2>18, <2>19 DEF r, x, g
<1> QED BY <1>1, <1>2

IsCarry(s, n, f) == f = [j \in 0..n |-> IF j = 0 THEN s ELSE MoveBucket(f[j - 1])]

LEMMA CarryExists ==
  ASSUME NEW s, NEW n \in Nat
  PROVE  \E f : IsCarry(s, n, f)
<1> DEFINE S == {i \in Nat : ~ \E f : IsCarry(s, i, f)}
<1> SUFFICES ASSUME S # {} PROVE FALSE
  OBVIOUS
<1>1. PICK i \in S : \A j \in S : i <= j
  BY LeastNumber
<1>2. i # 0
  <2>1. IsCarry(s, 0, [j \in 0..0 |-> s])
    BY DEF IsCarry
  <2> QED BY <2>1
<1>3. i - 1 \in Nat /\ i - 1 \notin S
  BY <1>1, <1>2
<1>4. PICK f : IsCarry(s, i - 1, f)
  BY <1>3
<1> DEFINE g == [j \in 0..i |-> IF j = i THEN MoveBucket(f[i - 1]) ELSE f[j]]
<1>5. \A j \in 0..(i - 1) : f[j] = IF j = 0 THEN s ELSE MoveBucket(f[j - 1])
  BY <1>4 DEF IsCarry
<1>6. \A j \in 0..i : g[j] = IF j = 0 THEN s ELSE MoveBucket(g[j - 1])
  <2> SUFFICES ASSUME NEW j \in 0..i PROVE g[j] = IF j = 0 THEN s ELSE MoveBucket(g[j - 1])
    OBVIOUS
  <2>1. CASE j = i
    <3>1. g[i] = MoveBucket(f[i - 1]) /\ g[i - 1] = f[i - 1]
      BY <1>3, <1>2
    <3> QED BY <3>1, <2>1, <1>2
  <2>2. CASE j # i
    <3>1. j \in 0..(i - 1) /\ g[j] = f[j] /\ (j # 0 => g[j - 1] = f[j - 1])
      BY <2>2, <1>3
    <3> QED BY <3>1, <1>5
  <2> QED BY <2>1, <2>2
<1>7. g = [j \in 0..i |-> g[j]]
  OBVIOUS
<1> HIDE DEF g
<1>8. IsCarry(s, i, g)
  BY <1>6, <1>7 DEF IsCarry
<1> QED BY <1>1, <1>8

LEMMA MoveBucketsUnfolds ==
  ASSUME NEW s
  PROVE  \E f : /\ MoveBuckets(s) = f[RehashingBuckets] /\ f[0] = s
                /\ \A j \in 1..RehashingBuckets : f[j] = MoveBucket(f[j - 1])
<1> DEFINE N == RehashingBuckets
           f == CHOOSE g : IsCarry(s, N, g)
<1>0. N \in Nat
  BY BucketsAssumption
<1>1. IsCarry(s, N, f)
  BY <1>0, CarryExists
<1>2. MoveBuckets(s) = f[N]
  BY DEF MoveBuckets, IsCarry
<1> HIDE DEF f, N
<1>3. f[0] = s /\ \A j \in 1..N : f[j] = MoveBucket(f[j - 1])
  BY <1>0, <1>1 DEF IsCarry
<1> QED BY <1>2, <1>3 DEF N

\* Where a step ends.
StepEnd(t) ==
  IF t.rehashingIdx + RehashingBuckets < t.size THEN t.rehashingIdx + RehashingBuckets ELSE t.size

LEMMA MoveBucketsKeeps ==
  ASSUME NEW n \in Nat \ {0}, NEW hp, NEW t, Loose(hp, t, n), Rehashing(t)
  PROVE  /\ Carried(hp, t, n, MoveBuckets(Working(hp, t)))
         /\ LET m == MoveBuckets(Working(hp, t))
            IN m.hangs = FALSE => m.h.rehashingIdx = StepEnd(t)
<1> DEFINE N == RehashingBuckets
           w == Working(hp, t)
           End(j) == IF t.rehashingIdx + j < t.size THEN t.rehashingIdx + j ELSE t.size
<1>0. hp \in HeapType /\ t \in TableType /\ t.rehashingIdx \in Nat /\ t.size \in Nat /\ t.rehashingIdx <= t.size
  BY DEF Loose, HeapIn, TableType, Rehashing, Books
<1>1. PICK f : MoveBuckets(w) = f[N] /\ f[0] = w /\ \A j \in 1..N : f[j] = MoveBucket(f[j - 1])
  BY MoveBucketsUnfolds
<1>2. Carried(hp, t, n, f[0]) /\ f[0].h.rehashingIdx = End(0)
  <2>1. w.heap = hp /\ w.h = t /\ w.hangs = FALSE
    BY DEF Working
  <2> HIDE DEF w
  <2>2. SameKeys(hp, hp)
    BY <1>0 DEF SameKeys
  <2>3. \A i \in 0..(t.size - 1) : ~(i >= t.rehashingIdx /\ i < t.rehashingIdx)
    BY <1>0
  <2>4. t.rehashingIdx >= t.rehashingIdx /\ t.rehashingIdx = End(0)
    BY <1>0
  <2> HIDE DEF End
  <2> QED BY <1>1, <2>1, <2>2, <2>3, <2>4 DEF Carried
<1> DEFINE P(j) == Carried(hp, t, n, f[j]) /\ (f[j].hangs = FALSE => f[j].h.rehashingIdx = End(j))
<1>3. \A j \in 0..N : P(j)
  <2> DEFINE B == {j \in 0..N : ~P(j)}
  <2> SUFFICES ASSUME B # {} PROVE FALSE
    OBVIOUS
  <2>0. N \in Nat
    BY BucketsAssumption
  <2>1. B \subseteq Nat
    BY <2>0
  <2>2. PICK b \in B : \A j \in B : b <= j
    <3> HIDE DEF B
    <3> QED BY <2>1, LeastNumber
  <2>3. b \in 0..N /\ b # 0 /\ ~P(b)
    BY <1>2, <2>2
  <2>4. b - 1 \in 0..N /\ b \in 1..N /\ ~(b <= b - 1)
    BY <2>0, <2>3
  <2>5. P(b - 1)
    BY <2>2, <2>4
  <2>6. f[b] = MoveBucket(f[b - 1])
    BY <1>1, <2>4
  <2>7. /\ Carried(hp, t, n, f[b])
        /\ f[b].hangs = FALSE => f[b - 1].hangs = FALSE
        /\ f[b].hangs = FALSE =>
             f[b].h.rehashingIdx = IF f[b - 1].h.rehashingIdx = t.size THEN t.size ELSE f[b - 1].h.rehashingIdx + 1
    <3>1. Carried(hp, t, n, f[b - 1])
      BY <2>5
    <3> DEFINE r == f[b - 1]
    <3>2. Carried(hp, t, n, r)
      BY <3>1
    <3> HIDE DEF P, r
    <3>3. /\ Carried(hp, t, n, MoveBucket(r))
          /\ MoveBucket(r).hangs = FALSE => r.hangs = FALSE
          /\ MoveBucket(r).hangs = FALSE =>
               MoveBucket(r).h.rehashingIdx = IF r.h.rehashingIdx = t.size THEN t.size ELSE r.h.rehashingIdx + 1
      BY <1>0, <3>2, MoveBucketKeeps
    <3>4. f[b] = MoveBucket(r)
      BY <2>6 DEF r
    <3> QED BY <3>3, <3>4 DEF r
  <2>8. (IF End(b - 1) = t.size THEN t.size ELSE End(b - 1) + 1) = End(b)
    BY <1>0, <2>0, <2>3
  <2> QED BY <2>3, <2>5, <2>7, <2>8
<1>4. N \in 0..N /\ End(N) = StepEnd(t)
  BY BucketsAssumption DEF StepEnd
<1>5. P(N)
  BY <1>3, <1>4
<1> HIDE DEF N, End, w
<1> QED BY <1>1, <1>4, <1>5 DEF w

\* Between two calls a rehash that goes on has buckets to move.
Between(t) == Rehashing(t) => t.rehashingIdx < t.size

LEMMA InstalledKeeps ==
  ASSUME NEW n \in Nat \ {0}, NEW hp, NEW t, Loose(hp, t, n), Rehashing(t)
  PROVE  /\ Loose(hp, Installed(t), n) /\ Between(Installed(t)) /\ Installed(t).count = t.count
         /\ Rehashing(Installed(t)) => Installed(t) = t
<1>0. t \in TableType /\ Books(t) /\ t.size \in Nat \ {0} /\ t.rehashingIdx \in Nat
  BY DEF Loose, TableType, Rehashing
<1>1. CASE t.rehashingIdx # t.size
  BY <1>0, <1>1 DEF Installed, Between, Books
<1>2. CASE t.rehashingIdx = t.size
  <2> DEFINE g == Installed(t)
  <2>1. g = [t EXCEPT !.table = t.rehashingTbl, !.size = t.rehashingSize,
                      !.rehashingTbl = <<>>, !.rehashingIdx = -1, !.rehashingSize = 0]
    BY <1>2 DEF Installed
  <2>2. /\ g.table = t.rehashingTbl /\ g.size = t.rehashingSize /\ g.rehashingTbl = <<>>
        /\ g.rehashingIdx = -1 /\ g.rehashingSize = 0 /\ g.count = t.count
    BY <1>0, <2>1 DEF TableType
  <2>3. Divides(n, t.rehashingSize) /\ t.rehashingSize \in Nat \ {0}
    BY <1>0, DoubleDivides DEF Loose, Books
  <2>4. <<>> \in [0..(0 - 1) -> Pointers] /\ 0..(0 - 1) = {}
    OBVIOUS
  <2>5. TableIn(hp, <<>>, 0, n) /\ <<>> \in Tables
    BY <2>4 DEF TableIn, Tables
  <2> HIDE DEF g
  <2>6. g \in TableType
    <3>1. t.rehashingTbl \in Tables
      BY <1>0 DEF TableType
    <3> QED BY <1>0, <2>1, <2>3, <2>5, <3>1 DEF TableType
  <2>7. ~Rehashing(g)
    BY <2>2 DEF Rehashing
  <2>8. Books(g) /\ Between(g)
    BY <2>2, <2>7 DEF Books, Between
  <2>9. Loose(hp, g, n)
    BY <2>2, <2>3, <2>5, <2>6, <2>8 DEF Loose
  <2> QED BY <2>2, <2>7, <2>8, <2>9 DEF g
<1> QED BY <1>1, <1>2

LEMMA SteppedKeeps ==
  ASSUME NEW n \in Nat \ {0}, NEW hp, NEW t, Loose(hp, t, n), Between(t), NEW s, s = Stepped(hp, t)
  PROVE  /\ SameKeys(hp, s.heap) /\ Loose(s.heap, s.h, n) /\ Between(s.h) /\ s.hangs \in BOOLEAN
         /\ s.h.count = t.count /\ \A p \in Entries(hp) : s.heap[p].val = hp[p].val
         /\ Rehashing(s.h) => Rehashing(t) /\ Carried(hp, t, n, s)
<1>1. CASE ~Rehashing(t)
  <2>1. s = Working(hp, t)
    BY <1>1 DEF Stepped
  <2>2. s.heap = hp /\ s.h = t /\ s.hangs = FALSE
    BY <2>1 DEF Working
  <2>3. SameKeys(hp, hp)
    BY DEF Loose, HeapIn, SameKeys
  <2> QED BY <1>1, <2>2, <2>3
<1>2. CASE Rehashing(t)
  <2> DEFINE m == MoveBuckets(Working(hp, t))
  <2>1. s = RehashStep(hp, t)
    BY <1>2 DEF Stepped
  <2>2. s.heap = m.heap /\ s.h = Installed(m.h) /\ s.hangs = m.hangs
    BY <2>1 DEF RehashStep
  <2>3. Carried(hp, t, n, m)
    BY <1>2, MoveBucketsKeeps
  <2> HIDE DEF m
  <2>4. /\ SameKeys(hp, m.heap) /\ Loose(m.heap, m.h, n) /\ Rehashing(m.h) /\ m.hangs \in BOOLEAN
        /\ m.h.count = t.count /\ \A p \in Entries(hp) : m.heap[p].val = hp[p].val
    BY <2>3 DEF Carried
  <2>5. /\ Loose(m.heap, s.h, n) /\ Between(s.h) /\ s.h.count = m.h.count
        /\ Rehashing(s.h) => s.h = m.h
    BY <2>2, <2>4, InstalledKeeps
  <2>6. Rehashing(s.h) => Carried(hp, t, n, s)
    BY <2>2, <2>3, <2>5 DEF Carried
  <2> QED BY <1>2, <2>2, <2>4, <2>5, <2>6
<1> QED BY <1>1, <1>2

-----------------------------------------------------------------------------
(***************************************************************************)
(* Linking, unlinking and collecting entries.                              *)
(***************************************************************************)
LEMMA MinIs ==
  ASSUME NEW S, S \subseteq Nat, S # {}
  PROVE  Min(S) \in S /\ \A i \in S : Min(S) <= i
<1>1. \E x \in S : \A y \in S : x =< y
  BY LeastNumber
<1> QED BY <1>1 DEF Min

\* A chain of entries of R, of any length.
ChainIn(hp, p, R, c) ==
  /\ c \in Seq(Addresses) /\ Len(c) \in Nat /\ DOMAIN c = 1..Len(c)
  /\ \A i \in 1..Len(c) : c[i] \in R /\ c[i] # Nil
  /\ p = Nil => c = <<>>
  /\ p # Nil => Len(c) >= 1 /\ c[1] = p
  /\ \A i \in 1..Len(c) : i + 1 \in 1..Len(c) => hp[c[i]].next = c[i + 1]
  /\ \A i \in 1..Len(c) : hp[c[i]].next \in Range(c) \cup {Nil}
  /\ Len(c) <= MaxEntries /\ Len(c) # 0 => hp[c[Len(c)]].next = Nil

LEMMA ChainSteps ==
  ASSUME NEW hp \in HeapType, NEW p \in Pointers, NEW c, c = Chain(hp, p),
         NEW R, R \subseteq Entries(hp), p \in R \cup {Nil}, \A q \in R : hp[q].next \in R \cup {Nil}
  PROVE  ChainIn(hp, p, R, c)
<1> DEFINE lk == Links(hp)
           N == MaxEntries + 1
<1>0. N \in Nat /\ N > 0 /\ (Len(c) \in Nat => (Len(c) <= MaxEntries <=> Len(c) < N))
  BY BoundAssumption
<1>1. Path(lk, p, N, c)
  BY ChainIsPath
<1>2. \A q \in Entries(hp) : lk[q] = hp[q].next
  BY LinksType
<1>3. \A i \in 1..Len(c) : lk[c[i]] \in Range(c) \cup {Nil}
  BY <1>1, PathClosed
<1> HIDE DEF lk, N
<1>4. \A q \in R : lk[q] \in R \cup {Nil}
  BY <1>2
<1>5. \A i \in 1..Len(c) : c[i] \in R
  BY <1>0, <1>1, <1>4, PathStays
<1>6. /\ c \in Seq(Addresses) /\ Len(c) \in Nat /\ DOMAIN c = 1..Len(c)
      /\ \A i \in 1..Len(c) : c[i] = Step(lk, p, c, i)
      /\ Len(c) < N => Step(lk, p, c, Len(c) + 1) = Nil
  BY <1>1 DEF Path
<1>7. \A i \in 1..Len(c) : c[i] \in R /\ c[i] # Nil /\ lk[c[i]] = hp[c[i]].next
  BY <1>2, <1>5, <1>6, PointersAre
<1>8. p = Nil => c = <<>>
  <2> SUFFICES ASSUME p = Nil, Len(c) # 0 PROVE FALSE
    BY <1>6
  <2>1. 1 \in 1..Len(c)
    BY <1>6
  <2> QED BY <1>6, <1>7, <2>1 DEF Step
<1>9. p # Nil => Len(c) >= 1 /\ c[1] = p
  <2> SUFFICES ASSUME p # Nil PROVE Len(c) >= 1 /\ c[1] = p
    OBVIOUS
  <2>1. Len(c) # 0
    BY <1>0, <1>6 DEF Step
  <2>2. 1 \in 1..Len(c)
    BY <1>6, <2>1
  <2> QED BY <1>6, <2>2 DEF Step
<1>10. \A i \in 1..Len(c) : i + 1 \in 1..Len(c) => lk[c[i]] = c[i + 1]
  BY <1>6 DEF Step
<1>11. Len(c) <= MaxEntries /\ Len(c) # 0 => lk[c[Len(c)]] = Nil /\ Len(c) \in 1..Len(c)
  BY <1>0, <1>6 DEF Step
<1>12. \A i \in 1..Len(c) : i + 1 \in 1..Len(c) => hp[c[i]].next = c[i + 1]
  BY <1>7, <1>10
<1>13. Len(c) <= MaxEntries /\ Len(c) # 0 => hp[c[Len(c)]].next = Nil
  BY <1>7, <1>11
<1>14. \A i \in 1..Len(c) : hp[c[i]].next \in Range(c) \cup {Nil}
  BY <1>3, <1>7
<1> QED BY <1>6, <1>7, <1>8, <1>9, <1>12, <1>13, <1>14 DEF ChainIn

LEMMA ChainClass ==
  ASSUME NEW n, NEW hp, HeapIn(hp, n), NEW d, NEW p \in Belong(hp, n, d) \cup {Nil}, NEW c, c = Chain(hp, p)
  PROVE  ChainIn(hp, p, Belong(hp, n, d), c)
<1> DEFINE R == Belong(hp, n, d)
<1>1. hp \in HeapType /\ R \subseteq Entries(hp) /\ \A q \in R : Hash(hp[q].key, n) = d
  BY DEF HeapIn, Belong
<1>2. p \in Pointers
  BY <1>1, PointersAre, BelongType
<1>3. \A q \in R : hp[q].next \in R \cup {Nil}
  BY <1>1 DEF HeapIn
<1>4. p \in R \cup {Nil}
  OBVIOUS
<1> HIDE DEF R
<1>5. ChainIn(hp, p, R, c)
  BY <1>1, <1>2, <1>3, <1>4, ChainSteps
<1> QED BY <1>5 DEF R

\* One link within a class.
LEMMA NextKeeps ==
  ASSUME NEW n, NEW hp, HeapIn(hp, n), NEW d, NEW e \in Belong(hp, n, d), NEW q \in Belong(hp, n, d) \cup {Nil},
         NEW gp, gp = [hp EXCEPT ![e].next = q]
  PROVE  SameKeys(hp, gp) /\ HeapIn(gp, n) /\ \A p \in Entries(hp) : gp[p].val = hp[p].val
<1>1. hp \in HeapType /\ e \in Entries(hp) /\ q \in Pointers /\ Hash(hp[e].key, n) = d
  BY BelongType, PointersAre DEF HeapIn
<1>2. /\ SameKeys(hp, gp)
      /\ \A p \in Entries(hp) : gp[p].val = hp[p].val
      /\ \A p \in Entries(hp) : gp[p].next = IF p = e THEN q ELSE hp[p].next
      /\ \A p \in Addresses : p # e => gp[p] = hp[p]
  <2>1. NextSet(hp, e, q, gp)
    BY <1>1, NextIsSet
  <2> QED BY <2>1 DEF NextSet
<1>3. \A c : Belong(gp, n, c) = Belong(hp, n, c)
  BY <1>2, SameClasses
<1>4. gp \in HeapType /\ Entries(gp) = Entries(hp) /\ \A p \in Entries(hp) : gp[p].key = hp[p].key
  BY <1>2 DEF SameKeys
<1>5. \A p \in Entries(hp) : gp[p].next \in Belong(hp, n, Hash(hp[p].key, n)) \cup {Nil}
  BY <1>1, <1>2 DEF HeapIn
<1>6. HeapIn(gp, n)
  BY <1>3, <1>4, <1>5 DEF HeapIn
<1> QED BY <1>2, <1>6

LEMMA LinkedKeeps ==
  ASSUME NEW n \in Nat \ {0}, NEW m \in Nat, NEW hp, HeapIn(hp, n), NEW tbl, TableIn(hp, tbl, m, n),
         NEW i \in 0..(m - 1), NEW e \in Belong(hp, n, i % n), NEW l, l = Linked(hp, tbl, i, e)
  PROVE  /\ SameKeys(hp, l.heap) /\ HeapIn(l.heap, n) /\ TableIn(l.heap, l.tbl, m, n) /\ l.tbl \in Tables
         /\ \A p \in Entries(hp) : l.heap[p].val = hp[p].val
<1>0. hp \in HeapType /\ e \in Pointers /\ SameKeys(hp, hp)
  <2>1. hp \in HeapType
    BY DEF HeapIn
  <2>2. e \in Pointers
    BY <2>1, BelongType
  <2> QED BY <2>1, <2>2 DEF SameKeys
<1>1. CASE tbl[i] = Nil
  <2>1. l.heap = hp /\ l.tbl = [tbl EXCEPT ![i] = e]
    BY <1>1 DEF Linked
  <2> DEFINE u == [tbl EXCEPT ![i] = e]
  <2>2. TableIn(hp, u, m, n) /\ u \in Tables
    <3>1. e \in Belong(hp, n, i % n) \cup {Nil}
      OBVIOUS
    <3> QED BY <1>0, <3>1, TableSet
  <2>3. l.tbl = u
    BY <2>1
  <2> HIDE DEF u
  <2> QED BY <1>0, <2>1, <2>2, <2>3
<1>2. CASE tbl[i] # Nil
  <2> DEFINE c == Chain(hp, tbl[i])
             z == c[Len(c)]
  <2>1. l.heap = [hp EXCEPT ![z].next = e] /\ l.tbl = tbl
    BY <1>2 DEF Linked, Last
  <2>2. tbl[i] \in Belong(hp, n, i % n) \cup {Nil}
    BY DEF TableIn
  <2>3. Len(c) \in Nat /\ Len(c) >= 1 /\ \A j \in 1..Len(c) : c[j] \in Belong(hp, n, i % n)
    <3> DEFINE b == tbl[i]
    <3>1. b \in Belong(hp, n, i % n) \cup {Nil} /\ c = Chain(hp, b) /\ b # Nil
      BY <1>2, <2>2
    <3> HIDE DEF b, c
    <3>2. ChainIn(hp, b, Belong(hp, n, i % n), c)
      BY <3>1, ChainClass
    <3> QED BY <3>1, <3>2 DEF ChainIn
  <2>4. z \in Belong(hp, n, i % n)
    BY <2>3
  <2> HIDE DEF z
  <2>5. SameKeys(hp, l.heap) /\ HeapIn(l.heap, n) /\ \A p \in Entries(hp) : l.heap[p].val = hp[p].val
    BY <2>1, <2>4, NextKeeps
  <2>6. TableIn(l.heap, tbl, m, n)
    BY <2>5, TableKept
  <2>7. tbl \in Tables
    BY DEF TableIn, Tables
  <2> QED BY <2>1, <2>5, <2>6, <2>7
<1> QED BY <1>1, <1>2

LEMMA DeleteKeeps ==
  ASSUME NEW n \in Nat \ {0}, NEW m \in Nat, NEW hp, HeapIn(hp, n), NEW tbl, TableIn(hp, tbl, m, n),
         NEW i \in 0..(m - 1), NEW k, NEW r, r = DeleteFromTable(hp, tbl, i, k)
  PROVE  /\ SameKeys(hp, r.heap) /\ HeapIn(r.heap, n) /\ TableIn(r.heap, r.tbl, m, n) /\ r.tbl \in Tables
         /\ \A p \in Entries(hp) : r.heap[p].val = hp[p].val
<1> DEFINE c == Chain(hp, tbl[i])
           H == Hits(hp, c, k)
           x == Min(H)
<1>0. hp \in HeapType /\ SameKeys(hp, hp) /\ tbl \in Tables
  BY DEF HeapIn, SameKeys, TableIn, Tables
<1>1. tbl[i] \in Belong(hp, n, i % n) \cup {Nil}
  BY DEF TableIn
<1>2. /\ c \in Seq(Addresses) /\ Len(c) \in Nat /\ \A j \in 1..Len(c) : c[j] \in Belong(hp, n, i % n)
      /\ \A j \in 1..Len(c) : j + 1 \in 1..Len(c) => hp[c[j]].next = c[j + 1]
  <2> DEFINE b == tbl[i]
  <2>1. b \in Belong(hp, n, i % n) \cup {Nil} /\ c = Chain(hp, b)
    BY <1>1
  <2> HIDE DEF b, c
  <2>2. ChainIn(hp, b, Belong(hp, n, i % n), c)
    BY <2>1, ChainClass
  <2> QED BY <2>2 DEF ChainIn
<1>3. \A q \in Belong(hp, n, i % n) : hp[q].next \in Belong(hp, n, i % n) \cup {Nil} /\ hp[q].next \in Pointers
  <2>1. \A q \in Belong(hp, n, i % n) : q \in Entries(hp) /\ Hash(hp[q].key, n) = i % n
    BY DEF Belong
  <2> QED BY <1>0, <2>1, BelongType DEF HeapIn
<1>4. CASE H = {}
  <2>1. r.heap = hp /\ r.tbl = tbl
    BY <1>4 DEF DeleteFromTable
  <2> QED BY <1>0, <2>1
<1>5. CASE H # {} /\ x = 1
  <2>1. r.heap = hp /\ r.tbl = [tbl EXCEPT ![i] = hp[c[1]].next]
    BY <1>5 DEF DeleteFromTable
  <2>2. H \subseteq 1..Len(c)
    BY DEF Hits
  <2>3. 1 \in 1..Len(c)
    BY <1>2, <1>5, <2>2
  <2>4. hp[c[1]].next \in Belong(hp, n, i % n) \cup {Nil} /\ hp[c[1]].next \in Pointers
    BY <1>2, <1>3, <2>3
  <2> DEFINE q == hp[c[1]].next
             u == [tbl EXCEPT ![i] = q]
  <2>5. r.tbl = u /\ q \in Belong(hp, n, i % n) \cup {Nil} /\ q \in Pointers
    BY <2>1, <2>4
  <2> HIDE DEF q
  <2>6. TableIn(hp, u, m, n) /\ u \in Tables
    BY <2>5, TableSet
  <2> QED BY <1>0, <2>1, <2>5, <2>6
<1>6. CASE H # {} /\ x # 1
  <2> DEFINE e == c[x - 1]
             q == hp[c[x]].next
  <2>1. r.heap = [hp EXCEPT ![e].next = q] /\ r.tbl = tbl
    BY <1>6 DEF DeleteFromTable
  <2>2. H \subseteq 1..Len(c) /\ H \subseteq Nat
    BY DEF Hits
  <2>3. x \in 1..Len(c)
    <3> HIDE DEF H, c
    <3> QED BY <1>6, <2>2, MinIs
  <2>4. x - 1 \in 1..Len(c)
    <3> HIDE DEF x
    <3> QED BY <1>2, <1>6, <2>3
  <2>5. e \in Belong(hp, n, i % n) /\ q \in Belong(hp, n, i % n) \cup {Nil}
    BY <1>2, <1>3, <2>3, <2>4
  <2> HIDE DEF e, q
  <2>6. SameKeys(hp, r.heap) /\ HeapIn(r.heap, n) /\ \A p \in Entries(hp) : r.heap[p].val = hp[p].val
    BY <2>1, <2>5, NextKeeps
  <2>7. TableIn(r.heap, tbl, m, n)
    BY <2>6, TableKept
  <2> QED BY <1>0, <2>1, <2>6, <2>7
<1> QED BY <1>4, <1>5, <1>6

-----------------------------------------------------------------------------
(***************************************************************************)
(* The values of a key along a chain.                                      *)
(***************************************************************************)
Vs == Values \cup {Unset}

Taken(hp, e, k, vals) == IF hp[e].key = k THEN Append(vals, hp[e].val) ELSE vals

\* f[i] are the values of k among the first i entries of c.
IsValues(hp, c, k, n, f) == f = [i \in 0..n |-> IF i = 0 THEN <<>> ELSE Taken(hp, c[i], k, f[i - 1])]

LEMMA ValuesExist ==
  ASSUME NEW hp, NEW c, NEW k, NEW n \in Nat
  PROVE  \E f : IsValues(hp, c, k, n, f)
<1> DEFINE S == {i \in Nat : ~ \E f : IsValues(hp, c, k, i, f)}
           V(f, i) == Taken(hp, c[i], k, f[i - 1])
<1> SUFFICES ASSUME S # {} PROVE FALSE
  OBVIOUS
<1>1. PICK i \in S : \A j \in S : i <= j
  BY LeastNumber
<1>2. i # 0
  <2>1. IsValues(hp, c, k, 0, [j \in 0..0 |-> <<>>])
    BY DEF IsValues
  <2> QED BY <2>1
<1>3. i - 1 \in Nat /\ i - 1 \notin S
  BY <1>1, <1>2
<1>4. PICK f : IsValues(hp, c, k, i - 1, f)
  BY <1>3
<1> DEFINE g == [j \in 0..i |-> IF j = i THEN V(f, i) ELSE f[j]]
<1>5. \A j \in 0..(i - 1) : f[j] = IF j = 0 THEN <<>> ELSE V(f, j)
  BY <1>4 DEF IsValues
<1>6. \A j \in 0..i : g[j] = IF j = 0 THEN <<>> ELSE V(g, j)
  <2> SUFFICES ASSUME NEW j \in 0..i PROVE g[j] = IF j = 0 THEN <<>> ELSE V(g, j)
    OBVIOUS
  <2>1. CASE j = i
    <3>1. g[i] = V(f, i) /\ g[i - 1] = f[i - 1]
      BY <1>3, <1>2
    <3> QED BY <3>1, <2>1, <1>2
  <2>2. CASE j # i
    <3>1. j \in 0..(i - 1) /\ g[j] = f[j] /\ (j # 0 => g[j - 1] = f[j - 1])
      BY <2>2, <1>3
    <3> QED BY <3>1, <1>5
  <2> QED BY <2>1, <2>2
<1>7. g = [j \in 0..i |-> g[j]]
  OBVIOUS
<1> HIDE DEF g
<1>8. IsValues(hp, c, k, i, g)
  BY <1>6, <1>7 DEF IsValues
<1> QED BY <1>1, <1>8

\* The values of k along c, if f is how the walk collects them.
Collects(hp, c, k, f) == f[0] = <<>> /\ \A i \in 1..Len(c) : f[i] = Taken(hp, c[i], k, f[i - 1])

LEMMA ValuesCollect ==
  ASSUME NEW hp, NEW S, NEW c \in Seq(S), NEW k
  PROVE  \E f : Collects(hp, c, k, f) /\ ValuesOn(hp, c, k) = f[Len(c)]
<1> DEFINE N == Len(c)
           f == CHOOSE g : IsValues(hp, c, k, N, g)
<1>0. N \in Nat
  OBVIOUS
<1>1. IsValues(hp, c, k, N, f)
  BY <1>0, ValuesExist
<1>2. ValuesOn(hp, c, k) = f[N]
  BY DEF ValuesOn, IsValues, Taken
<1> HIDE DEF f, N
<1>3. f[0] = <<>> /\ \A i \in 1..N : f[i] = Taken(hp, c[i], k, f[i - 1])
  BY <1>0, <1>1 DEF IsValues
<1> QED BY <1>2, <1>3 DEF N, Collects

\* Two chains whose entries look the same for the length of n.
Alike(hp, c, gp, d, n) == \A i \in 1..n : gp[d[i]].key = hp[c[i]].key /\ gp[d[i]].val = hp[c[i]].val

LEMMA ValuesAgree ==
  ASSUME NEW hp, NEW gp, NEW S, NEW c \in Seq(S), NEW d \in Seq(S), NEW k, NEW f, NEW g, NEW n \in Nat,
         Collects(hp, c, k, f), Collects(gp, d, k, g), n <= Len(c), n <= Len(d), Alike(hp, c, gp, d, n)
  PROVE  \A i \in 0..n : f[i] = g[i]
<1> DEFINE B == {i \in 0..n : f[i] # g[i]}
<1> SUFFICES ASSUME B # {} PROVE FALSE
  OBVIOUS
<1>1. PICK b \in B : \A m \in B : b <= m
  <2>1. B \subseteq Nat
    OBVIOUS
  <2> HIDE DEF B
  <2> QED BY <2>1, LeastNumber
<1>2. b \in 0..n /\ f[b] # g[b] /\ b # 0
  BY <1>1 DEF Collects
<1>3. b - 1 \in 0..n /\ b \in 1..n /\ ~(b <= b - 1) /\ b \in 1..Len(c) /\ b \in 1..Len(d)
  BY <1>2
<1>4. f[b - 1] = g[b - 1]
  BY <1>1, <1>3
<1>5. Taken(hp, c[b], k, f[b - 1]) = Taken(gp, d[b], k, g[b - 1])
  BY <1>3, <1>4 DEF Taken, Alike
<1> QED BY <1>2, <1>3, <1>5 DEF Collects

LEMMA ValuesFrame ==
  ASSUME NEW hp, NEW gp, NEW S, NEW c \in Seq(S), NEW k,
         Alike(hp, c, gp, c, Len(c))
  PROVE  ValuesOn(gp, c, k) = ValuesOn(hp, c, k)
<1>1. PICK f : Collects(hp, c, k, f) /\ ValuesOn(hp, c, k) = f[Len(c)]
  BY ValuesCollect
<1>2. PICK g : Collects(gp, c, k, g) /\ ValuesOn(gp, c, k) = g[Len(c)]
  BY ValuesCollect
<1>3. Len(c) \in Nat /\ Len(c) <= Len(c) /\ Len(c) \in 0..Len(c)
  OBVIOUS
<1>4. \A i \in 0..Len(c) : f[i] = g[i]
  BY <1>1, <1>2, <1>3, ValuesAgree
<1> QED BY <1>1, <1>2, <1>3, <1>4

LEMMA ValuesEmpty ==
  ASSUME NEW hp, NEW k
  PROVE  ValuesOn(hp, <<>>, k) = <<>>
<1> DEFINE c == <<>>
<1>1. c \in Seq({}) /\ Len(c) = 0
  OBVIOUS
<1> HIDE DEF c
<1>2. PICK f : Collects(hp, c, k, f) /\ ValuesOn(hp, c, k) = f[Len(c)]
  BY <1>1, ValuesCollect
<1>3. ValuesOn(hp, c, k) = <<>>
  BY <1>1, <1>2 DEF Collects
<1> QED BY <1>3 DEF c

LEMMA ValuesAppend ==
  ASSUME NEW hp, NEW S, NEW c \in Seq(S), NEW e \in S, NEW k
  PROVE  ValuesOn(hp, Append(c, e), k) =
           Taken(hp, e, k, ValuesOn(hp, c, k))
<1> DEFINE d == Append(c, e)
           n == Len(c)
<1>1. d \in Seq(S) /\ Len(d) = n + 1 /\ n \in Nat /\ d[n + 1] = e /\ \A i \in 1..n : d[i] = c[i]
  OBVIOUS
<1>2. n <= Len(c) /\ n <= Len(d) /\ n \in 0..n /\ n + 1 \in 1..(n + 1) /\ (n + 1) - 1 = n
  BY <1>1
<1> HIDE DEF d
<1>3. PICK f : Collects(hp, c, k, f) /\ ValuesOn(hp, c, k) = f[n]
  BY ValuesCollect
<1>4. PICK g : Collects(hp, d, k, g) /\ ValuesOn(hp, d, k) = g[n + 1]
  BY <1>1, ValuesCollect
<1> HIDE DEF n
<1>8. Alike(hp, c, hp, d, n)
  BY <1>1 DEF Alike
<1>5. \A i \in 0..n : f[i] = g[i]
  BY <1>1, <1>2, <1>3, <1>4, <1>8, ValuesAgree
<1>6. g[n + 1] = Taken(hp, e, k, g[n])
  BY <1>1, <1>2, <1>4 DEF Collects
<1>7. f[n] = g[n]
  BY <1>2, <1>5
<1> QED BY <1>3, <1>4, <1>6, <1>7 DEF d

LEMMA CollectsType ==
  ASSUME NEW hp \in HeapType, NEW c \in Seq(Entries(hp)), NEW k, NEW f, Collects(hp, c, k, f)
  PROVE  \A i \in 0..Len(c) : f[i] \in Seq(Vs)
<1> DEFINE B == {i \in 0..Len(c) : f[i] \notin Seq(Vs)}
<1> SUFFICES ASSUME B # {} PROVE FALSE
  OBVIOUS
<1>1. PICK b \in B : \A m \in B : b <= m
  <2>1. B \subseteq Nat
    OBVIOUS
  <2> HIDE DEF B
  <2> QED BY <2>1, LeastNumber
<1>2. b \in 0..Len(c) /\ f[b] \notin Seq(Vs) /\ b # 0
  <2>1. <<>> \in Seq(Vs)
    OBVIOUS
  <2> QED BY <1>1, <2>1 DEF Collects
<1>3. b - 1 \in 0..Len(c) /\ b \in 1..Len(c) /\ ~(b <= b - 1)
  BY <1>2
<1>4. f[b - 1] \in Seq(Vs)
  BY <1>1, <1>3
<1>5. c[b] \in Entries(hp)
  BY <1>3
<1>6. hp[c[b]].val \in Vs
  BY <1>5, LinksType DEF EntryType, Vs
<1>7. Append(f[b - 1], hp[c[b]].val) \in Seq(Vs)
  BY <1>4, <1>6
<1>8. f[b] \in Seq(Vs)
  BY <1>3, <1>4, <1>7 DEF Collects, Taken
<1> QED BY <1>2, <1>8

LEMMA ValuesType ==
  ASSUME NEW hp \in HeapType, NEW c \in Seq(Entries(hp)), NEW k
  PROVE  ValuesOn(hp, c, k) \in Seq(Vs)
<1>1. PICK f : Collects(hp, c, k, f) /\ ValuesOn(hp, c, k) = f[Len(c)]
  BY ValuesCollect
<1>2. \A i \in 0..Len(c) : f[i] \in Seq(Vs)
  BY <1>1, CollectsType
<1>3. Len(c) \in 0..Len(c)
  OBVIOUS
<1> QED BY <1>1, <1>2, <1>3

LEMMA AppendConcat == \A s, t \in Seq(Vs), v \in Vs : Append(s \o t, v) = s \o Append(t, v)
<1> SUFFICES ASSUME NEW s \in Seq(Vs), NEW t \in Seq(Vs), NEW v \in Vs PROVE Append(s \o t, v) = s \o Append(t, v)
  OBVIOUS
<1>1. <<v>> \in Seq(Vs)
  OBVIOUS
<1>2. s \o t \in Seq(Vs) /\ Append(s \o t, v) = (s \o t) \o <<v>> /\ Append(t, v) = t \o <<v>>
  OBVIOUS
<1>3. (s \o t) \o <<v>> = s \o (t \o <<v>>)
  BY <1>1, ConcatAssociative
<1> QED BY <1>2, <1>3

LEMMA ValuesConcat ==
  ASSUME NEW hp \in HeapType, NEW c \in Seq(Entries(hp)), NEW d \in Seq(Entries(hp)), NEW k
  PROVE  ValuesOn(hp, c \o d, k) = ValuesOn(hp, c, k) \o ValuesOn(hp, d, k)
<1> DEFINE E == Entries(hp)
           w == c \o d
           n == Len(c)
           s == ValuesOn(hp, c, k)
<1>1. /\ w \in Seq(E) /\ Len(w) = n + Len(d) /\ n \in Nat /\ Len(d) \in Nat
      /\ \A i \in 1..n : w[i] = c[i]
      /\ \A i \in 1..Len(d) : w[n + i] = d[i]
  OBVIOUS
<1>2. s \in Seq(Vs)
  BY ValuesType
<1> HIDE DEF w, s
<1>3. PICK f : Collects(hp, c, k, f) /\ s = f[n]
  BY ValuesCollect DEF s
<1>10. w \in Seq(E)
  BY <1>1
<1> HIDE DEF E
<1>4. PICK g : Collects(hp, w, k, g) /\ ValuesOn(hp, w, k) = g[Len(w)]
  BY <1>10, ValuesCollect
<1>5. PICK e : Collects(hp, d, k, e) /\ ValuesOn(hp, d, k) = e[Len(d)]
  BY ValuesCollect
<1>6. \A i \in 0..Len(d) : e[i] \in Seq(Vs)
  BY <1>5, CollectsType
<1> HIDE DEF n
<1>7. g[n] = s
  <2>1. Alike(hp, c, hp, w, n)
    BY <1>1 DEF Alike
  <2>2. n <= Len(c) /\ n <= Len(w) /\ n \in 0..n
    BY <1>1 DEF n
  <2>3. c \in Seq(E)
    BY DEF E
  <2>5. Collects(hp, c, k, f) /\ Collects(hp, w, k, g) /\ n \in Nat
    BY <1>1, <1>3, <1>4
  <2>4. \A i \in 0..n : f[i] = g[i]
    BY <1>10, <2>1, <2>2, <2>3, <2>5, ValuesAgree
  <2> QED BY <1>3, <2>2, <2>4
<1>8. \A i \in 0..Len(d) : g[n + i] = s \o e[i]
  <2> DEFINE B == {i \in 0..Len(d) : g[n + i] # s \o e[i]}
  <2> SUFFICES ASSUME B # {} PROVE FALSE
    OBVIOUS
  <2>1. PICK b \in B : \A m \in B : b <= m
    <3>1. B \subseteq Nat
      OBVIOUS
    <3> HIDE DEF B
    <3> QED BY <3>1, LeastNumber
  <2>2. b \in 0..Len(d) /\ g[n + b] # s \o e[b]
    BY <2>1
  <2>3. b # 0
    <3>1. s \o <<>> = s /\ n + 0 = n
      BY <1>1, <1>2
    <3> QED BY <1>5, <1>7, <2>2, <3>1 DEF Collects
  <2>4. b - 1 \in 0..Len(d) /\ b \in 1..Len(d) /\ ~(b <= b - 1) /\ n + (b - 1) = (n + b) - 1 /\ n + b \in 1..Len(w)
    BY <1>1, <2>2, <2>3
  <2>5. g[(n + b) - 1] = s \o e[b - 1]
    BY <2>1, <2>4
  <2>6. g[n + b] = Taken(hp, d[b], k, s \o e[b - 1]) /\ e[b] = Taken(hp, d[b], k, e[b - 1])
    BY <1>1, <1>4, <1>5, <2>4, <2>5 DEF Collects
  <2>7. Taken(hp, d[b], k, s \o e[b - 1]) = s \o Taken(hp, d[b], k, e[b - 1])
    <3> DEFINE x == e[b - 1]
               v == hp[d[b]].val
    <3>1. x \in Seq(Vs)
      BY <1>6, <2>4
    <3>2. d[b] \in Entries(hp)
      BY <2>4
    <3>3. v \in Vs
      BY <3>2, LinksType DEF EntryType, Vs
    <3> HIDE DEF x, v
    <3>4. Append(s \o x, v) = s \o Append(x, v)
      BY <1>2, <3>1, <3>3, AppendConcat, Zenon
    <3> QED BY <3>4 DEF Taken, x, v
  <2> QED BY <2>2, <2>6, <2>7
<1>9. Len(d) \in 0..Len(d)
  OBVIOUS
<1> QED BY <1>1, <1>4, <1>5, <1>8, <1>9 DEF w, s

LEMMA ValuesSingle ==
  ASSUME NEW hp, NEW e, NEW k
  PROVE  ValuesOn(hp, <<e>>, k) = IF hp[e].key = k THEN <<hp[e].val>> ELSE <<>>
<1> DEFINE c == <<>>
<1>1. c \in Seq({e}) /\ e \in {e} /\ Append(c, e) = <<e>>
  OBVIOUS
<1>2. ValuesOn(hp, Append(c, e), k) = Taken(hp, e, k, ValuesOn(hp, c, k))
  <2> HIDE DEF c
  <2> QED BY <1>1, ValuesAppend
<1>3. ValuesOn(hp, c, k) = <<>> /\ \A v : Append(<<>>, v) = <<v>>
  BY ValuesEmpty
<1> QED BY <1>1, <1>2, <1>3 DEF Taken

\* An entry in front of a chain.
LEMMA ValuesPush ==
  ASSUME NEW hp \in HeapType, NEW c \in Seq(Entries(hp)), NEW e \in Entries(hp), NEW k
  PROVE  ValuesOn(hp, <<e>> \o c, k) =
           IF hp[e].key = k THEN <<hp[e].val>> \o ValuesOn(hp, c, k) ELSE ValuesOn(hp, c, k)
<1> DEFINE d == <<e>>
           s == ValuesOn(hp, c, k)
<1>1. d \in Seq(Entries(hp))
  OBVIOUS
<1>2. ValuesOn(hp, d, k) = IF hp[e].key = k THEN <<hp[e].val>> ELSE <<>>
  BY ValuesSingle
<1>3. s \in Seq(Vs)
  BY ValuesType
<1> HIDE DEF d, s
<1>4. ValuesOn(hp, d \o c, k) = ValuesOn(hp, d, k) \o s
  BY <1>1, ValuesConcat DEF s
<1>5. <<>> \o s = s
  BY <1>3
<1> QED BY <1>2, <1>4, <1>5 DEF d, s

\* The place of the first entry of k on c, and the chain without it.
FirstHit(hp, c, k, m) ==
  m \in 1..Len(c) /\ hp[c[m]].key = k /\ \A i \in 1..(m - 1) : hp[c[i]].key # k

Before(c, m) == SubSeq(c, 1, m - 1)
After(c, m)  == SubSeq(c, m + 1, Len(c))
Cut(c, m)    == Before(c, m) \o After(c, m)

SplitsAt(S, c, m) ==
  /\ Before(c, m) \in Seq(S) /\ After(c, m) \in Seq(S) /\ Cut(c, m) \in Seq(S) /\ c[m] \in S
  /\ c = Before(c, m) \o (<<c[m]>> \o After(c, m))
  /\ Len(Before(c, m)) = m - 1 /\ \A i \in 1..(m - 1) : Before(c, m)[i] = c[i] /\ i \in 1..Len(c)
  /\ Len(After(c, m)) = Len(c) - m /\ \A i \in 1..(Len(c) - m) : After(c, m)[i] = c[m + i] /\ m + i \in 1..Len(c)

LEMMA SplitAt ==
  ASSUME NEW S, NEW c \in Seq(S), NEW m \in 1..Len(c)
  PROVE  SplitsAt(S, c, m)
<1> DEFINE n == Len(c)
<1>0. n \in Nat /\ m \in Nat /\ m >= 1 /\ m <= n
  OBVIOUS
<1>1. Before(c, m) \in Seq(S) /\ Len(Before(c, m)) = m - 1 /\ \A i \in 1..(m - 1) : Before(c, m)[i] = c[i] /\ i \in 1..Len(c)
  BY <1>0 DEF Before
<1>2. After(c, m) \in Seq(S) /\ Len(After(c, m)) = n - m /\ \A i \in 1..(n - m) : After(c, m)[i] = c[m + i] /\ m + i \in 1..Len(c)
  BY <1>0 DEF After
<1> DEFINE a == Before(c, m)
           b == After(c, m)
           d == a \o (<<c[m]>> \o b)
<1> HIDE DEF a, b
<1>3. a \in Seq(S) /\ Len(a) = m - 1 /\ \A i \in 1..(m - 1) : a[i] = c[i]
  BY <1>1 DEF a
<1>4. b \in Seq(S) /\ Len(b) = n - m /\ \A i \in 1..(n - m) : b[i] = c[m + i]
  BY <1>2 DEF b
<1>5. c[m] \in S
  OBVIOUS
<1>6. a \o b \in Seq(S)
  BY <1>3, <1>4
<1>7. d \in Seq(S) /\ Len(d) = n
  BY <1>0, <1>3, <1>4, <1>5
<1>8. \A i \in 1..n : d[i] = c[i]
  <2> SUFFICES ASSUME NEW i \in 1..n PROVE d[i] = c[i]
    OBVIOUS
  <2>1. CASE i < m
    BY <1>0, <1>3, <1>4, <1>5, <2>1
  <2>2. CASE i = m
    BY <1>0, <1>3, <1>4, <1>5, <2>2
  <2>3. CASE i > m
    <3>1. i - m \in 1..(n - m) /\ m + (i - m) = i
      BY <1>0, <2>3
    <3>2. b[i - m] = c[i]
      BY <1>4, <3>1
    <3>3. d[i] = b[i - m]
      BY <1>0, <1>3, <1>4, <1>5, <2>3
    <3> QED BY <3>2, <3>3
  <2>4. i < m \/ i = m \/ i > m
    BY <1>0
  <2> QED BY <2>1, <2>2, <2>3, <2>4
<1> HIDE DEF d
<1>9. c = d
  BY <1>7, <1>8, SeqEqual
<1> QED BY <1>1, <1>2, <1>5, <1>6, <1>9 DEF a, b, d, Cut, SplitsAt

LEMMA CutIs ==
  ASSUME NEW S, NEW c \in Seq(S), NEW m \in 1..Len(c)
  PROVE  /\ Cut(c, m) \in Seq(S) /\ Len(Cut(c, m)) = Len(c) - 1
         /\ \A i \in 1..(Len(c) - 1) : Cut(c, m)[i] = IF i < m THEN c[i] ELSE c[i + 1]
<1> DEFINE a == Before(c, m)
           b == After(c, m)
           n == Len(c)
<1>1. n \in Nat /\ m \in Nat /\ m >= 1 /\ m <= n
  OBVIOUS
<1>6. SplitsAt(S, c, m)
  BY SplitAt
<1>2. a \in Seq(S) /\ Len(a) = m - 1 /\ \A i \in 1..(m - 1) : a[i] = c[i]
  BY <1>6 DEF SplitsAt
<1>3. b \in Seq(S) /\ Len(b) = n - m /\ \A i \in 1..(n - m) : b[i] = c[m + i]
  BY <1>6 DEF SplitsAt
<1> HIDE DEF a, b
<1>4. a \o b \in Seq(S) /\ Len(a \o b) = n - 1
  BY <1>1, <1>2, <1>3
<1>5. \A i \in 1..(n - 1) : (a \o b)[i] = IF i < m THEN c[i] ELSE c[i + 1]
  <2> SUFFICES ASSUME NEW i \in 1..(n - 1) PROVE (a \o b)[i] = IF i < m THEN c[i] ELSE c[i + 1]
    OBVIOUS
  <2>1. CASE i < m
    BY <1>1, <1>2, <1>3, <2>1
  <2>2. CASE i >= m
    <3>1. i - (m - 1) \in 1..(n - m) /\ m + (i - (m - 1)) = i + 1
      BY <1>1, <2>2
    <3>2. b[i - (m - 1)] = c[i + 1]
      BY <1>3, <3>1
    <3>3. (a \o b)[i] = b[i - (m - 1)]
      BY <1>1, <1>2, <1>3, <2>2
    <3> QED BY <1>1, <2>2, <3>2, <3>3
  <2>3. i < m \/ (i >= m /\ ~(i < m))
    BY <1>1
  <2> QED BY <2>1, <2>2, <2>3
<1> QED BY <1>4, <1>5 DEF a, b, Cut

LEMMA NoHits ==
  ASSUME NEW hp, NEW S, NEW c \in Seq(S), NEW k, \A i \in 1..Len(c) : hp[c[i]].key # k
  PROVE  ValuesOn(hp, c, k) = <<>>
<1>1. PICK f : Collects(hp, c, k, f) /\ ValuesOn(hp, c, k) = f[Len(c)]
  BY ValuesCollect
<1>2. \A i \in 0..Len(c) : f[i] = <<>>
  <2> DEFINE B == {i \in 0..Len(c) : f[i] # <<>>}
  <2> SUFFICES ASSUME B # {} PROVE FALSE
    OBVIOUS
  <2>1. PICK b \in B : \A m \in B : b <= m
    <3>1. B \subseteq Nat
      OBVIOUS
    <3> HIDE DEF B
    <3> QED BY <3>1, LeastNumber
  <2>2. b \in 0..Len(c) /\ f[b] # <<>> /\ b # 0
    BY <1>1, <2>1 DEF Collects
  <2>3. b - 1 \in 0..Len(c) /\ b \in 1..Len(c) /\ ~(b <= b - 1)
    BY <2>2
  <2>4. f[b - 1] = <<>>
    BY <2>1, <2>3
  <2>5. f[b] = Taken(hp, c[b], k, f[b - 1])
    BY <1>1, <2>3 DEF Collects
  <2>6. hp[c[b]].key # k
    BY <2>3
  <2> QED BY <2>2, <2>4, <2>5, <2>6 DEF Taken
<1>3. Len(c) \in 0..Len(c)
  OBVIOUS
<1> QED BY <1>1, <1>2, <1>3

\* The values of k before, at and behind a place.
LEMMA ValuesSplit ==
  ASSUME NEW hp \in HeapType, NEW c \in Seq(Entries(hp)), NEW m \in 1..Len(c), NEW k
  PROVE  /\ ValuesOn(hp, c, k) = ValuesOn(hp, Before(c, m), k) \o ValuesOn(hp, <<c[m]>> \o After(c, m), k)
         /\ ValuesOn(hp, Cut(c, m), k) = ValuesOn(hp, Before(c, m), k) \o ValuesOn(hp, After(c, m), k)
         /\ ValuesOn(hp, <<c[m]>> \o After(c, m), k) =
              IF hp[c[m]].key = k THEN <<hp[c[m]].val>> \o ValuesOn(hp, After(c, m), k) ELSE ValuesOn(hp, After(c, m), k)
<1> DEFINE a == Before(c, m)
           b == After(c, m)
           E == Entries(hp)
           d == <<c[m]>> \o b
<1>1. SplitsAt(E, c, m)
  BY SplitAt
<1>2. a \in Seq(E) /\ b \in Seq(E) /\ c[m] \in E /\ c = a \o d
  BY <1>1 DEF SplitsAt
<1> HIDE DEF a, b
<1>3. d \in Seq(E)
  BY <1>2
<1>4. ValuesOn(hp, d, k) = IF hp[c[m]].key = k THEN <<hp[c[m]].val>> \o ValuesOn(hp, b, k) ELSE ValuesOn(hp, b, k)
  BY <1>2, ValuesPush
<1> HIDE DEF d
<1>5. ValuesOn(hp, a \o d, k) = ValuesOn(hp, a, k) \o ValuesOn(hp, d, k)
  BY <1>2, <1>3, ValuesConcat
<1>6. ValuesOn(hp, a \o b, k) = ValuesOn(hp, a, k) \o ValuesOn(hp, b, k)
  BY <1>2, ValuesConcat
<1> QED BY <1>2, <1>4, <1>5, <1>6 DEF a, b, d, Cut

HitSplit(hp, c, k, m) ==
  /\ ValuesOn(hp, c, k) = <<hp[c[m]].val>> \o ValuesOn(hp, Cut(c, m), k)
  /\ \A j : j # k => ValuesOn(hp, Cut(c, m), j) = ValuesOn(hp, c, j)

LEMMA HitSplits ==
  ASSUME NEW hp \in HeapType, NEW c \in Seq(Entries(hp)), NEW k, NEW m, FirstHit(hp, c, k, m)
  PROVE  HitSplit(hp, c, k, m)
<1> DEFINE E == Entries(hp)
           a == Before(c, m)
           b == After(c, m)
<1>0. m \in 1..Len(c) /\ hp[c[m]].key = k
  BY DEF FirstHit
<1>1. SplitsAt(E, c, m)
  BY <1>0, SplitAt
<1>2. a \in Seq(E) /\ b \in Seq(E) /\ \A i \in 1..Len(a) : hp[a[i]].key # k
  BY <1>1 DEF SplitsAt, FirstHit
<1> HIDE DEF a, b
<1>3. ValuesOn(hp, a, k) = <<>>
  BY <1>2, NoHits
<1>4. ValuesOn(hp, b, k) \in Seq(Vs) /\ hp[c[m]].val \in Vs
  <2>1. c[m] \in E
    BY <1>1 DEF SplitsAt
  <2> QED BY <1>2, <2>1, ValuesType, LinksType DEF EntryType, Vs
<1> DEFINE s == ValuesOn(hp, b, k)
           t == <<hp[c[m]].val>> \o s
<1>5. \A j : /\ ValuesOn(hp, c, j) = ValuesOn(hp, a, j) \o ValuesOn(hp, <<c[m]>> \o b, j)
             /\ ValuesOn(hp, Cut(c, m), j) = ValuesOn(hp, a, j) \o ValuesOn(hp, b, j)
             /\ ValuesOn(hp, <<c[m]>> \o b, j) =
                  IF hp[c[m]].key = j THEN <<hp[c[m]].val>> \o ValuesOn(hp, b, j) ELSE ValuesOn(hp, b, j)
  BY <1>0, ValuesSplit DEF a, b
<1>6. <<>> \o s = s /\ <<>> \o t = t
  <2> HIDE DEF s
  <2>1. s \in Seq(Vs)
    BY <1>4 DEF s
  <2> QED BY <1>4, <2>1
<1> HIDE DEF s
<1>7. ValuesOn(hp, Cut(c, m), k) = s /\ ValuesOn(hp, c, k) = t
  BY <1>0, <1>3, <1>5, <1>6 DEF s
<1>8. \A j : j # k => ValuesOn(hp, Cut(c, m), j) = ValuesOn(hp, c, j)
  BY <1>0, <1>5
<1> QED BY <1>7, <1>8 DEF HitSplit

\* What it makes of the values along c that the first entry of k gets the value v.
Once(c) == \A i, j \in 1..Len(c) : c[i] = c[j] => i = j
HitSet(hp, c, k, m, v, gp) ==
  /\ ValuesOn(gp, c, k) = <<v>> \o ValuesOn(hp, Cut(c, m), k)
  /\ \A j : j # k => ValuesOn(gp, c, j) = ValuesOn(hp, c, j)

LEMMA HitOverwritten ==
  ASSUME NEW hp \in HeapType, NEW c \in Seq(Entries(hp)), NEW k, NEW m, FirstHit(hp, c, k, m), Once(c),
         NEW v \in Vs, NEW gp, ValueSet(hp, c[m], v, gp)
  PROVE  HitSet(hp, c, k, m, v, gp)
<1> DEFINE E == Entries(hp)
           e == c[m]
           d == Cut(c, m)
<1>0. m \in 1..Len(c) /\ hp[e].key = k /\ e \in E /\ \A i, j \in 1..Len(c) : c[i] = c[j] => i = j
  BY DEF FirstHit, Once
<1>1. ValueSet(hp, e, v, gp)
  OBVIOUS
<1>2. gp \in HeapType /\ Entries(gp) = E /\ \A p \in E : gp[p].key = hp[p].key
  BY <1>1 DEF SameKeys, ValueSet
<1>3. FirstHit(gp, c, k, m)
  <2>1. \A i \in 1..(m - 1) : i \in 1..Len(c) /\ c[i] \in E
    BY <1>0
  <2> QED BY <1>0, <1>2, <2>1 DEF FirstHit
<1>4. c \in Seq(Entries(gp))
  BY <1>2
<1>5. HitSplit(gp, c, k, m)
  <2> HIDE DEF E
  <2> QED BY <1>2, <1>3, <1>4, HitSplits
<1>6. HitSplit(hp, c, k, m)
  BY HitSplits
<1>7. d \in Seq(E) /\ Alike(hp, d, gp, d, Len(d))
  <2>1. /\ d \in Seq(E) /\ Len(d) = Len(c) - 1
        /\ \A i \in 1..(Len(c) - 1) : d[i] = IF i < m THEN c[i] ELSE c[i + 1]
    BY <1>0, CutIs
  <2> HIDE DEF d
  <2>2. \A i \in 1..Len(d) : d[i] # e /\ d[i] \in E
    <3> SUFFICES ASSUME NEW i \in 1..Len(d) PROVE d[i] # e
      BY <2>1
    <3>1. i \in 1..Len(c) /\ i + 1 \in 1..Len(c) /\ i \in 1..(Len(c) - 1)
      BY <2>1
    <3>2. CASE i < m
      <4>1. d[i] = c[i] /\ i # m
        BY <2>1, <3>1, <3>2
      <4> QED BY <1>0, <3>1, <4>1
    <3>3. CASE ~(i < m)
      <4>1. d[i] = c[i + 1] /\ i + 1 # m
        BY <1>0, <2>1, <3>1, <3>3
      <4> QED BY <1>0, <3>1, <4>1
    <3> QED BY <3>2, <3>3
  <2> QED BY <1>1, <1>2, <2>1, <2>2 DEF Alike, ValueSet
<1> HIDE DEF d
<1>8. \A j : ValuesOn(gp, d, j) = ValuesOn(hp, d, j)
  BY <1>7, ValuesFrame
<1>9. gp[e].val = v
  BY <1>0, <1>1 DEF ValueSet
<1> QED BY <1>5, <1>6, <1>8, <1>9 DEF d, HitSplit, HitSet

-----------------------------------------------------------------------------
(***************************************************************************)
(* What holds of the links when entries are not shared: the buckets hd     *)
(* lead to lists F of entries, and no entry has two places in them.        *)
(***************************************************************************)
Item(c, i) == IF i \in 1..Len(c) THEN c[i] ELSE Nil

\* No entry has two places in the lists.
Apart(F) ==
  \A a, b \in DOMAIN F : \A i \in 1..Len(F[a]), j \in 1..Len(F[b]) : F[a][i] = F[b][j] => a = b /\ i = j

\* The lists are of entries.
Lists(hp, F) == F \in [DOMAIN F -> Seq(Entries(hp))]

\* An entry points to the next of its list, and the last to nil.
Follows(hp, F) == \A b \in DOMAIN F : \A i \in 1..Len(F[b]) : hp[F[b][i]].next = Item(F[b], i + 1)

\* The heads hd lead to the lists F.
World(hp, hd, F) ==
  /\ hp \in HeapType /\ Lists(hp, F) /\ Apart(F) /\ Follows(hp, F)
  /\ hd \in [DOMAIN F -> Pointers] /\ \A b \in DOMAIN F : hd[b] = Item(F[b], 1)

\* What is known of one list, the one at p.
ListAt(hp, p, c) ==
  /\ c \in Seq(Entries(hp)) /\ c \in Seq(Addresses) /\ Len(c) \in Nat
  /\ \A i \in 1..Len(c) : c[i] \in Entries(hp) /\ c[i] \in Addresses /\ c[i] # Nil
  /\ p \in Pointers /\ p = Item(c, 1) /\ (p = Nil <=> c = <<>>)
  /\ c # <<>> => Len(c) >= 1 /\ p = c[1]

LEMMA WorldIs ==
  ASSUME NEW hp, NEW hd, NEW F, World(hp, hd, F), NEW b \in DOMAIN F
  PROVE  ListAt(hp, hd[b], F[b])
<1> DEFINE c == F[b]
<1>1. c \in Seq(Entries(hp)) /\ hd[b] \in Pointers /\ hd[b] = Item(c, 1) /\ hp \in HeapType
  BY DEF World, Lists
<1> HIDE DEF c
<1>2. Entries(hp) \subseteq Addresses /\ Nil \notin Addresses
  BY <1>1, LinksType, PointersAre
<1>3. Len(c) \in Nat /\ \A i \in 1..Len(c) : c[i] \in Entries(hp)
  BY <1>1
<1>4. c \in Seq(Addresses)
  BY <1>1, <1>2
<1>5. \A i \in 1..Len(c) : c[i] \in Entries(hp) /\ c[i] \in Addresses /\ c[i] # Nil
  BY <1>2, <1>3
<1>6. c # <<>> => Len(c) >= 1 /\ 1 \in 1..Len(c)
  BY <1>1
<1>7. c = <<>> => Len(c) = 0
  BY <1>1
<1>8. c # <<>> => hd[b] = c[1]
  BY <1>1, <1>6 DEF Item
<1>9. c = <<>> => hd[b] = Nil
  BY <1>1, <1>7 DEF Item
<1> QED BY <1>1, <1>3, <1>4, <1>5, <1>6, <1>8, <1>9 DEF c, ListAt

LEMMA InjectiveLength ==
  ASSUME NEW c \in Seq(Addresses), \A i, j \in 1..Len(c) : c[i] = c[j] => i = j
  PROVE  Len(c) <= MaxEntries
<1> DEFINE I == 1..Len(c)
<1>1. Len(c) \in Nat
  OBVIOUS
<1>2. IsFiniteSet(I) /\ Cardinality(I) = Len(c)
  BY <1>1, Interval
<1>3. c \in [I -> Addresses] /\ \A i, j \in I : c[i] = c[j] => i = j
  OBVIOUS
<1> HIDE DEF I
<1>4. c \in Injection(I, Addresses)
  BY <1>3 DEF Injection, IsInjective
<1>5. Cardinality(I) <= Cardinality(Addresses)
  BY <1>4, AddressesFinite, FS_Injection
<1> QED BY <1>2, <1>5, AddressesFinite

LEMMA WorldChain ==
  ASSUME NEW hp, NEW hd, NEW F, World(hp, hd, F), NEW b \in DOMAIN F
  PROVE  Chain(hp, hd[b]) = F[b] /\ Len(F[b]) <= MaxEntries /\ ~Endless(hp, hd[b])
<1> DEFINE c == F[b]
           p == hd[b]
           lk == Links(hp)
           N == MaxEntries + 1
<1>1. /\ c \in Seq(Addresses) /\ Len(c) \in Nat
      /\ \A i \in 1..Len(c) : c[i] \in Entries(hp)
      /\ p \in Pointers /\ p = Item(c, 1)
  BY WorldIs DEF ListAt
<1>2. hp \in HeapType /\ \A i \in 1..Len(c) : hp[c[i]].next = Item(c, i + 1)
  BY DEF World, Follows
<1>3. \A i, j \in 1..Len(c) : c[i] = c[j] => i = j
  BY DEF World, Apart
<1> HIDE DEF c, p
<1>4. Len(c) <= MaxEntries
  BY <1>1, <1>3, InjectiveLength
<1>5. \A i \in 1..Len(c) : lk[c[i]] = Item(c, i + 1)
  BY <1>1, <1>2, LinksType
<1> HIDE DEF lk
<1>6. \A i \in 1..(Len(c) + 1) : Step(lk, p, c, i) = Item(c, i)
  <2> SUFFICES ASSUME NEW i \in 1..(Len(c) + 1), i # 1 PROVE lk[c[i - 1]] = Item(c, i)
    BY <1>1 DEF Step
  <2>1. i - 1 \in 1..Len(c) /\ (i - 1) + 1 = i
    BY <1>1
  <2> QED BY <1>5, <2>1
<1>7. \A i \in 1..Len(c) : i \in 1..(Len(c) + 1)
  BY <1>1
<1>8. Len(c) + 1 \notin 1..Len(c) /\ Len(c) + 1 \in 1..(Len(c) + 1)
  BY <1>1
<1>9. Path(lk, p, N, c)
  <2>1. \A i \in 1..Len(c) : c[i] = Step(lk, p, c, i)
    BY <1>6, <1>7 DEF Item
  <2>2. Step(lk, p, c, Len(c) + 1) = Nil
    BY <1>6, <1>8 DEF Item
  <2>3. Len(c) <= N
    BY <1>1, <1>4, BoundAssumption
  <2> QED BY <1>1, <2>1, <2>2, <2>3 DEF Path
<1>10. Chain(hp, p) = c
  BY <1>1, <1>2, <1>9, ChainIsPath DEF lk
<1>11. ~(Len(c) > MaxEntries)
  BY <1>1, <1>4, BoundAssumption
<1> QED BY <1>4, <1>10, <1>11 DEF c, p, Endless

\* c without its first entry is x.
IsTail(x, c) ==
  Len(x) \in Nat /\ Len(c) = Len(x) + 1 /\ \A i \in 1..Len(x) : x[i] = c[i + 1] /\ i + 1 \in 1..Len(c)

LEMMA TailItems ==
  ASSUME NEW x, NEW c, IsTail(x, c), NEW i \in Nat \ {0}
  PROVE  Item(c, i + 1) = Item(x, i)
<1>1. Len(x) \in Nat /\ Len(c) = Len(x) + 1
  BY DEF IsTail
<1>2. i \in 1..Len(x) <=> i + 1 \in 1..Len(c)
  BY <1>1
<1>3. i \in 1..Len(x) => x[i] = c[i + 1]
  BY DEF IsTail
<1> QED BY <1>2, <1>3 DEF Item

LEMMA ApartIs ==
  ASSUME NEW F, Apart(F), NEW q \in DOMAIN F, NEW r \in DOMAIN F, NEW i \in 1..Len(F[q]), NEW j \in 1..Len(F[r]),
         F[q][i] = F[r][j]
  PROVE  q = r /\ i = j
BY DEF Apart

\* The first entry of the list a goes to the front of b.
Rearranged(F, a, b, G) ==
  /\ DOMAIN G = DOMAIN F /\ a \in DOMAIN F /\ b \in DOMAIN F /\ a # b
  /\ IsTail(G[a], F[a]) /\ IsTail(F[b], G[b]) /\ G[b][1] = F[a][1]
  /\ \A q \in DOMAIN F : q # a /\ q # b => G[q] = F[q]

\* Entry i of the list q of G was entry j of the list r of F.
Came(F, G, a, b, q, i, r, j) ==
  /\ r \in DOMAIN F /\ j \in 1..Len(F[r]) /\ F[r][j] = G[q][i]
  /\ r = IF q = b /\ i = 1 THEN a ELSE q
  /\ j = IF q = a THEN i + 1 ELSE IF q = b /\ i # 1 THEN i - 1 ELSE i

LEMMA MoveComes ==
  ASSUME NEW F, NEW a, NEW b, NEW G, Rearranged(F, a, b, G), NEW q \in DOMAIN F, NEW i \in 1..Len(G[q])
  PROVE  \E r, j : Came(F, G, a, b, q, i, r, j)
<1> USE DEF Rearranged
<1>1. CASE q = a
  <2>1. i + 1 \in 1..Len(F[a]) /\ F[a][i + 1] = G[a][i]
    BY <1>1 DEF IsTail
  <2> QED BY <1>1, <2>1 DEF Came
<1>2. CASE q = b /\ i = 1
  <2>1. 1 \in 1..Len(F[a])
    BY DEF IsTail
  <2> QED BY <1>2, <2>1 DEF Came
<1>3. CASE q = b /\ i # 1
  <2>1. i - 1 \in 1..Len(F[b]) /\ (i - 1) + 1 = i
    BY <1>3 DEF IsTail
  <2>2. F[b][i - 1] = G[b][i]
    BY <2>1 DEF IsTail
  <2> QED BY <1>3, <2>1, <2>2 DEF Came
<1>4. CASE q # a /\ q # b
  BY <1>4 DEF Came
<1> QED BY <1>1, <1>2, <1>3, <1>4

LEMMA ApartMove ==
  ASSUME NEW F, NEW a, NEW b, NEW G, Rearranged(F, a, b, G), Apart(F)
  PROVE  Apart(G)
<1>1. DOMAIN G = DOMAIN F /\ a # b
  BY DEF Rearranged
<1> SUFFICES ASSUME NEW q \in DOMAIN F, NEW p \in DOMAIN F, NEW i \in 1..Len(G[q]), NEW j \in 1..Len(G[p]), G[q][i] = G[p][j]
             PROVE  q = p /\ i = j
  BY <1>1 DEF Apart
<1>2. PICK r, m : Came(F, G, a, b, q, i, r, m)
  BY MoveComes
<1>3. PICK s, n : Came(F, G, a, b, p, j, s, n)
  BY MoveComes
<1>4. r = s /\ m = n
  BY <1>2, <1>3, ApartIs DEF Came
<1>5. i \in Nat /\ j \in Nat /\ i >= 1 /\ j >= 1
  OBVIOUS
<1>6. q = p
  BY <1>1, <1>2, <1>3, <1>4, <1>5 DEF Came
<1> QED BY <1>2, <1>3, <1>4, <1>5, <1>6 DEF Came

\* Of the pointers from entries only that of e has changed, to p.
Relinked(hp, gp, e, p) ==
  gp[e].next = p /\ \A q \in Entries(hp) : q # e => gp[q].next = hp[q].next

LEMMA FollowsMove ==
  ASSUME NEW F, NEW a, NEW b, NEW G, Rearranged(F, a, b, G), Apart(G), NEW hp, Lists(hp, F), Follows(hp, F),
         NEW gp, Relinked(hp, gp, F[a][1], Item(F[b], 1))
  PROVE  Follows(gp, G)
<1>0. /\ DOMAIN G = DOMAIN F /\ a # b /\ IsTail(G[a], F[a]) /\ IsTail(F[b], G[b]) /\ G[b][1] = F[a][1]
      /\ a \in DOMAIN F /\ b \in DOMAIN F /\ \A q \in DOMAIN F : q # a /\ q # b => G[q] = F[q]
  BY DEF Rearranged
<1> SUFFICES ASSUME NEW q \in DOMAIN F, NEW i \in 1..Len(G[q]) PROVE gp[G[q][i]].next = Item(G[q], i + 1)
  BY <1>0 DEF Follows
<1>1. CASE q = b /\ i = 1
  <2>1. Item(G[b], 1 + 1) = Item(F[b], 1)
    BY <1>0, TailItems
  <2> QED BY <1>0, <1>1, <2>1 DEF Relinked
<1>2. CASE ~(q = b /\ i = 1)
  <2>1. PICK r, m : Came(F, G, a, b, q, i, r, m)
    BY MoveComes
  <2>2. r = q /\ m \in 1..Len(F[q]) /\ G[q][i] = F[q][m]
    BY <1>2, <2>1 DEF Came
  <2>3. G[q][i] # F[a][1]
    <3> SUFFICES ASSUME G[q][i] = F[a][1] PROVE FALSE
      OBVIOUS
    <3>1. 1 \in 1..Len(G[b])
      BY <1>0 DEF IsTail
    <3>2. G[q][i] = G[b][1]
      BY <1>0
    <3> QED BY <1>0, <1>2, <3>1, <3>2, ApartIs
  <2>4. F[q][m] \in Entries(hp)
    BY <2>2 DEF Lists
  <2>5. gp[G[q][i]].next = hp[F[q][m]].next
    BY <2>2, <2>3, <2>4 DEF Relinked
  <2>6. hp[F[q][m]].next = Item(F[q], m + 1)
    BY <2>2 DEF Follows
  <2>7. Item(F[q], m + 1) = Item(G[q], i + 1)
    <3>1. CASE q = a
      <4>1. m = i + 1 /\ i + 1 \in Nat \ {0}
        BY <2>1, <3>1 DEF Came
      <4>2. Item(F[a], (i + 1) + 1) = Item(G[a], i + 1)
        BY <1>0, <4>1, TailItems
      <4> QED BY <3>1, <4>1, <4>2
    <3>2. CASE q = b
      <4>1. m + 1 = i /\ i \in Nat \ {0}
        BY <1>0, <1>2, <2>1, <3>2 DEF Came
      <4>2. Item(G[b], i + 1) = Item(F[b], i)
        BY <1>0, <4>1, TailItems
      <4> QED BY <3>2, <4>1, <4>2
    <3>3. CASE q # a /\ q # b
      <4>1. m = i
        BY <2>1, <3>3 DEF Came
      <4> QED BY <1>0, <3>3, <4>1
    <3> QED BY <3>1, <3>2, <3>3
  <2> QED BY <2>5, <2>6, <2>7
<1> QED BY <1>1, <1>2

LEMMA WorldMove ==
  ASSUME NEW hp, NEW hd, NEW F, World(hp, hd, F), NEW a \in DOMAIN F, NEW b \in DOMAIN F, a # b,
         NEW e, e = hd[a], e # Nil, NEW gp, gp = [hp EXCEPT ![e].next = hd[b]],
         NEW gd, gd = [hd EXCEPT ![a] = hp[e].next, ![b] = e],
         NEW G, G = [F EXCEPT ![a] = Tail(@), ![b] = <<e>> \o @]
  PROVE  World(gp, gd, G)
<1> DEFINE D == DOMAIN F
           E == Entries(hp)
           c == F[a]
           d == F[b]
<1>1. c \in Seq(E) /\ Len(c) \in Nat /\ Len(c) >= 1 /\ e = c[1] /\ c # <<>>
  <2>1. ListAt(hp, e, c)
    BY WorldIs
  <2> QED BY <2>1 DEF ListAt
<1>2. d \in Seq(E) /\ Len(d) \in Nat /\ hd[b] \in Pointers /\ hd[b] = Item(d, 1)
  <2>1. ListAt(hp, hd[b], d)
    BY WorldIs
  <2> QED BY <2>1 DEF ListAt
<1>3. e \in E
  BY <1>1
<1>4. NextSet(hp, e, hd[b], gp)
  BY <1>2, <1>3, NextIsSet DEF World
<1> DEFINE x == Tail(c)
           y == <<e>> \o d
<1>5. x \in Seq(E) /\ Len(x) = Len(c) - 1 /\ \A i \in 1..Len(x) : x[i] = c[i + 1] /\ i + 1 \in 1..Len(c)
  BY <1>1
<1>17. IsTail(x, c)
  <2>1. Len(x) \in Nat /\ Len(c) = Len(x) + 1
    BY <1>1, <1>5
  <2> HIDE DEF x
  <2> QED BY <1>5, <2>1 DEF IsTail
<1>6. y \in Seq(E) /\ Len(y) = Len(d) + 1 /\ y[1] = e /\ \A i \in 1..Len(y) : i # 1 => y[i] = d[i - 1] /\ i - 1 \in 1..Len(d)
  BY <1>2, <1>3
<1>18. IsTail(d, y)
  <2>1. \A i \in 1..Len(d) : i + 1 \in 1..Len(y) /\ i + 1 # 1 /\ (i + 1) - 1 = i
    BY <1>2, <1>6
  <2>2. \A i \in 1..Len(d) : d[i] = y[i + 1]
    <3> HIDE DEF y
    <3> QED BY <1>6, <2>1
  <2> QED BY <1>2, <1>6, <2>1, <2>2 DEF IsTail
<1>7. F \in [D -> Seq(E)] /\ hd \in [D -> Pointers]
  BY DEF World, Lists
<1>8. G = [F EXCEPT ![a] = x, ![b] = y]
  OBVIOUS
<1> HIDE DEF x, y, D, E
<1>9. DOMAIN G = D /\ G \in [D -> Seq(E)] /\ a \in D /\ b \in D /\ \A q \in D : G[q] = IF q = b THEN y ELSE IF q = a THEN x ELSE F[q]
  <2>1. a \in D /\ b \in D
    BY DEF D
  <2>2. DOMAIN G = D /\ \A q \in D : G[q] = IF q = b THEN y ELSE IF q = a THEN x ELSE F[q]
    BY <1>7, <1>8, <2>1
  <2>3. G = [q \in D |-> IF q = b THEN y ELSE IF q = a THEN x ELSE F[q]]
    BY <1>7, <1>8, <2>1
  <2>4. \A q \in D : (IF q = b THEN y ELSE IF q = a THEN x ELSE F[q]) \in Seq(E)
    BY <1>5, <1>6, <1>7
  <2> QED BY <2>1, <2>2, <2>3, <2>4
<1> HIDE DEF c, d
<1>10. Entries(gp) = E /\ gp \in HeapType /\ gp[e].next = hd[b] /\ \A p \in Addresses : p # e => gp[p] = hp[p]
  BY <1>4 DEF NextSet, SameKeys, E
<1>12. Apart(F) /\ Follows(hp, F)
  BY DEF World
<1>11. Rearranged(F, a, b, G)
  <2>1. F[a] = c /\ F[b] = d
    BY DEF c, d
  <2> QED BY <1>1, <1>6, <1>9, <1>17, <1>18, <2>1 DEF Rearranged, D
<1>13. Apart(G)
  BY <1>11, <1>12, ApartMove
<1>15. Follows(gp, G)
  <2> HIDE DEF D
  <2>1. e = F[a][1] /\ hd[b] = Item(F[b], 1)
    BY <1>1, <1>2 DEF c, d
  <2>2. Entries(hp) \subseteq Addresses /\ Lists(hp, F)
    BY LinksType DEF World
  <2>3. \A p \in Entries(hp) : p # F[a][1] => gp[p].next = hp[p].next
    <3> SUFFICES ASSUME NEW p \in Entries(hp), p # F[a][1] PROVE gp[p] = hp[p]
      OBVIOUS
    <3>1. p \in Addresses /\ p # e
      BY <2>1, <2>2
    <3> QED BY <1>10, <3>1
  <2>4. Relinked(hp, gp, F[a][1], Item(F[b], 1))
    BY <1>10, <2>1, <2>3 DEF Relinked
  <2> QED BY <1>11, <1>12, <1>13, <2>2, <2>4, FollowsMove
<1>16. gd \in [D -> Pointers] /\ \A q \in D : gd[q] = Item(G[q], 1)
  <2>1. hp[e].next = Item(c, 2) /\ hp[e].next \in Pointers
    <3>1. 1 \in 1..Len(c)
      BY <1>1
    <3>2. hp[c[1]].next = Item(c, 1 + 1)
      BY <1>12, <3>1 DEF Follows, c
    <3>3. hp[e].next \in Pointers
      BY <1>3, LinksType DEF World, E, EntryType
    <3> QED BY <1>1, <3>2, <3>3
  <2>2. Item(c, 2) = Item(x, 1)
    <3>1. Item(c, 1 + 1) = Item(x, 1)
      BY <1>17, TailItems
    <3> QED BY <3>1
  <2>3. e = Item(y, 1) /\ e \in Pointers
    <3>1. e \in Pointers
      BY DEF World
    <3>2. 1 \in 1..Len(y)
      BY <1>2, <1>6
    <3> QED BY <1>6, <3>1, <3>2 DEF Item
  <2>4. \A q \in D : hd[q] = Item(F[q], 1)
    BY DEF World, D
  <2>5. \A q \in D : gd[q] = IF q = b THEN e ELSE IF q = a THEN hp[e].next ELSE hd[q]
    BY <1>7, <1>9
  <2>6. gd \in [D -> Pointers]
    BY <1>7, <2>1, <2>3
  <2> QED BY <1>9, <2>1, <2>2, <2>3, <2>4, <2>5, <2>6
<1> QED BY <1>9, <1>10, <1>13, <1>15, <1>16 DEF World, Lists

\* The list b loses its entry number m.
IsCut(x, c, m) ==
  /\ Len(c) \in Nat /\ m \in 1..Len(c) /\ Len(x) = Len(c) - 1
  /\ \A i \in 1..Len(x) : i < m => i \in 1..Len(c) /\ x[i] = c[i]
  /\ \A i \in 1..Len(x) : i >= m => i + 1 \in 1..Len(c) /\ x[i] = c[i + 1]

\* G is F without entry m of the list b.
CutAt(F, b, m, G) ==
  /\ DOMAIN G = DOMAIN F /\ b \in DOMAIN F /\ IsCut(G[b], F[b], m)
  /\ \A q \in DOMAIN F : q # b => G[q] = F[q]

\* Entry i of the list q of G was entry j of that list of F.
CameFrom(F, G, b, m, q, i, j) ==
  /\ j \in 1..Len(F[q]) /\ F[q][j] = G[q][i]
  /\ j = IF q = b /\ i >= m THEN i + 1 ELSE i

LEMMA CutComes ==
  ASSUME NEW F, NEW b, NEW m, NEW G, CutAt(F, b, m, G), NEW q \in DOMAIN F, NEW i \in 1..Len(G[q])
  PROVE  \E j : CameFrom(F, G, b, m, q, i, j)
<1> USE DEF CutAt
<1>0. m \in Nat
  BY DEF IsCut
<1>1. CASE q = b /\ i >= m
  BY <1>1 DEF CameFrom, IsCut
<1>2. CASE q = b /\ ~(i >= m)
  <2>1. i < m
    BY <1>0, <1>2
  <2> QED BY <1>2, <2>1 DEF CameFrom, IsCut
<1>3. CASE q # b
  BY <1>3 DEF CameFrom
<1> QED BY <1>1, <1>2, <1>3

LEMMA ApartCut ==
  ASSUME NEW F, NEW b, NEW m, NEW G, CutAt(F, b, m, G), Apart(F)
  PROVE  Apart(G)
<1>1. DOMAIN G = DOMAIN F /\ m \in Nat
  BY DEF CutAt, IsCut
<1> SUFFICES ASSUME NEW q \in DOMAIN F, NEW p \in DOMAIN F, NEW i \in 1..Len(G[q]), NEW j \in 1..Len(G[p]), G[q][i] = G[p][j]
             PROVE  q = p /\ i = j
  BY <1>1 DEF Apart
<1>2. PICK s : CameFrom(F, G, b, m, q, i, s)
  BY CutComes
<1>3. PICK n : CameFrom(F, G, b, m, p, j, n)
  BY CutComes
<1>4. q = p /\ s = n
  BY <1>2, <1>3, ApartIs DEF CameFrom
<1> QED BY <1>1, <1>2, <1>3, <1>4 DEF CameFrom

LEMMA CutItems ==
  ASSUME NEW x, NEW c, NEW m, IsCut(x, c, m), NEW i \in Nat \ {0}
  PROVE  /\ i < m => Item(x, i) = Item(c, i)
         /\ i >= m => Item(x, i) = Item(c, i + 1)
<1>0. Len(c) \in Nat /\ m \in 1..Len(c) /\ Len(x) = Len(c) - 1
  BY DEF IsCut
<1>1. ASSUME i < m PROVE Item(x, i) = Item(c, i)
  <2>1. i \in 1..Len(c) /\ i \in 1..Len(x)
    BY <1>0, <1>1
  <2> QED BY <1>1, <2>1 DEF IsCut, Item
<1>2. ASSUME i >= m PROVE Item(x, i) = Item(c, i + 1)
  <2>1. i \in 1..Len(x) <=> i + 1 \in 1..Len(c)
    BY <1>0, <1>2
  <2>2. i \in 1..Len(x) => x[i] = c[i + 1]
    BY <1>2 DEF IsCut
  <2> QED BY <2>1, <2>2 DEF Item
<1> QED BY <1>1, <1>2

LEMMA FollowsCut ==
  ASSUME NEW F, NEW b, NEW m, NEW G, CutAt(F, b, m, G), Apart(F), NEW hp, Lists(hp, F), Follows(hp, F), NEW gp,
         IF m = 1 THEN gp = hp ELSE Relinked(hp, gp, F[b][m - 1], Item(F[b], m + 1))
  PROVE  Follows(gp, G)
<1>0. /\ DOMAIN G = DOMAIN F /\ b \in DOMAIN F /\ IsCut(G[b], F[b], m) /\ m \in Nat \ {0} /\ m \in 1..Len(F[b]) /\ Len(F[b]) \in Nat
  BY DEF CutAt, IsCut
<1> SUFFICES ASSUME NEW q \in DOMAIN F, NEW i \in 1..Len(G[q]) PROVE gp[G[q][i]].next = Item(G[q], i + 1)
  BY <1>0 DEF Follows
<1>1. PICK j : CameFrom(F, G, b, m, q, i, j)
  BY CutComes
<1>2. j \in 1..Len(F[q]) /\ G[q][i] = F[q][j] /\ j = IF q = b /\ i >= m THEN i + 1 ELSE i
  BY <1>1 DEF CameFrom
<1>3. hp[F[q][j]].next = Item(F[q], j + 1) /\ F[q][j] \in Entries(hp)
  BY <1>2 DEF Follows, Lists
<1>4. i \in Nat /\ i + 1 \in Nat \ {0} /\ (i + 1) + 1 \in Nat
  OBVIOUS
<1>5. CASE q = b /\ i = m - 1
  <2>1. m # 1 /\ j = m - 1 /\ i + 1 = m
    BY <1>0, <1>2, <1>4, <1>5
  <2>2. gp[F[b][m - 1]].next = Item(F[b], m + 1)
    BY <2>1 DEF Relinked
  <2>3. Item(G[b], m) = Item(F[b], m + 1)
    <3>1. m >= m
      BY <1>0
    <3> QED BY <1>0, <3>1, CutItems
  <2> QED BY <1>2, <1>5, <2>1, <2>2, <2>3
<1>6. CASE ~(q = b /\ i = m - 1)
  <2>1. gp[F[q][j]].next = hp[F[q][j]].next
    <3>1. CASE m = 1
      BY <3>1
    <3>2. CASE m # 1
      <4>1. m - 1 \in 1..Len(F[b])
        BY <1>0, <3>2
      <4>2. F[q][j] # F[b][m - 1]
        <5> SUFFICES ASSUME F[q][j] = F[b][m - 1] PROVE FALSE
          OBVIOUS
        <5>1. q = b /\ j = m - 1
          BY <1>0, <1>2, <4>1, ApartIs
        <5> QED BY <1>0, <1>2, <1>4, <1>6, <5>1
      <4> QED BY <1>3, <3>2, <4>2 DEF Relinked
    <3> QED BY <3>1, <3>2
  <2>2. Item(F[q], j + 1) = Item(G[q], i + 1)
    <3>1. CASE q # b
      BY <1>2, <3>1 DEF CutAt
    <3>2. CASE q = b /\ i >= m
      <4>1. j = i + 1 /\ i + 1 >= m
        BY <1>0, <1>2, <1>4, <3>2
      <4> QED BY <1>0, <1>4, <3>2, <4>1, CutItems
    <3>3. CASE q = b /\ ~(i >= m)
      <4>1. j = i /\ i + 1 < m
        BY <1>0, <1>2, <1>4, <1>6, <3>3
      <4> QED BY <1>0, <1>4, <3>3, <4>1, CutItems
    <3> QED BY <3>1, <3>2, <3>3
  <2> QED BY <1>2, <1>3, <2>1, <2>2
<1> QED BY <1>5, <1>6

\* The list b gets the entry e at its end.
IsMore(y, c, e) ==
  /\ Len(c) \in Nat /\ Len(y) = Len(c) + 1 /\ y[Len(c) + 1] = e
  /\ \A i \in 1..Len(c) : i \in 1..Len(y) /\ y[i] = c[i]

\* G is F with e at the end of the list b.
AddedTo(F, b, e, G) ==
  /\ DOMAIN G = DOMAIN F /\ b \in DOMAIN F /\ IsMore(G[b], F[b], e)
  /\ \A q \in DOMAIN F : q # b => G[q] = F[q]
  /\ \A q \in DOMAIN F : \A i \in 1..Len(F[q]) : F[q][i] # e

LEMMA AddedPlace ==
  ASSUME NEW F, NEW b, NEW e, NEW G, AddedTo(F, b, e, G), NEW q \in DOMAIN F, NEW i \in 1..Len(G[q])
  PROVE  /\ G[q][i] = e => q = b /\ i = Len(F[b]) + 1
         /\ G[q][i] # e => i \in 1..Len(F[q]) /\ F[q][i] = G[q][i]
<1> USE DEF AddedTo
<1>1. CASE q # b
  BY <1>1
<1>2. CASE q = b /\ i = Len(F[b]) + 1
  <2>1. G[q][i] = e
    BY <1>2 DEF IsMore
  <2> QED BY <1>2, <2>1
<1>3. CASE q = b /\ i # Len(F[b]) + 1
  <2>1. i \in 1..Len(F[b])
    BY <1>3 DEF IsMore
  <2>2. G[b][i] = F[b][i]
    BY <2>1 DEF IsMore
  <2> QED BY <1>3, <2>1, <2>2
<1> QED BY <1>1, <1>2, <1>3

LEMMA ApartAdded ==
  ASSUME NEW F, NEW b, NEW e, NEW G, AddedTo(F, b, e, G), Apart(F)
  PROVE  Apart(G)
<1>1. DOMAIN G = DOMAIN F
  BY DEF AddedTo
<1> SUFFICES ASSUME NEW q \in DOMAIN F, NEW p \in DOMAIN F, NEW i \in 1..Len(G[q]), NEW j \in 1..Len(G[p]), G[q][i] = G[p][j]
             PROVE  q = p /\ i = j
  BY <1>1 DEF Apart
<1>2. CASE G[q][i] = e
  <2>1. \A x \in DOMAIN F : \A y \in 1..Len(G[x]) : G[x][y] = e => x = b /\ y = Len(F[b]) + 1
    BY AddedPlace
  <2>2. q = b /\ i = Len(F[b]) + 1
    BY <1>2, <2>1
  <2>3. p = b /\ j = Len(F[b]) + 1
    BY <1>2, <2>1
  <2> QED BY <2>2, <2>3
<1>3. CASE G[q][i] # e
  <2>1. i \in 1..Len(F[q]) /\ F[q][i] = G[q][i] /\ j \in 1..Len(F[p]) /\ F[p][j] = G[p][j]
    BY <1>3, AddedPlace
  <2> QED BY <2>1, ApartIs
<1> QED BY <1>2, <1>3

LEMMA FollowsAdded ==
  ASSUME NEW F, NEW b, NEW e, NEW G, AddedTo(F, b, e, G), Apart(F), NEW hp, Lists(hp, F), Follows(hp, F), hp[e].next = Nil, e \in Entries(hp),
         NEW gp, IF F[b] = <<>> THEN gp = hp ELSE Relinked(hp, gp, F[b][Len(F[b])], e)
  PROVE  Follows(gp, G)
<1>0. /\ DOMAIN G = DOMAIN F /\ b \in DOMAIN F /\ IsMore(G[b], F[b], e) /\ \A q \in DOMAIN F : q # b => G[q] = F[q]
      /\ Len(F[b]) \in Nat /\ (F[b] # <<>> => Len(F[b]) \in 1..Len(F[b])) /\ (F[b] = <<>> => Len(F[b]) = 0)
  <2>1. F[b] \in Seq(Entries(hp))
    BY DEF Lists, AddedTo
  <2> QED BY <2>1 DEF AddedTo
<1> SUFFICES ASSUME NEW q \in DOMAIN F, NEW i \in 1..Len(G[q]) PROVE gp[G[q][i]].next = Item(G[q], i + 1)
  BY <1>0 DEF Follows
<1>1. CASE G[q][i] = e
  <2>1. q = b /\ i = Len(F[b]) + 1
    BY <1>1, AddedPlace
  <2>2. i + 1 \notin 1..Len(G[b])
    BY <1>0, <2>1 DEF IsMore
  <2>3. gp[e].next = Nil
    <3>1. CASE F[b] = <<>>
      BY <3>1
    <3>2. CASE F[b] # <<>>
      <4>1. F[b][Len(F[b])] # e
        BY <1>0, <3>2 DEF AddedTo
      <4> QED BY <3>2, <4>1 DEF Relinked
    <3> QED BY <3>1, <3>2
  <2> QED BY <1>1, <2>1, <2>2, <2>3 DEF Item
<1>2. CASE G[q][i] # e
  <2>1. i \in 1..Len(F[q]) /\ F[q][i] = G[q][i]
    BY <1>2, AddedPlace
  <2>2. hp[F[q][i]].next = Item(F[q], i + 1) /\ F[q][i] \in Entries(hp)
    BY <2>1 DEF Follows, Lists
  <2>3. CASE q = b /\ i = Len(F[b])
    <3>1. F[b] # <<>>
      BY <1>0, <2>1, <2>3
    <3>2. gp[F[b][Len(F[b])]].next = e
      BY <3>1 DEF Relinked
    <3>3. Item(G[b], i + 1) = e
      BY <1>0, <2>3 DEF IsMore, Item
    <3> QED BY <2>1, <2>3, <3>2, <3>3
  <2>4. CASE ~(q = b /\ i = Len(F[b]))
    <3>1. gp[F[q][i]].next = hp[F[q][i]].next
      <4>1. CASE F[b] = <<>>
        BY <4>1
      <4>2. CASE F[b] # <<>>
        <5>1. F[q][i] # F[b][Len(F[b])]
          BY <1>0, <2>1, <2>4, <4>2, ApartIs
        <5> QED BY <2>2, <4>2, <5>1 DEF Relinked
      <4> QED BY <4>1, <4>2
    <3>2. Item(G[q], i + 1) = Item(F[q], i + 1)
      <4>1. CASE q # b
        BY <1>0, <4>1
      <4>2. CASE q = b
        <5>1. i + 1 \in 1..Len(F[b])
          BY <1>0, <2>1, <2>4, <4>2
        <5> QED BY <1>0, <4>2, <5>1 DEF IsMore, Item
      <4> QED BY <4>1, <4>2
    <3> QED BY <2>1, <2>2, <3>1, <3>2
  <2> QED BY <2>3, <2>4
<1> QED BY <1>1, <1>2

-----------------------------------------------------------------------------
(***************************************************************************)
(* Chains and lookups in two heaps.                                        *)
(***************************************************************************)
\* The links lead from no entry of R out of R, and its entries have the same
\* keys and links in both heaps.
Frame(hp, gp, R) ==
  /\ hp \in HeapType /\ gp \in HeapType /\ R \subseteq Entries(hp) /\ R \subseteq Entries(gp)
  /\ \A q \in R : hp[q].next \in R \cup {Nil} /\ gp[q].next = hp[q].next /\ gp[q].key = hp[q].key

LEMMA ChainFrame ==
  ASSUME NEW hp, NEW gp, NEW R, Frame(hp, gp, R), NEW p \in R \cup {Nil}
  PROVE  /\ Chain(gp, p) = Chain(hp, p)
         /\ \A i \in 1..Len(Chain(hp, p)) : Chain(hp, p)[i] \in R
<1> DEFINE N  == MaxEntries + 1
           c  == Chain(hp, p)
           lk == Links(hp)
           mk == Links(gp)
<1>0. N \in Nat /\ hp \in HeapType /\ gp \in HeapType /\ p \in Pointers /\ R \subseteq Entries(hp) /\ R \subseteq Entries(gp)
  BY BoundAssumption, PointersAre, LinksType DEF Frame
<1>1. Path(lk, p, N, c)
  BY <1>0, ChainIsPath
<1>2. \A q \in R : lk[q] = hp[q].next /\ mk[q] = gp[q].next
  BY <1>0, LinksType
<1>3. lk[Nil] = Nil /\ mk[Nil] = Nil
  BY <1>0, LinksType DEF Links0
<1> HIDE DEF lk, mk, N, c
<1>4. \A q \in R : lk[q] \in R \cup {Nil} /\ mk[q] = lk[q]
  BY <1>2 DEF Frame
<1>5. \A i \in 1..Len(c) : c[i] \in R
  BY <1>0, <1>1, <1>4, PathStays
<1>6. c \in Seq(Addresses) /\ Len(c) \in Nat
  BY <1>1 DEF Path
<1>7. \A i \in 1..(Len(c) + 1) : Step(mk, p, c, i) = Step(lk, p, c, i)
  <2> TAKE i \in 1..(Len(c) + 1)
  <2>1. i # 1 => i - 1 \in 1..Len(c)
    BY <1>6
  <2> QED BY <1>4, <1>5, <2>1 DEF Step
<1>8. Path(mk, p, N, c)
  <2>1. Len(c) + 1 \in 1..(Len(c) + 1) /\ \A i \in 1..Len(c) : i \in 1..(Len(c) + 1)
    BY <1>6
  <2> QED BY <1>1, <1>7, <2>1 DEF Path
<1>9. \A d : Path(mk, p, N, d) => Chain(gp, p) = d
  BY <1>0, ChainIsPath DEF mk, N
<1>10. Chain(gp, p) = c
  BY <1>8, <1>9
<1> QED BY <1>5, <1>10 DEF c

\* Lookups in them go the same way.
SameFind(hp, gp, p) ==
  \A k : Find(gp, p, k) = Find(hp, p, k) /\ (Hangs(gp, p, k) <=> Hangs(hp, p, k))

LEMMA FindFrame ==
  ASSUME NEW hp, NEW gp, NEW R, Frame(hp, gp, R), NEW p \in R \cup {Nil}
  PROVE  SameFind(hp, gp, p)
<1> DEFINE c == Chain(hp, p)
<1>1. Chain(gp, p) = c /\ \A i \in 1..Len(c) : c[i] \in R
  BY ChainFrame
<1>2. \A q \in R : gp[q].key = hp[q].key
  BY DEF Frame
<1> HIDE DEF c
<1>3. \A k : Hits(gp, c, k) = Hits(hp, c, k)
  BY <1>1, <1>2 DEF Hits
<1>4. Chain(hp, p) = c
  BY DEF c
<1>5. \A k : Find(gp, p, k) = Find(hp, p, k)
  BY <1>1, <1>3, <1>4 DEF Find
<1>6. Endless(gp, p) <=> Endless(hp, p)
  BY <1>1, <1>4 DEF Endless
<1> QED BY <1>5, <1>6 DEF SameFind, Hangs

\* The links lead from no entry of R out of R.
Within(hp, R) == hp \in HeapType /\ R \subseteq Entries(hp) /\ \A q \in R : hp[q].next \in R \cup {Nil}

\* A lookup on the chain at p finds f, which is Nil or in R.
FoundIn(hp, p, R, k, f) ==
  /\ f = Nil \/ (f \in R /\ hp[f].key = k)
  /\ f = Nil <=> Hits(hp, Chain(hp, p), k) = {}
  /\ p = Nil => f = Nil /\ Chain(hp, p) = <<>>

LEMMA FindIn ==
  ASSUME NEW hp, NEW R, Within(hp, R), NEW p \in R \cup {Nil}, NEW k
  PROVE  FoundIn(hp, p, R, k, Find(hp, p, k))
<1> DEFINE c == Chain(hp, p)
           H == Hits(hp, c, k)
<1>0. p \in Pointers /\ hp \in HeapType /\ R \subseteq Entries(hp) /\ \A q \in R : hp[q].next \in R \cup {Nil}
  BY PointersAre, LinksType DEF Within
<1>1. ChainIn(hp, p, R, c)
  BY <1>0, ChainSteps
<1>2. Find(hp, p, k) = IF H = {} THEN Nil ELSE c[Min(H)]
  BY DEF Find
<1> HIDE DEF c
<1>3. H \subseteq 1..Len(c) /\ H \subseteq Nat /\ \A i \in H : hp[c[i]].key = k
  BY DEF Hits
<1>4. \A i \in 1..Len(c) : c[i] \in R /\ c[i] # Nil
  BY <1>1 DEF ChainIn
<1>5. H # {} => Min(H) \in H
  BY <1>3, MinIs
<1>6. p = Nil => c = <<>> /\ H = {}
  BY <1>1, <1>3 DEF ChainIn
<1> HIDE DEF H
<1>7. H # {} => c[Min(H)] \in R /\ c[Min(H)] # Nil /\ hp[c[Min(H)]].key = k
  BY <1>3, <1>4, <1>5
<1> QED BY <1>2, <1>6, <1>7 DEF H, c, FoundIn

\* The chain at p, which ends, gets the entry e at its end.
LEMMA ChainAppend ==
  ASSUME NEW hp \in HeapType, NEW p \in Entries(hp), NEW c, c = Chain(hp, p), Len(c) <= MaxEntries,
         NEW e \in Entries(hp), hp[e].next = Nil, \A i \in 1..Len(c) : c[i] # e,
         NEW gp, NextSet(hp, Last(c), e, gp), \A q \in Entries(hp) : hp[q].next \in Entries(hp) \cup {Nil}
  PROVE  Chain(gp, p) = Append(c, e) /\ Last(c) \in Entries(hp) /\ Len(c) \in Nat \ {0}
<1> DEFINE N  == MaxEntries + 1
           lk == Links(hp)
           mk == Links(gp)
           z  == Last(c)
           d  == Append(c, e)
           E  == Entries(hp)
<1>0. N \in Nat /\ p \in Pointers /\ p # Nil /\ e \in Addresses /\ e \in Pointers /\ p \in E /\ E \subseteq Entries(hp) /\ E \subseteq Addresses
  BY BoundAssumption, PointersAre, LinksType
<1>a. \A q \in E : hp[q].next \in E \cup {Nil}
  OBVIOUS
<1>1. ChainIn(hp, p, E, c)
  <2> HIDE DEF E
  <2> QED BY <1>0, <1>a, ChainSteps
<1>2. /\ c \in Seq(Addresses) /\ Len(c) \in Nat /\ Len(c) >= 1 /\ c[1] = p
      /\ \A i \in 1..Len(c) : c[i] \in E /\ c[i] # Nil
      /\ \A i \in 1..Len(c) : i + 1 \in 1..Len(c) => hp[c[i]].next = c[i + 1]
      /\ hp[c[Len(c)]].next = Nil
  BY <1>0, <1>1 DEF ChainIn
<1>3. z = c[Len(c)] /\ z \in E /\ Len(c) \in 1..Len(c)
  BY <1>2 DEF Last
<1>4. gp \in HeapType /\ Entries(gp) = E /\ \A q \in E : gp[q].next = IF q = z THEN e ELSE hp[q].next
  BY DEF NextSet, SameKeys
<1>5. \A q \in E : mk[q] = IF q = z THEN e ELSE hp[q].next
  <2>1. \A q \in Entries(gp) : mk[q] = gp[q].next
    BY <1>4, LinksType
  <2> QED BY <1>4, <2>1
<1>6. \A i \in 1..Len(c) : i + 1 \in 1..Len(c) => c[i] # z
  <2> SUFFICES ASSUME NEW i \in 1..Len(c), i + 1 \in 1..Len(c), c[i] = z PROVE FALSE
    OBVIOUS
  <2>1. hp[z].next = c[i + 1] /\ c[i + 1] # Nil /\ hp[z].next = Nil
    BY <1>2, <1>3
  <2> QED BY <2>1
<1>7. e # z
  BY <1>3
<1>8. d \in Seq(Addresses) /\ Len(d) = Len(c) + 1 /\ d[Len(c) + 1] = e /\ \A i \in 1..Len(c) : d[i] = c[i]
  BY <1>0, <1>2
<1> HIDE DEF d, z, mk, lk, N, E
<1>9. \A i \in 1..Len(d) : d[i] = Step(mk, p, d, i)
  <2> SUFFICES ASSUME NEW i \in 1..Len(d), i # 1 PROVE d[i] = mk[d[i - 1]]
    <3>1. d[1] = p
      BY <1>2, <1>8
    <3> QED BY <3>1 DEF Step
  <2> DEFINE j == i - 1
  <2>1. j \in 1..Len(c) /\ i = j + 1
    BY <1>2, <1>8
  <2> HIDE DEF j
  <2>2. d[j] = c[j] /\ c[j] \in E
    BY <1>2, <1>8, <2>1
  <2>3. CASE j = Len(c)
    BY <1>3, <1>5, <1>8, <2>1, <2>2, <2>3 DEF j
  <2>4. CASE j # Len(c)
    <3>1. i \in 1..Len(c)
      BY <1>2, <2>1, <2>4
    <3>2. mk[c[j]] = c[i] /\ d[i] = c[i]
      BY <1>2, <1>5, <1>6, <1>8, <2>1, <2>2, <3>1
    <3> QED BY <2>2, <3>2 DEF j
  <2> QED BY <2>3, <2>4
<1>10. Step(mk, p, d, Len(d) + 1) = Nil
  <2>1. Len(d) + 1 # 1 /\ (Len(d) + 1) - 1 = Len(c) + 1
    BY <1>2, <1>8
  <2>2. mk[e] = Nil
    BY <1>5, <1>7 DEF E
  <2> QED BY <1>8, <2>1, <2>2 DEF Step
<1>11. Len(d) <= N
  BY <1>2, <1>8, BoundAssumption DEF N
<1>12. Path(mk, p, N, d)
  BY <1>8, <1>9, <1>10, <1>11 DEF Path
<1>13. \A x : Path(mk, p, N, x) => Chain(gp, p) = x
  BY <1>0, <1>4, ChainIsPath DEF mk, N
<1>14. Chain(gp, p) = d
  BY <1>12, <1>13
<1> QED BY <1>2, <1>3, <1>14 DEF d, z, E

\* An entry of k hung at the end of a chain without k is what a lookup finds.
LEMMA FindAppended ==
  ASSUME NEW hp, NEW gp, NEW p, NEW k, NEW c \in Seq(Addresses), NEW e \in Addresses,
         Chain(gp, p) = Append(c, e), gp[e].key = k,
         \A i \in 1..Len(c) : gp[c[i]].key # k
  PROVE  Find(gp, p, k) = e
<1> DEFINE d == Append(c, e)
           H == Hits(gp, d, k)
<1>1. Len(c) \in Nat /\ Len(d) = Len(c) + 1 /\ d[Len(c) + 1] = e /\ \A i \in 1..Len(c) : d[i] = c[i]
  OBVIOUS
<1> HIDE DEF d
<1>2. H = {Len(c) + 1}
  BY <1>1 DEF Hits
<1>3. H \subseteq Nat /\ H # {}
  BY <1>1, <1>2
<1>4. Min(H) = Len(c) + 1
  <2> HIDE DEF H
  <2>1. Min(H) \in H
    BY <1>3, MinIs
  <2> QED BY <1>2, <2>1
<1>5. Find(gp, p, k) = IF H = {} THEN Nil ELSE d[Min(H)]
  BY DEF Find, d
<1> QED BY <1>1, <1>3, <1>4, <1>5

\* A chain of one entry.
LEMMA ChainSingle ==
  ASSUME NEW hp \in HeapType, NEW e \in Entries(hp), hp[e].next = Nil
  PROVE  Chain(hp, e) = <<e>>
<1> DEFINE N == MaxEntries + 1
           lk == Links(hp)
           d == <<e>>
<1>0. N \in Nat /\ 1 <= N /\ e \in Addresses /\ e \in Pointers /\ lk[e] = Nil
  BY BoundAssumption, PointersAre, LinksType
<1>1. d \in Seq(Addresses) /\ Len(d) = 1 /\ d[1] = e
  BY <1>0
<1> HIDE DEF d, lk, N
<1>2. Path(lk, e, N, d)
  BY <1>0, <1>1 DEF Path, Step
<1>3. \A x : Path(lk, e, N, x) => Chain(hp, e) = x
  BY <1>0, ChainIsPath DEF lk, N
<1> QED BY <1>2, <1>3 DEF d

-----------------------------------------------------------------------------
(***************************************************************************)
(* Insertions.                                                             *)
(***************************************************************************)
Full(hp) == {p \in Addresses : hp[p] = Free} = {}

LEMMA NewIsMade ==
  ASSUME NEW hp \in HeapType, ~Full(hp), NEW k \in Keys, NEW v \in Values \cup {Unset}
  PROVE  Made(hp, NewAddress(hp), k, v, [hp EXCEPT ![NewAddress(hp)] = NewEntry(k, v)])
<1> DEFINE S == {p \in Addresses : hp[p] = Free}
           e == NewAddress(hp)
<1>1. S \subseteq Nat /\ S # {}
  BY DEF Full, Addresses
<1>2. e = Min(S)
  BY DEF NewAddress
<1> HIDE DEF e
<1>3. e \in S
  <2> HIDE DEF S
  <2> QED BY <1>1, <1>2, MinIs
<1>4. e \in Addresses /\ hp[e] = Free
  BY <1>3
<1> DEFINE gp == [hp EXCEPT ![e] = NewEntry(k, v)]
<1> HIDE DEF gp
<1>5. gp = [hp EXCEPT ![e] = NewEntry(k, v)]
  BY DEF gp
<1>6. Made(hp, e, k, v, gp)
  BY <1>4, <1>5, EntryIsMade
<1> QED BY <1>5, <1>6 DEF e

LEMMA MadeKeeps ==
  ASSUME NEW n \in Nat \ {0}, NEW hp, HeapIn(hp, n), NEW k, NEW v, NEW e, NEW gp, Made(hp, e, k, v, gp)
  PROVE  /\ HeapIn(gp, n) /\ e \in Belong(gp, n, Hash(k, n)) /\ e # Nil
         /\ \A d : Belong(hp, n, d) \subseteq Belong(gp, n, d)
         /\ \A p \in Entries(hp) : gp[p] = hp[p]
<1>1. \A p \in Entries(hp) : p \in Addresses /\ p # e /\ gp[p] = hp[p]
  BY DEF Made, Entries
<1>2. Entries(gp) = Entries(hp) \cup {e} /\ gp[e].key = k /\ gp[e].next = Nil /\ gp \in HeapType /\ e \in Addresses
  BY DEF Made
<1>3. \A d : Belong(hp, n, d) \subseteq Belong(gp, n, d)
  BY <1>1, <1>2 DEF Belong
<1>4. e \in Belong(gp, n, Hash(k, n))
  BY <1>2 DEF Belong
<1>5. HeapIn(gp, n)
  <2> SUFFICES ASSUME NEW p \in Entries(gp)
               PROVE  gp[p].next \in Belong(gp, n, Hash(gp[p].key, n)) \cup {Nil}
    BY <1>2 DEF HeapIn
  <2>1. CASE p = e
    BY <1>2, <2>1
  <2>2. CASE p # e
    <3>1. p \in Entries(hp) /\ gp[p] = hp[p]
      BY <1>1, <1>2, <2>2
    <3>2. hp[p].next \in Belong(hp, n, Hash(hp[p].key, n)) \cup {Nil}
      BY <3>1 DEF HeapIn
    <3> QED BY <1>3, <3>1, <3>2
  <2> QED BY <2>1, <2>2
<1> QED BY <1>1, <1>2, <1>3, <1>4, <1>5, PointersAre

LEMMA TableMade ==
  ASSUME NEW n \in Nat \ {0}, NEW m, NEW hp, HeapIn(hp, n), NEW k, NEW v, NEW e, NEW gp, Made(hp, e, k, v, gp),
         NEW tbl, TableIn(hp, tbl, m, n)
  PROVE  TableIn(gp, tbl, m, n)
BY MadeKeeps DEF TableIn

\* What one of the loops of findPositionForInsert does.
Inserts(hp, tbl, m, n, k, a) ==
  /\ SameKeys(hp, a.heap) /\ HeapIn(a.heap, n) /\ TableIn(a.heap, a.tbl, m, n) /\ a.tbl \in Tables
  /\ a.entry \in Entries(hp) /\ hp[a.entry].key = k /\ a.added \in Nat
  /\ \A p \in Entries(hp) : a.heap[p].val = hp[p].val

LEMMA InsertionKeeps ==
  ASSUME NEW n \in Nat \ {0}, NEW m \in Nat, NEW hp, HeapIn(hp, n), NEW tbl, TableIn(hp, tbl, m, n),
         NEW i \in 0..(m - 1), NEW e \in Belong(hp, n, i % n), NEW k, hp[e].key = k
  PROVE  Inserts(hp, tbl, m, n, k, Insertion(hp, tbl, i, k, e))
<1> DEFINE f == Find(hp, tbl[i], k)
           a == Insertion(hp, tbl, i, k, e)
           R == Belong(hp, n, i % n)
<1>0. hp \in HeapType /\ SameKeys(hp, hp) /\ tbl \in Tables /\ tbl[i] \in R \cup {Nil} /\ e \in Entries(hp) /\ R \subseteq Entries(hp)
  BY DEF HeapIn, SameKeys, TableIn, Tables, Belong
<1>1. CASE f # Nil
  <2>1. a = [heap |-> hp, tbl |-> tbl, entry |-> f, exist |-> TRUE, added |-> 0]
    BY <1>1 DEF Insertion
  <2>2. f \in R /\ hp[f].key = k
    <3> DEFINE p == tbl[i]
    <3>1. p \in R \cup {Nil} /\ f = Find(hp, p, k)
      BY <1>0
    <3>2. Within(hp, R)
      BY DEF HeapIn, Belong, Within
    <3> HIDE DEF p, f, R
    <3>3. FoundIn(hp, p, R, k, f)
      BY <3>1, <3>2, FindIn
    <3> QED BY <1>1, <3>3 DEF FoundIn
  <2>3. f \in Entries(hp)
    BY <1>0, <2>2
  <2> HIDE DEF a, f
  <2> QED BY <1>0, <2>1, <2>2, <2>3 DEF Inserts, a
<1>2. CASE f = Nil
  <2> DEFINE l == Linked(hp, tbl, i, e)
  <2>1. a.heap = l.heap /\ a.tbl = l.tbl /\ a.entry = e /\ a.added = 1
    BY <1>2 DEF Insertion
  <2>2. /\ SameKeys(hp, l.heap) /\ HeapIn(l.heap, n) /\ TableIn(l.heap, l.tbl, m, n) /\ l.tbl \in Tables
        /\ \A p \in Entries(hp) : l.heap[p].val = hp[p].val
    BY LinkedKeeps
  <2> HIDE DEF l, a
  <2>3. Inserts(hp, tbl, m, n, k, a)
    BY <1>0, <2>1, <2>2 DEF Inserts
  <2> QED BY <2>3 DEF a
<1> QED BY <1>1, <1>2

\* g is t with other arrays and another count.
Changed(t, u, w, c, g) ==
  /\ g \in TableType /\ g.table = u /\ g.rehashingTbl = w /\ g.count = c
  /\ g.size = t.size /\ g.rehashingIdx = t.rehashingIdx /\ g.rehashingSize = t.rehashingSize

WithNew(t, w, c)     == [t EXCEPT !.rehashingTbl = w, !.count = c]
WithOld(t, u, c)     == [t EXCEPT !.table = u, !.count = c]
WithBoth(t, u, w, c) == [t EXCEPT !.rehashingTbl = w, !.table = u, !.count = c]

LEMMA NewChanged ==
  ASSUME NEW t \in TableType, NEW w \in Tables, NEW c \in Nat
  PROVE  Changed(t, t.table, w, c, WithNew(t, w, c))
<1> DEFINE g == [t EXCEPT !.rehashingTbl = w, !.count = c]
<1>1. /\ g.table = t.table /\ g.rehashingTbl = w /\ g.count = c
      /\ g.size = t.size /\ g.rehashingIdx = t.rehashingIdx /\ g.rehashingSize = t.rehashingSize
  BY DEF TableType
<1>2. g \in TableType
  BY DEF TableType
<1> QED BY <1>1, <1>2 DEF Changed, WithNew

LEMMA OldChanged ==
  ASSUME NEW t \in TableType, NEW u \in Tables, NEW c \in Nat
  PROVE  Changed(t, u, t.rehashingTbl, c, WithOld(t, u, c))
<1> DEFINE g == [t EXCEPT !.table = u, !.count = c]
<1>1. /\ g.table = u /\ g.rehashingTbl = t.rehashingTbl /\ g.count = c
      /\ g.size = t.size /\ g.rehashingIdx = t.rehashingIdx /\ g.rehashingSize = t.rehashingSize
  BY DEF TableType
<1>2. g \in TableType
  BY DEF TableType
<1> QED BY <1>1, <1>2 DEF Changed, WithOld

LEMMA BothChanged ==
  ASSUME NEW t \in TableType, NEW u \in Tables, NEW w \in Tables, NEW c \in Nat
  PROVE  Changed(t, u, w, c, WithBoth(t, u, w, c))
<1> DEFINE g == [t EXCEPT !.rehashingTbl = w, !.table = u, !.count = c]
<1>1. /\ g.table = u /\ g.rehashingTbl = w /\ g.count = c
      /\ g.size = t.size /\ g.rehashingIdx = t.rehashingIdx /\ g.rehashingSize = t.rehashingSize
  BY DEF TableType
<1>2. g \in TableType
  BY DEF TableType
<1> QED BY <1>1, <1>2 DEF Changed, WithBoth

LEMMA LooseChanged ==
  ASSUME NEW n \in Nat \ {0}, NEW hp, NEW t, Loose(hp, t, n), Between(t), NEW gp, HeapIn(gp, n),
         NEW u, NEW w, TableIn(gp, u, t.size, n), TableIn(gp, w, t.rehashingSize, n),
         NEW c, NEW g, Changed(t, u, w, c, g)
  PROVE  Loose(gp, g, n) /\ Between(g) /\ (Rehashing(g) <=> Rehashing(t))
BY DEF Loose, Between, Books, Rehashing, Changed

\* What holds of the sizes of a table, and of the bucket of a key.
LEMMA LooseSizes ==
  ASSUME NEW n \in Nat \ {0}, NEW hp, NEW t, Loose(hp, t, n), NEW k \in Keys
  PROVE  /\ t.size \in Nat \ {0} /\ t.count \in Nat /\ t.table \in Tables /\ t.rehashingTbl \in Tables
         /\ t.rehashingSize \in Nat /\ HeapIn(hp, n) /\ hp \in HeapType /\ t \in TableType
         /\ TableIn(hp, t.table, t.size, n) /\ TableIn(hp, t.rehashingTbl, t.rehashingSize, n)
         /\ Hash(k, t.size) \in 0..(t.size - 1) /\ Hash(k, t.size) % n = Hash(k, n)
         /\ Rehashing(t) => /\ Hash(k, t.rehashingSize) \in 0..(t.rehashingSize - 1)
                            /\ Hash(k, t.rehashingSize) % n = Hash(k, n)
                            /\ t.rehashingSize \in Nat \ {0}
<1>1. /\ t.size \in Nat \ {0} /\ t.count \in Nat /\ t.table \in Tables /\ t.rehashingTbl \in Tables
      /\ t.rehashingSize \in Nat /\ HeapIn(hp, n) /\ hp \in HeapType /\ t \in TableType
      /\ TableIn(hp, t.table, t.size, n) /\ TableIn(hp, t.rehashingTbl, t.rehashingSize, n) /\ Divides(n, t.size)
  BY DEF Loose, TableType, HeapIn
<1>2. Hash(k, t.size) \in 0..(t.size - 1) /\ Hash(k, t.size) % n = Hash(k, n)
  BY <1>1, HashType, HashHash
<1>3. ASSUME Rehashing(t)
      PROVE  /\ Hash(k, t.rehashingSize) \in 0..(t.rehashingSize - 1)
             /\ Hash(k, t.rehashingSize) % n = Hash(k, n)
             /\ t.rehashingSize \in Nat \ {0}
  <2>1. Divides(n, t.rehashingSize) /\ t.rehashingSize \in Nat \ {0}
    BY <1>1, <1>3, DoubleDivides DEF Loose, Books
  <2> QED BY <2>1, HashType, HashHash
<1> QED BY <1>1, <1>2, <1>3

\* After a call the links respect the classes still, and no key has changed.
Kept(s, n, k, r) == Loose(r.heap, r.h, n) /\ Between(r.h) /\ (Rehashing(r.h) <=> Rehashing(s.h))

LEMMA FindPositionForInsertKeeps ==
  ASSUME NEW n \in Nat \ {0}, NEW s, Loose(s.heap, s.h, n), Between(s.h), ~Full(s.heap), NEW k \in Keys
  PROVE  LET r == FindPositionForInsert(s, k)
         IN Kept(s, n, k, r) /\ r.entry \in Entries(r.heap) /\ r.heap[r.entry].key = k
<1> DEFINE t  == s.h
           e  == NewAddress(s.heap)
           hp == [s.heap EXCEPT ![e] = NewEntry(k, Unset)]
           i  == Hash(k, t.size)
           j  == Hash(k, t.rehashingSize)
           a  == Insertion(hp, t.rehashingTbl, j, k, e)
           b  == Insertion(hp, t.table, i, k, e)
           c  == Insertion(a.heap, t.table, i, k, e)
           r  == FindPositionForInsert(s, k)
<1>0. /\ t.size \in Nat \ {0} /\ t.count \in Nat /\ t.table \in Tables /\ t.rehashingTbl \in Tables
      /\ t.rehashingSize \in Nat /\ HeapIn(s.heap, n) /\ s.heap \in HeapType /\ t \in TableType
      /\ TableIn(s.heap, t.table, t.size, n) /\ TableIn(s.heap, t.rehashingTbl, t.rehashingSize, n)
      /\ i \in 0..(t.size - 1) /\ i % n = Hash(k, n)
      /\ Rehashing(t) => j \in 0..(t.rehashingSize - 1) /\ j % n = Hash(k, n)
  BY LooseSizes
<1>1. Made(s.heap, e, k, Unset, hp)
  BY <1>0, NewIsMade
<1>2. r = IF ~Rehashing(t)
          THEN [heap |-> b.heap, entry |-> b.entry, exist |-> b.exist,
                h |-> [t EXCEPT !.table = b.tbl, !.count = t.count + b.added]]
          ELSE IF a.exist
          THEN [heap |-> a.heap, entry |-> a.entry, exist |-> TRUE,
                h |-> [t EXCEPT !.rehashingTbl = a.tbl, !.count = t.count + a.added]]
          ELSE [heap |-> c.heap, entry |-> c.entry, exist |-> c.exist,
                h |-> [t EXCEPT !.rehashingTbl = a.tbl, !.table = c.tbl,
                                !.count = t.count + a.added + c.added]]
  BY DEF FindPositionForInsert
<1> HIDE DEF e, hp, r
<1>3. /\ HeapIn(hp, n) /\ e \in Belong(hp, n, Hash(k, n)) /\ hp[e].key = k
      /\ TableIn(hp, t.table, t.size, n) /\ TableIn(hp, t.rehashingTbl, t.rehashingSize, n)
  BY <1>0, <1>1, MadeKeeps, TableMade DEF Made
<1>4. CASE ~Rehashing(t)
  <2>1. Inserts(hp, t.table, t.size, n, k, b)
    <3> HIDE DEF i
    <3> QED BY <1>0, <1>3, InsertionKeeps
  <2>2. r.heap = b.heap /\ r.entry = b.entry /\ r.h = [t EXCEPT !.table = b.tbl, !.count = t.count + b.added]
    BY <1>2, <1>4
  <2> HIDE DEF b
  <2>3. /\ HeapIn(b.heap, n) /\ TableIn(b.heap, b.tbl, t.size, n) /\ b.tbl \in Tables /\ b.added \in Nat
        /\ SameKeys(hp, b.heap) /\ b.entry \in Entries(hp) /\ hp[b.entry].key = k
    BY <2>1 DEF Inserts
  <2>4. Changed(t, b.tbl, t.rehashingTbl, t.count + b.added, r.h)
    <3> DEFINE u == b.tbl
               c0 == t.count + b.added
    <3>1. t \in TableType /\ u \in Tables /\ c0 \in Nat /\ r.h = WithOld(t, u, c0)
      BY <1>0, <2>2, <2>3 DEF WithOld
    <3> HIDE DEF t, u, c0
    <3>2. Changed(t, u, t.rehashingTbl, c0, WithOld(t, u, c0))
      BY <3>1, OldChanged
    <3>3. Changed(t, u, t.rehashingTbl, c0, r.h)
      BY <3>1, <3>2
    <3> QED BY <3>3 DEF u, c0
  <2>5. TableIn(b.heap, t.rehashingTbl, t.rehashingSize, n)
    BY <1>3, <2>3, TableKept
  <2>6. Loose(b.heap, r.h, n) /\ Between(r.h) /\ (Rehashing(r.h) <=> Rehashing(t))
    BY <2>3, <2>4, <2>5, LooseChanged
  <2> QED BY <2>2, <2>3, <2>6 DEF Kept, SameKeys, r
<1>5. CASE Rehashing(t) /\ a.exist
  <2>1. Inserts(hp, t.rehashingTbl, t.rehashingSize, n, k, a)
    <3> HIDE DEF j
    <3> QED BY <1>0, <1>3, <1>5, InsertionKeeps
  <2>2. r.heap = a.heap /\ r.entry = a.entry /\ r.h = [t EXCEPT !.rehashingTbl = a.tbl, !.count = t.count + a.added]
    BY <1>2, <1>5
  <2> HIDE DEF a
  <2>3. /\ HeapIn(a.heap, n) /\ TableIn(a.heap, a.tbl, t.rehashingSize, n) /\ a.tbl \in Tables /\ a.added \in Nat
        /\ SameKeys(hp, a.heap) /\ a.entry \in Entries(hp) /\ hp[a.entry].key = k
    BY <2>1 DEF Inserts
  <2>4. Changed(t, t.table, a.tbl, t.count + a.added, r.h)
    <3> DEFINE w == a.tbl
               c0 == t.count + a.added
    <3>1. t \in TableType /\ w \in Tables /\ c0 \in Nat /\ r.h = WithNew(t, w, c0)
      BY <1>0, <2>2, <2>3 DEF WithNew
    <3> HIDE DEF t, w, c0
    <3>2. Changed(t, t.table, w, c0, WithNew(t, w, c0))
      BY <3>1, NewChanged
    <3>3. Changed(t, t.table, w, c0, r.h)
      BY <3>1, <3>2
    <3> QED BY <3>3 DEF w, c0
  <2>5. TableIn(a.heap, t.table, t.size, n)
    BY <1>3, <2>3, TableKept
  <2>6. Loose(a.heap, r.h, n) /\ Between(r.h) /\ (Rehashing(r.h) <=> Rehashing(t))
    BY <2>3, <2>4, <2>5, LooseChanged
  <2> QED BY <2>2, <2>3, <2>6 DEF Kept, SameKeys, r
<1>6. CASE Rehashing(t) /\ ~a.exist
  <2>1. Inserts(hp, t.rehashingTbl, t.rehashingSize, n, k, a)
    <3> HIDE DEF j
    <3> QED BY <1>0, <1>3, <1>6, InsertionKeeps
  <2>2. /\ r.heap = c.heap /\ r.entry = c.entry
        /\ r.h = [t EXCEPT !.rehashingTbl = a.tbl, !.table = c.tbl, !.count = t.count + a.added + c.added]
    BY <1>2, <1>6
  <2> HIDE DEF a
  <2>3. /\ HeapIn(a.heap, n) /\ TableIn(a.heap, a.tbl, t.rehashingSize, n) /\ a.tbl \in Tables /\ a.added \in Nat
        /\ SameKeys(hp, a.heap)
    BY <2>1 DEF Inserts
  <2>4. TableIn(a.heap, t.table, t.size, n) /\ e \in Belong(a.heap, n, Hash(k, n)) /\ a.heap[e].key = k
    BY <1>3, <2>3, TableKept, SameClasses DEF SameKeys, Belong
  <2>5. Inserts(a.heap, t.table, t.size, n, k, c)
    <3> HIDE DEF i
    <3> QED BY <1>0, <2>3, <2>4, InsertionKeeps
  <2> HIDE DEF c
  <2>6. /\ HeapIn(c.heap, n) /\ TableIn(c.heap, c.tbl, t.size, n) /\ c.tbl \in Tables /\ c.added \in Nat
        /\ SameKeys(a.heap, c.heap) /\ c.entry \in Entries(a.heap) /\ a.heap[c.entry].key = k
    BY <2>5 DEF Inserts
  <2>7. Changed(t, c.tbl, a.tbl, t.count + a.added + c.added, r.h)
    <3> DEFINE u == c.tbl
               w == a.tbl
               c0 == t.count + a.added + c.added
    <3>1. /\ t \in TableType /\ u \in Tables /\ w \in Tables /\ c0 \in Nat
          /\ r.h = WithBoth(t, u, w, c0)
      BY <1>0, <2>2, <2>3, <2>6 DEF WithBoth
    <3> HIDE DEF t, u, w, c0
    <3>2. Changed(t, u, w, c0, WithBoth(t, u, w, c0))
      BY <3>1, BothChanged
    <3>3. Changed(t, u, w, c0, r.h)
      BY <3>1, <3>2
    <3> QED BY <3>3 DEF u, w, c0
  <2>8. TableIn(c.heap, a.tbl, t.rehashingSize, n)
    BY <2>3, <2>6, TableKept
  <2>9. Loose(c.heap, r.h, n) /\ Between(r.h) /\ (Rehashing(r.h) <=> Rehashing(t))
    BY <2>6, <2>7, <2>8, LooseChanged
  <2> QED BY <2>2, <2>6, <2>9 DEF Kept, SameKeys, r
<1> QED BY <1>4, <1>5, <1>6

LEMMA ValueKeeps ==
  ASSUME NEW n \in Nat \ {0}, NEW hp, NEW t, Loose(hp, t, n), NEW e \in Entries(hp), NEW v \in Values \cup {Unset}
  PROVE  Loose(SetVal(hp, e, v), t, n) /\ ValueSet(hp, e, v, SetVal(hp, e, v))
<1> DEFINE gp == SetVal(hp, e, v)
<1>1. hp \in HeapType /\ HeapIn(hp, n) /\ t \in TableType
  BY DEF Loose, HeapIn
<1>2. gp = [hp EXCEPT ![e].val = v]
  BY DEF SetVal
<1> HIDE DEF gp
<1>3. ValueSet(hp, e, v, gp)
  BY <1>1, <1>2, ValueIsSet
<1>4. SameKeys(hp, gp) /\ \A p \in Entries(hp) : gp[p].next = hp[p].next
  BY <1>3 DEF ValueSet
<1>5. HeapIn(gp, n)
  <2>1. \A d : Belong(gp, n, d) = Belong(hp, n, d)
    BY <1>4, SameClasses
  <2> QED BY <1>1, <1>4, <2>1 DEF HeapIn, SameKeys
<1>6. TableIn(gp, t.table, t.size, n) /\ TableIn(gp, t.rehashingTbl, t.rehashingSize, n)
  BY <1>4, TableKept DEF Loose
<1>7. Loose(gp, t, n)
  BY <1>5, <1>6 DEF Loose
<1> QED BY <1>3, <1>7 DEF gp

LEMMA StoredKeeps ==
  ASSUME NEW n \in Nat \ {0}, NEW s, Loose(s.heap, s.h, n), Between(s.h), ~Full(s.heap), NEW k \in Keys, NEW v \in Values
  PROVE  Kept(s, n, k, Stored(s, k, v))
<1> DEFINE t  == s.h
           x  == IF Rehashing(t) THEN t.rehashingSize ELSE t.size
           i  == Index(t, k)
           f  == Find(s.heap, Current(t)[i], k)
           e  == NewAddress(s.heap)
           hp == [s.heap EXCEPT ![e] = NewEntry(k, v)]
           l  == Linked(hp, Current(t), i, e)
           r  == Stored(s, k, v)
<1>0. /\ t.size \in Nat \ {0} /\ t.count \in Nat /\ t.table \in Tables /\ t.rehashingTbl \in Tables
      /\ t.rehashingSize \in Nat /\ HeapIn(s.heap, n) /\ s.heap \in HeapType /\ t \in TableType
      /\ TableIn(s.heap, t.table, t.size, n) /\ TableIn(s.heap, t.rehashingTbl, t.rehashingSize, n)
      /\ x \in Nat \ {0} /\ i \in 0..(x - 1) /\ i % n = Hash(k, n)
      /\ TableIn(s.heap, Current(t), x, n)
  BY LooseSizes DEF Index, Current
<1>1. r = IF f # Nil THEN [heap |-> SetVal(s.heap, f, v), h |-> t]
          ELSE IF Rehashing(t) THEN [heap |-> l.heap, h |-> WithNew(t, l.tbl, t.count + 1)]
          ELSE [heap |-> l.heap, h |-> WithOld(t, l.tbl, t.count + 1)]
  BY DEF Stored, SetVal, WithNew, WithOld
<1>2. CASE f # Nil
  <2>1. f \in Entries(s.heap)
    <3> DEFINE R == Belong(s.heap, n, i % n)
               p == Current(t)[i]
    <3>1. R \subseteq Entries(s.heap) /\ p \in R \cup {Nil}
      BY <1>0 DEF TableIn, Belong
    <3>2. Within(s.heap, R)
      BY <1>0 DEF HeapIn, Belong, Within
    <3> HIDE DEF R, p
    <3>3. FoundIn(s.heap, p, R, k, Find(s.heap, p, k))
      BY <3>1, <3>2, FindIn
    <3> QED BY <1>2, <3>1, <3>3 DEF FoundIn, p
  <2>2. r.heap = SetVal(s.heap, f, v) /\ r.h = t
    BY <1>1, <1>2
  <2> HIDE DEF f, r
  <2>3. Loose(r.heap, t, n)
    BY <2>1, <2>2, ValueKeeps
  <2> QED BY <2>2, <2>3 DEF Kept, r
<1>3. CASE f = Nil
  <2>1. Made(s.heap, e, k, v, hp)
    BY <1>0, NewIsMade
  <2> HIDE DEF e, hp, r, f, x, i
  <2>2. HeapIn(hp, n) /\ e \in Belong(hp, n, i % n) /\ TableIn(hp, Current(t), x, n)
    BY <1>0, <2>1, MadeKeeps, TableMade
  <2>3. /\ SameKeys(hp, l.heap) /\ HeapIn(l.heap, n) /\ TableIn(l.heap, l.tbl, x, n) /\ l.tbl \in Tables
    <3> DEFINE tbl == Current(t)
    <3>1. TableIn(hp, tbl, x, n) /\ l = Linked(hp, tbl, i, e)
      BY <2>2
    <3> HIDE DEF tbl, l
    <3> QED BY <1>0, <2>2, <3>1, LinkedKeeps
  <2>4. /\ TableIn(l.heap, t.table, t.size, n) /\ TableIn(l.heap, t.rehashingTbl, t.rehashingSize, n)
    <3>1. TableIn(hp, t.table, t.size, n) /\ TableIn(hp, t.rehashingTbl, t.rehashingSize, n)
      BY <1>0, <2>1, TableMade
    <3> HIDE DEF l
    <3> QED BY <2>3, <3>1, TableKept
  <2> DEFINE c0 == t.count + 1
             w  == l.tbl
             gp == l.heap
  <2>5. c0 \in Nat /\ w \in Tables
    BY <1>0, <2>3
  <2>6. r = IF Rehashing(t) THEN [heap |-> gp, h |-> WithNew(t, w, c0)] ELSE [heap |-> gp, h |-> WithOld(t, w, c0)]
    BY <1>1, <1>3
  <2>7. HeapIn(gp, n) /\ TableIn(gp, w, x, n) /\ TableIn(gp, t.table, t.size, n) /\ TableIn(gp, t.rehashingTbl, t.rehashingSize, n)
    BY <2>3, <2>4
  <2>8. Loose(s.heap, t, n) /\ Between(t) /\ t \in TableType
    BY <1>0
  <2> HIDE DEF t, c0, w, gp, l
  <2>9. CASE Rehashing(t)
    <3>1. r.heap = gp /\ r.h = WithNew(t, w, c0) /\ x = t.rehashingSize
      BY <2>6, <2>9 DEF x
    <3>2. Changed(t, t.table, w, c0, r.h)
      BY <2>5, <2>8, <3>1, NewChanged
    <3>3. Loose(gp, r.h, n) /\ Between(r.h) /\ (Rehashing(r.h) <=> Rehashing(t))
      BY <2>7, <2>8, <3>1, <3>2, LooseChanged
    <3> QED BY <3>1, <3>3 DEF Kept, r, t
  <2>10. CASE ~Rehashing(t)
    <3>1. r.heap = gp /\ r.h = WithOld(t, w, c0) /\ x = t.size
      BY <2>6, <2>10 DEF x
    <3>2. Changed(t, w, t.rehashingTbl, c0, r.h)
      BY <2>5, <2>8, <3>1, OldChanged
    <3>3. Loose(gp, r.h, n) /\ Between(r.h) /\ (Rehashing(r.h) <=> Rehashing(t))
      BY <2>7, <2>8, <3>1, <3>2, LooseChanged
    <3> QED BY <3>1, <3>3 DEF Kept, r, t
  <2> QED BY <2>9, <2>10
<1> QED BY <1>2, <1>3

LEMMA ResizedKeeps ==
  ASSUME NEW n \in Nat \ {0}, NEW hp, NEW t, Loose(hp, t, n), Between(t)
  PROVE  /\ Loose(hp, Resized(t), n) /\ Between(Resized(t))
         /\ Resized(t).table = t.table /\ Resized(t).size = t.size /\ Resized(t).count = t.count
         /\ Resized(t) = t \/ (~Rehashing(t) /\ Rehashing(Resized(t)) /\ Resized(t).rehashingTbl = NewTable(2 * t.size)
                                 /\ Resized(t).rehashingSize = 2 * t.size)
<1> DEFINE g == Resized(t)
<1>0. t \in TableType /\ t.size \in Nat \ {0} /\ HeapIn(hp, n)
  BY DEF Loose, TableType
<1>1. CASE ~Overloaded(t) \/ Rehashing(t)
  <2>1. g = t
    BY <1>1 DEF Resized, StartRehashing
  <2> QED BY <2>1
<1>2. CASE Overloaded(t) /\ ~Rehashing(t)
  <2> DEFINE u == NewTable(2 * t.size)
             y == 2 * t.size
  <2>1. g = [t EXCEPT !.rehashingSize = y, !.rehashingTbl = u, !.rehashingIdx = 0]
    BY <1>2 DEF Resized, StartRehashing
  <2>2. y \in Nat \ {0} /\ y = 2 * t.size
    BY <1>0
  <2>3. u \in [0..(y - 1) -> Pointers] /\ \A i \in 0..(y - 1) : u[i] = Nil
    BY PointersAre DEF NewTable
  <2>4. u \in Tables /\ TableIn(hp, u, y, n)
    BY <2>2, <2>3 DEF TableIn, Tables
  <2> HIDE DEF g, u, y
  <2>5. /\ g \in TableType /\ g.table = t.table /\ g.size = t.size /\ g.count = t.count
        /\ g.rehashingSize = y /\ g.rehashingTbl = u /\ g.rehashingIdx = 0
    BY <1>0, <2>1, <2>2, <2>4 DEF TableType
  <2>6. Rehashing(g) /\ Books(g) /\ Between(g)
    BY <1>0, <2>2, <2>5 DEF Rehashing, Books, Between
  <2>7. Loose(hp, g, n)
    BY <2>4, <2>5, <2>6 DEF Loose
  <2> QED BY <1>2, <2>2, <2>5, <2>6, <2>7 DEF g, u
<1> QED BY <1>1, <1>2

-----------------------------------------------------------------------------
(***************************************************************************)
(* The garbage collector.                                                  *)
(***************************************************************************)
Live(hp, t) == Reached(hp, Heads(t))

LEMMA LooseHeads ==
  ASSUME NEW n, NEW hp, NEW t, Loose(hp, t, n)
  PROVE  /\ Within(hp, Entries(hp)) /\ Heads(t) \subseteq Entries(hp) \cup {Nil}
         /\ \A i \in 0..(t.size - 1) : t.table[i] \in Heads(t)
         /\ \A i \in 0..(t.rehashingSize - 1) : t.rehashingTbl[i] \in Heads(t)
<1>1. HeapIn(hp, n) /\ TableIn(hp, t.table, t.size, n) /\ TableIn(hp, t.rehashingTbl, t.rehashingSize, n)
  BY DEF Loose
<1>2. Within(hp, Entries(hp))
  BY <1>1 DEF HeapIn, Belong, Within
<1>3. DOMAIN t.table = 0..(t.size - 1) /\ \A i \in 0..(t.size - 1) : t.table[i] \in Entries(hp) \cup {Nil}
  BY <1>1 DEF TableIn, Belong
<1>4. /\ DOMAIN t.rehashingTbl = 0..(t.rehashingSize - 1)
      /\ \A i \in 0..(t.rehashingSize - 1) : t.rehashingTbl[i] \in Entries(hp) \cup {Nil}
  BY <1>1 DEF TableIn, Belong
<1> QED BY <1>2, <1>3, <1>4 DEF Heads, Range

LEMMA LiveIs ==
  ASSUME NEW hp, Within(hp, Entries(hp)), NEW t, Heads(t) \subseteq Entries(hp) \cup {Nil}
  PROVE  Within(hp, Live(hp, t)) /\ Heads(t) \subseteq Live(hp, t) \cup {Nil}
<1> DEFINE L == Live(hp, t)
           E == Entries(hp)
<1>0. hp \in HeapType
  BY DEF Within
<1>1. \A p \in Heads(t) : ChainIn(hp, p, E, Chain(hp, p))
  <2> TAKE p \in Heads(t)
  <2> DEFINE c == Chain(hp, p)
  <2>1. p \in Pointers /\ p \in E \cup {Nil} /\ \A q \in E : hp[q].next \in E \cup {Nil}
    BY <1>0, PointersAre, LinksType DEF Within
  <2>2. E \subseteq Entries(hp) /\ c = Chain(hp, p)
    OBVIOUS
  <2> HIDE DEF E, c
  <2>3. ChainIn(hp, p, E, c)
    BY <1>0, <2>1, <2>2, ChainSteps
  <2> QED BY <2>3 DEF c
<1>2. \A p \in Heads(t) : /\ \A i \in 1..Len(Chain(hp, p)) : Chain(hp, p)[i] \in E /\ hp[Chain(hp, p)[i]].next \in Range(Chain(hp, p)) \cup {Nil}
                          /\ DOMAIN Chain(hp, p) = 1..Len(Chain(hp, p))
                          /\ p # Nil => p \in Range(Chain(hp, p))
  <2> TAKE p \in Heads(t)
  <2> DEFINE c == Chain(hp, p)
  <2>1. ChainIn(hp, p, E, c)
    BY <1>1
  <2> HIDE DEF c, E
  <2>2. /\ \A i \in 1..Len(c) : c[i] \in E /\ hp[c[i]].next \in Range(c) \cup {Nil}
        /\ DOMAIN c = 1..Len(c)
    BY <2>1 DEF ChainIn
  <2>3. p # Nil => p \in Range(c)
    <3> SUFFICES ASSUME p # Nil PROVE p \in Range(c)
      OBVIOUS
    <3>1. c[1] = p /\ 1 \in 1..Len(c) /\ DOMAIN c = 1..Len(c)
      BY <2>1 DEF ChainIn
    <3> QED BY <3>1 DEF Range
  <2> QED BY <2>2, <2>3 DEF c
<1>3. \A p \in Heads(t) : Range(Chain(hp, p)) \subseteq L
  BY DEF Live, Reached
<1>4. \A q \in L : \E p \in Heads(t) : q \in Range(Chain(hp, p))
  BY DEF Live, Reached
<1> HIDE DEF L, E
<1>5. \A q \in L : q \in E /\ hp[q].next \in L \cup {Nil}
  <2> TAKE q \in L
  <2>1. PICK p \in Heads(t) : q \in Range(Chain(hp, p))
    BY <1>4
  <2>2. PICK i \in 1..Len(Chain(hp, p)) : q = Chain(hp, p)[i]
    BY <1>2, <2>1 DEF Range
  <2> QED BY <1>2, <1>3, <2>2
<1>6. Heads(t) \subseteq L \cup {Nil}
  BY <1>2, <1>3
<1>7. Within(hp, L)
  BY <1>0, <1>5 DEF Within, E
<1> QED BY <1>6, <1>7 DEF L

\* What is left of a heap when all that t does not lead to is freed.
Swept(hp, t, gp) ==
  /\ gp \in HeapType /\ Entries(gp) = Live(hp, t) /\ \A p \in Live(hp, t) : gp[p] = hp[p]
  /\ Frame(hp, gp, Live(hp, t)) /\ Heads(t) \subseteq Live(hp, t) \cup {Nil}
  /\ Live(gp, t) = Entries(gp)

LEMMA SweptIs ==
  ASSUME NEW hp, Within(hp, Entries(hp)), NEW t, Heads(t) \subseteq Entries(hp) \cup {Nil}
  PROVE  Swept(hp, t, Collected(hp, t))
<1> DEFINE L == Live(hp, t)
           gp == Collected(hp, t)
<1>1. Within(hp, L) /\ Heads(t) \subseteq L \cup {Nil}
  BY LiveIs
<1>2. gp = [p \in Addresses |-> IF p \in L THEN hp[p] ELSE Free]
  BY DEF Collected, Live
<1> HIDE DEF L, gp
<1>3. /\ hp \in HeapType /\ L \subseteq Entries(hp) /\ L \subseteq Addresses
      /\ \A q \in L : hp[q].next \in L \cup {Nil} /\ hp[q] \in EntryType /\ hp[q] # Free
  BY <1>1, LinksType DEF Within, Entries
<1>4. gp \in HeapType
  BY <1>2, <1>3 DEF HeapType
<1>5. \A p \in L : gp[p] = hp[p]
  BY <1>2, <1>3
<1>6. Entries(gp) = L
  BY <1>2, <1>3 DEF Entries
<1>7. Frame(hp, gp, L)
  BY <1>3, <1>4, <1>5, <1>6 DEF Frame
<1>8. \A p \in Heads(t) : Chain(gp, p) = Chain(hp, p)
  BY <1>1, <1>7, ChainFrame
<1>9. Live(gp, t) = Live(hp, t)
  BY <1>8 DEF Live, Reached
<1> QED BY <1>1, <1>4, <1>5, <1>6, <1>7, <1>9 DEF Swept, L, gp

LEMMA CollectedKeeps ==
  ASSUME NEW n, NEW hp, NEW t, Loose(hp, t, n)
  PROVE  Loose(Collected(hp, t), t, n) /\ Swept(hp, t, Collected(hp, t))
<1> DEFINE gp == Collected(hp, t)
<1>1. /\ Heads(t) \subseteq Entries(hp) \cup {Nil} /\ Within(hp, Entries(hp))
      /\ \A i \in 0..(t.size - 1) : t.table[i] \in Heads(t)
      /\ \A i \in 0..(t.rehashingSize - 1) : t.rehashingTbl[i] \in Heads(t)
  BY LooseHeads
<1>2. Swept(hp, t, gp)
  BY <1>1, SweptIs
<1> HIDE DEF gp
<1>3. /\ gp \in HeapType /\ Entries(gp) \subseteq Entries(hp) /\ \A p \in Entries(gp) : gp[p] = hp[p]
      /\ \A p \in Entries(gp) : hp[p].next \in Entries(gp) \cup {Nil}
      /\ Heads(t) \subseteq Entries(gp) \cup {Nil}
  BY <1>2 DEF Swept, Frame
<1>4. \A d : Belong(gp, n, d) = Belong(hp, n, d) \cap Entries(gp)
  BY <1>3 DEF Belong
<1>5. HeapIn(gp, n)
  <2> SUFFICES ASSUME NEW p \in Entries(gp) PROVE gp[p].next \in Belong(gp, n, Hash(gp[p].key, n)) \cup {Nil}
    BY <1>3 DEF HeapIn
  <2>1. hp[p].next \in Belong(hp, n, Hash(hp[p].key, n)) \cup {Nil}
    BY <1>3 DEF Loose, HeapIn
  <2> QED BY <1>3, <1>4, <2>1
<1>6. \A m, tbl : TableIn(hp, tbl, m, n) /\ (\A i \in 0..(m - 1) : tbl[i] \in Heads(t)) => TableIn(gp, tbl, m, n)
  BY <1>3, <1>4 DEF TableIn
<1>7. Loose(gp, t, n)
  BY <1>1, <1>5, <1>6 DEF Loose
<1> QED BY <1>2, <1>7 DEF gp

-----------------------------------------------------------------------------
(***************************************************************************)
(* The invariant of both ways of use.                                      *)
(***************************************************************************)
LooseInv ==
  /\ Loose(heap, h, InitSize) /\ Between(h) /\ Live(heap, h) = Entries(heap)
  /\ hung \in BOOLEAN /\ role \in {"expire", "keyspace"}

LEMMA DeletedKeeps ==
  ASSUME NEW n \in Nat \ {0}, Loose(heap, h, n), Between(h), NEW k \in Keys
  PROVE  Loose(Deleted(k).heap, Deleted(k).h, n) /\ Between(Deleted(k).h)
<1> DEFINE i == Hash(k, h.size)
           j == Hash(k, h.rehashingSize)
           a == FromOld(k)
           b == FromNew(k)
           r == Deleted(k)
<1>0. /\ h.count \in Nat /\ h.table \in Tables /\ h.rehashingTbl \in Tables
      /\ h.size \in Nat /\ h.rehashingSize \in Nat /\ HeapIn(heap, n) /\ h \in TableType
      /\ TableIn(heap, h.table, h.size, n) /\ TableIn(heap, h.rehashingTbl, h.rehashingSize, n)
      /\ i \in 0..(h.size - 1)
      /\ Rehashing(h) => j \in 0..(h.rehashingSize - 1)
  BY LooseSizes
<1>1. a = DeleteFromTable(heap, h.table, i, k) /\ b = DeleteFromTable(a.heap, h.rehashingTbl, j, k)
  BY DEF FromOld, FromNew
<1>2. /\ Rehashing(h) => r.heap = b.heap /\ r.h = [h EXCEPT !.table = a.tbl, !.rehashingTbl = b.tbl]
      /\ ~Rehashing(h) => r.heap = a.heap /\ r.h = [h EXCEPT !.table = a.tbl]
  BY DEF Deleted
<1> HIDE DEF i, j, a, b, r
<1>3. SameKeys(heap, a.heap) /\ HeapIn(a.heap, n) /\ TableIn(a.heap, a.tbl, h.size, n) /\ a.tbl \in Tables
  BY <1>0, <1>1, DeleteKeeps
<1>4. TableIn(a.heap, h.rehashingTbl, h.rehashingSize, n)
  BY <1>0, <1>3, TableKept
<1> DEFINE u == a.tbl
           w == b.tbl
           g == r.h
<1>5. CASE ~Rehashing(h)
  <2>1. g = [h EXCEPT !.table = u] /\ u \in Tables
    BY <1>2, <1>3, <1>5
  <2> HIDE DEF u, g
  <2>2. Changed(h, u, h.rehashingTbl, h.count, g)
    BY <1>0, <2>1 DEF Changed, TableType
  <2>3. Loose(a.heap, g, n) /\ Between(g)
    <3>1. TableIn(a.heap, u, h.size, n)
      BY <1>3 DEF u
    <3> QED BY <1>3, <1>4, <2>2, <3>1, LooseChanged
  <2> QED BY <1>2, <1>5, <2>3 DEF g, r
<1>6. CASE Rehashing(h)
  <2>1. SameKeys(a.heap, b.heap) /\ HeapIn(b.heap, n) /\ TableIn(b.heap, w, h.rehashingSize, n) /\ w \in Tables
    BY <1>0, <1>1, <1>3, <1>4, <1>6, DeleteKeeps
  <2>2. TableIn(b.heap, u, h.size, n)
    BY <1>3, <2>1, TableKept
  <2>3. g = [h EXCEPT !.table = u, !.rehashingTbl = w] /\ u \in Tables /\ w \in Tables
    BY <1>2, <1>3, <1>6, <2>1
  <2> HIDE DEF u, g, w
  <2>4. Changed(h, u, w, h.count, g)
    BY <1>0, <2>3 DEF Changed, TableType
  <2>5. Loose(b.heap, g, n) /\ Between(g)
    BY <2>1, <2>2, <2>4, LooseChanged
  <2> QED BY <1>2, <1>6, <2>5 DEF g, r
<1> QED BY <1>5, <1>6

LEMMA LooseReturn ==
  ASSUME NEW s, Loose(s.heap, s.h, InitSize), Between(s.h), LooseInv, Return(s), UNCHANGED role
  PROVE  LooseInv'
<1>1. heap' = Collected(s.heap, s.h) /\ h' = s.h /\ hung' = hung
  BY DEF Return
<1>2. Loose(heap', h', InitSize) /\ Swept(s.heap, s.h, heap')
  BY <1>1, CollectedKeeps
<1>3. Live(heap', h') = Entries(heap')
  BY <1>1, <1>2 DEF Swept
<1> QED BY <1>1, <1>2, <1>3 DEF LooseInv, Live

LEMMA LooseHang ==
  ASSUME LooseInv, Hang, UNCHANGED role
  PROVE  LooseInv'
BY DEF LooseInv, Hang, Live

LEMMA LooseInit == Init => LooseInv
<1> SUFFICES ASSUME Init PROVE LooseInv
  OBVIOUS
<1>0. InitSize \in Nat \ {0}
  BY SizeAssumption
<1>1. /\ heap = [p \in Addresses |-> Free] /\ hung = FALSE /\ role \in {"expire", "keyspace"}
      /\ h = [table |-> NewTable(InitSize), size |-> InitSize, rehashingIdx |-> -1,
              rehashingSize |-> 0, rehashingTbl |-> <<>>, count |-> 0]
  BY DEF Init
<1>2. Entries(heap) = {} /\ heap \in HeapType
  BY <1>1 DEF Entries, HeapType
<1>3. HeapIn(heap, InitSize)
  BY <1>2 DEF HeapIn
<1>4. NewTable(InitSize) \in [0..(InitSize - 1) -> Pointers] /\ \A i \in 0..(InitSize - 1) : NewTable(InitSize)[i] = Nil
  BY PointersAre DEF NewTable
<1>5. TableIn(heap, NewTable(InitSize), InitSize, InitSize) /\ NewTable(InitSize) \in Tables
  BY <1>0, <1>4 DEF TableIn, Tables
<1>6. <<>> \in [0..(0 - 1) -> Pointers] /\ 0..(0 - 1) = {}
  OBVIOUS
<1>7. TableIn(heap, <<>>, 0, InitSize) /\ <<>> \in Tables
  BY <1>6 DEF TableIn, Tables
<1>8. /\ h.table = NewTable(InitSize) /\ h.size = InitSize /\ h.rehashingIdx = -1 /\ h.rehashingSize = 0
      /\ h.rehashingTbl = <<>> /\ h.count = 0
  BY <1>1
<1>9. h \in TableType
  BY <1>0, <1>1, <1>5, <1>7 DEF TableType
<1>10. ~Rehashing(h) /\ Books(h) /\ Between(h)
  BY <1>8 DEF Rehashing, Books, Between
<1>11. Divides(InitSize, InitSize)
  BY <1>0 DEF Divides
<1>12. Loose(heap, h, InitSize)
  BY <1>3, <1>5, <1>7, <1>8, <1>9, <1>10, <1>11 DEF Loose
<1>13. Live(heap, h) = Entries(heap)
  <2>1. /\ Heads(h) \subseteq Entries(heap) \cup {Nil} /\ Within(heap, Entries(heap))
    BY <1>12, LooseHeads
  <2>2. Live(heap, h) \subseteq Entries(heap)
    BY <2>1, LiveIs DEF Within
  <2> QED BY <1>2, <2>2
<1> QED BY <1>1, <1>10, <1>12, <1>13 DEF LooseInv

\* The state after the leading rehashStep of an insertion.
LEMMA LooseStepped ==
  ASSUME NEW n \in Nat \ {0}, NEW hp, NEW t, Loose(hp, t, n), Between(t), NEW s, s = Stepped(hp, t)
  PROVE  Loose(s.heap, s.h, n) /\ Between(s.h) /\ (~Full(hp) => ~Full(s.heap))
<1>1. SameKeys(hp, s.heap) /\ Loose(s.heap, s.h, n) /\ Between(s.h)
  BY SteppedKeeps
<1>2. Entries(s.heap) = Entries(hp)
  BY <1>1 DEF SameKeys
<1>3. ~Full(hp) => ~Full(s.heap)
  BY <1>2 DEF Full, Entries
<1> QED BY <1>1, <1>3

LEMMA LooseSet ==
  ASSUME LooseInv, NEW k \in Keys, NEW v \in Values, Set(k, v), UNCHANGED role
  PROVE  LooseInv'
<1> DEFINE s == Stepped(heap, h)
           a == Stored(s, k, v)
           r == [heap |-> a.heap, h |-> Resized(a.h)]
<1>1. ~Full(heap) /\ IF s.hangs \/ SetHangs(s, k) THEN Hang ELSE Return(r)
  BY DEF Set, Room, Full
<1>2. Loose(heap, h, InitSize) /\ Between(h) /\ InitSize \in Nat \ {0}
  BY SizeAssumption DEF LooseInv
<1>3. Loose(s.heap, s.h, InitSize) /\ Between(s.h) /\ ~Full(s.heap)
  <2> HIDE DEF s
  <2>1. s = Stepped(heap, h)
    BY DEF s
  <2> QED BY <1>1, <1>2, <2>1, LooseStepped
<1> HIDE DEF s
<1>4. Kept(s, InitSize, k, a)
  BY <1>2, <1>3, StoredKeeps
<1> HIDE DEF a
<1>5. Loose(r.heap, r.h, InitSize) /\ Between(r.h)
  <2>1. Loose(a.heap, a.h, InitSize) /\ Between(a.h)
    BY <1>4 DEF Kept
  <2>2. Loose(a.heap, Resized(a.h), InitSize) /\ Between(Resized(a.h))
    BY <1>2, <2>1, ResizedKeeps
  <2> QED BY <2>2
<1> HIDE DEF r
<1>6. CASE Hang
  BY <1>6, LooseHang
<1>7. CASE Return(r)
  BY <1>5, <1>7, LooseReturn
<1> QED BY <1>1, <1>6, <1>7

LEMMA LooseAdd ==
  ASSUME LooseInv, NEW k \in Keys, NEW v \in Values, Add(k, v), UNCHANGED role
  PROVE  LooseInv'
<1> DEFINE s == Stepped(heap, h)
           a == FindPositionForInsert(s, k)
           r == [heap |-> SetVal(a.heap, a.entry, v), h |-> Resized(a.h)]
<1>1. ~Full(heap) /\ IF s.hangs \/ AddRawHangs(s, k) THEN Hang ELSE Return(r)
  BY DEF Add, Room, Full
<1>2. Loose(heap, h, InitSize) /\ Between(h) /\ InitSize \in Nat \ {0}
  BY SizeAssumption DEF LooseInv
<1>3. Loose(s.heap, s.h, InitSize) /\ Between(s.h) /\ ~Full(s.heap)
  <2> HIDE DEF s
  <2>1. s = Stepped(heap, h)
    BY DEF s
  <2> QED BY <1>1, <1>2, <2>1, LooseStepped
<1> HIDE DEF s
<1>4. Kept(s, InitSize, k, a) /\ a.entry \in Entries(a.heap)
  BY <1>2, <1>3, FindPositionForInsertKeeps
<1> HIDE DEF a
<1>5. Loose(r.heap, r.h, InitSize) /\ Between(r.h)
  <2> DEFINE gp == SetVal(a.heap, a.entry, v)
  <2>1. Loose(a.heap, a.h, InitSize) /\ Between(a.h)
    BY <1>4 DEF Kept
  <2>2. Loose(gp, a.h, InitSize)
    <3>1. v \in Values \cup {Unset}
      OBVIOUS
    <3> QED BY <1>2, <1>4, <2>1, <3>1, ValueKeeps
  <2> HIDE DEF gp
  <2>3. Loose(gp, Resized(a.h), InitSize) /\ Between(Resized(a.h))
    BY <1>2, <2>1, <2>2, ResizedKeeps
  <2> QED BY <2>3 DEF gp
<1> HIDE DEF r
<1>6. CASE Hang
  BY <1>6, LooseHang
<1>7. CASE Return(r)
  BY <1>5, <1>7, LooseReturn
<1> QED BY <1>1, <1>6, <1>7

LEMMA LooseDelete ==
  ASSUME LooseInv, NEW k \in Keys, Delete(k), UNCHANGED role
  PROVE  LooseInv'
<1>1. Loose(heap, h, InitSize) /\ Between(h) /\ InitSize \in Nat \ {0}
  BY SizeAssumption DEF LooseInv
<1>2. Loose(Deleted(k).heap, Deleted(k).h, InitSize) /\ Between(Deleted(k).h)
  BY <1>1, DeletedKeeps
<1>3. CASE Hang
  BY <1>3, LooseHang
<1>4. CASE Return(Deleted(k))
  BY <1>2, <1>4, LooseReturn
<1> QED BY <1>3, <1>4 DEF Delete

\* What a lookup in both arrays finds is an entry of its key.
LEMMA GetEntryIs ==
  ASSUME NEW n \in Nat \ {0}, NEW hp, NEW t, Loose(hp, t, n), NEW k \in Keys
  PROVE  GetEntry(hp, t, k) = Nil \/ GetEntry(hp, t, k) \in Belong(hp, n, Hash(k, n))
<1> DEFINE R == Belong(hp, n, Hash(k, n))
<1>1. /\ HeapIn(hp, n) /\ TableIn(hp, t.table, t.size, n) /\ TableIn(hp, t.rehashingTbl, t.rehashingSize, n)
      /\ Hash(k, t.size) \in 0..(t.size - 1) /\ Hash(k, t.size) % n = Hash(k, n)
      /\ Rehashing(t) => Hash(k, t.rehashingSize) \in 0..(t.rehashingSize - 1) /\ Hash(k, t.rehashingSize) % n = Hash(k, n)
  BY LooseSizes
<1>2. Bucket(t, k) \in R \cup {Nil} /\ (Rehashing(t) => NewBucket(t, k) \in R \cup {Nil})
  BY <1>1 DEF TableIn, Bucket, NewBucket
<1>3. Within(hp, R)
  BY <1>1 DEF HeapIn, Belong, Within
<1> HIDE DEF R
<1>4. FoundIn(hp, Bucket(t, k), R, k, Find(hp, Bucket(t, k), k))
  BY <1>2, <1>3, FindIn
<1>5. Rehashing(t) => FoundIn(hp, NewBucket(t, k), R, k, Find(hp, NewBucket(t, k), k))
  BY <1>2, <1>3, FindIn
<1> QED BY <1>4, <1>5 DEF GetEntry, FoundIn, R

LEMMA LooseOverwrite ==
  ASSUME LooseInv, NEW k \in Keys, NEW v \in Values, Overwrite(k, v), UNCHANGED role
  PROVE  LooseInv'
<1> DEFINE e == GetEntry(heap, h, k)
<1>1. Loose(heap, h, InitSize) /\ Between(h) /\ InitSize \in Nat \ {0} /\ v \in Values \cup {Unset}
  BY SizeAssumption DEF LooseInv
<1>2. e # Nil /\ heap' = SetVal(heap, e, v) /\ h' = h /\ hung' = hung
  BY DEF Overwrite
<1>3. e \in Entries(heap)
  BY <1>1, <1>2, GetEntryIs DEF Belong
<1> HIDE DEF e
<1>4. Loose(heap', h', InitSize) /\ ValueSet(heap, e, v, heap')
  BY <1>1, <1>2, <1>3, ValueKeeps
<1>5. Frame(heap, heap', Entries(heap)) /\ Heads(h) \subseteq Entries(heap) \cup {Nil}
  BY <1>1, <1>4, LooseHeads DEF ValueSet, SameKeys, Frame, Within
<1>6. \A p \in Heads(h) : Chain(heap', p) = Chain(heap, p)
  BY <1>5, ChainFrame
<1>7. Live(heap', h') = Entries(heap')
  <2>1. Live(heap', h') = Live(heap, h)
    BY <1>2, <1>6 DEF Live, Reached
  <2> QED BY <1>4, <2>1 DEF LooseInv, ValueSet, SameKeys
<1> QED BY <1>1, <1>2, <1>4, <1>7 DEF LooseInv

LEMMA LooseNext == LooseInv /\ [Next]_vars => LooseInv'
<1> SUFFICES ASSUME LooseInv, [Next]_vars PROVE LooseInv'
  OBVIOUS
<1>1. CASE UNCHANGED vars
  BY <1>1 DEF LooseInv, vars, Live
<1>2. ASSUME NEW k \in Keys, Delete(k), UNCHANGED role PROVE LooseInv'
  BY <1>2, LooseDelete
<1>3. ASSUME NEW k \in Keys, NEW v \in Values, Set(k, v), UNCHANGED role PROVE LooseInv'
  BY <1>3, LooseSet
<1>4. ASSUME NEW k \in Keys, LookupHangs(k), UNCHANGED role PROVE LooseInv'
  BY <1>4, LooseHang DEF LookupHangs
<1>5. ASSUME NEW k \in Keys, NEW v \in Values, Add(k, v), UNCHANGED role PROVE LooseInv'
  BY <1>5, LooseAdd
<1>6. ASSUME NEW k \in Keys, NEW v \in Values, Overwrite(k, v), UNCHANGED role PROVE LooseInv'
  BY <1>6, LooseOverwrite
<1> QED BY <1>1, <1>2, <1>3, <1>4, <1>5, <1>6 DEF Next

LEMMA LooseAlways == Spec => []LooseInv
BY LooseInit, LooseNext, PTL DEF Spec

\* Where a bucket is, and what hangs in it.
BucketAt(b, m, tbl, i) == i \in DOMAIN tbl /\ tbl[i] # Nil /\ b = <<m, i, tbl[i]>>

LEMMA BucketsAre ==
  ASSUME NEW b
  PROVE  b \in Buckets <=> (\E i : BucketAt(b, h.size, h.table, i)) \/ (\E i : BucketAt(b, h.rehashingSize, h.rehashingTbl, i))
BY DEF Buckets, BucketAt

LEMMA InChain ==
  ASSUME NEW b
  PROVE  In(b) = Range(Chain(heap, b[3]))
BY DEF In, Reached

LEMMA BucketInClass ==
  ASSUME NEW n \in Nat \ {0}, NEW m, NEW tbl, HeapIn(heap, n), TableIn(heap, tbl, m, n),
         NEW b, NEW i, BucketAt(b, m, tbl, i), NEW p \in In(b)
  PROVE  Hash(heap[p].key, n) = b[2] % n
<1> DEFINE q == b[3]
           c == Chain(heap, q)
<1>1. b[2] = i /\ q = tbl[i] /\ i \in 0..(m - 1)
  BY DEF BucketAt, TableIn
<1>2. q \in Belong(heap, n, i % n) \cup {Nil}
  BY <1>1 DEF TableIn
<1> HIDE DEF q, c
<1>3. c = Chain(heap, q)
  BY DEF c
<1>4. ChainIn(heap, q, Belong(heap, n, i % n), c)
  BY <1>2, <1>3, ChainClass
<1>5. p \in Range(c)
  BY InChain DEF c, q
<1>6. PICK j \in 1..Len(c) : p = c[j]
  BY <1>4, <1>5 DEF ChainIn, Range
<1>7. p \in Belong(heap, n, i % n)
  BY <1>4, <1>6 DEF ChainIn
<1> QED BY <1>1, <1>7 DEF Belong

LEMMA LooseInClass ==
  ASSUME NEW n \in Nat \ {0}, Loose(heap, h, n)
  PROVE  InClass(n)
<1>1. HeapIn(heap, n) /\ TableIn(heap, h.table, h.size, n) /\ TableIn(heap, h.rehashingTbl, h.rehashingSize, n)
  BY DEF Loose
<1> SUFFICES ASSUME NEW b \in Buckets, NEW p \in In(b) PROVE Hash(heap[p].key, n) = b[2] % n
  BY DEF InClass
<1>2. CASE \E i : BucketAt(b, h.size, h.table, i)
  BY <1>1, <1>2, BucketInClass
<1>3. CASE \E i : BucketAt(b, h.rehashingSize, h.rehashingTbl, i)
  BY <1>1, <1>3, BucketInClass
<1> QED BY <1>2, <1>3, BucketsAre

LEMMA LooseTypeOK == LooseInv => HeapTypeOK /\ InClass(InitSize)
<1> SUFFICES ASSUME LooseInv PROVE HeapTypeOK /\ InClass(InitSize)
  OBVIOUS
<1>1. Loose(heap, h, InitSize) /\ hung \in BOOLEAN /\ role \in {"expire", "keyspace"} /\ InitSize \in Nat \ {0}
  BY SizeAssumption DEF LooseInv
<1>2. Within(heap, Entries(heap)) /\ Heads(h) \subseteq Entries(heap) \cup {Nil}
  BY <1>1, LooseHeads
<1>3. heap \in [Addresses -> {Free} \cup [key : Keys, val : Values \cup {Unset}, next : 0..MaxEntries]]
  BY <1>2 DEF Within, HeapType, EntryType, Pointers
<1>4. Closed(heap, Entries(heap))
  BY <1>2 DEF Within, Closed
<1>5. DOMAIN h.table = 0..(h.size - 1) /\ DOMAIN h.rehashingTbl = 0..(h.rehashingSize - 1)
  BY <1>1 DEF Loose, TableIn
<1>6. HeapTypeOK
  BY <1>1, <1>2, <1>3, <1>4, <1>5 DEF HeapTypeOK
<1> QED BY <1>1, <1>6, LooseInClass

\* Whatever the calls of either table, also when AddRaw and rehashStep (dict.go:145
\* and 269) share and knot chains: no pointer dangles, and what hangs in a bucket differs from
\* what belongs there by a multiple of the size the table began with.  This is what
\* ChainsAreLists says of both tables.
THEOREM NoPointerDangles == Spec => [](HeapTypeOK /\ InClass(InitSize))
<1>1. LooseInv => HeapTypeOK /\ InClass(InitSize)
  BY LooseTypeOK
<1> QED BY <1>1, LooseAlways, PTL

-----------------------------------------------------------------------------
(***************************************************************************)
(* Writes of a keyspace are read back.                                     *)
(***************************************************************************)
\* The chain at p, if there is one, is within the class d.
InRow(hp, n, p, d) ==
  p # Nil =>
    /\ p \in Range(Chain(hp, p))
    /\ \A q \in Range(Chain(hp, p)) :
         q \in Belong(hp, n, d) /\ hp[q].next \in Range(Chain(hp, p)) \cup {Nil}

LEMMA RowIs ==
  ASSUME NEW n, InClass(n), Within(heap, Entries(heap)),
         NEW m, NEW tbl, NEW i, BucketAt(<<m, i, tbl[i]>>, m, tbl, i) => <<m, i, tbl[i]>> \in Buckets,
         i \in DOMAIN tbl, tbl[i] \in Entries(heap) \cup {Nil}
  PROVE  InRow(heap, n, tbl[i], i % n)
<1> DEFINE p == tbl[i]
           c == Chain(heap, p)
           b == <<m, i, p>>
           E == Entries(heap)
<1> SUFFICES ASSUME p # Nil
             PROVE  /\ p \in Range(c)
                    /\ \A q \in Range(c) : q \in Belong(heap, n, i % n) /\ heap[q].next \in Range(c) \cup {Nil}
  BY DEF InRow
<1>1. b \in Buckets /\ b[2] = i /\ b[3] = p
  BY DEF BucketAt
<1>2. \A q \in Range(c) : Hash(heap[q].key, n) = i % n
  BY <1>1, InChain DEF InClass
<1>3. heap \in HeapType /\ p \in E /\ E \subseteq Entries(heap) /\ \A x \in E : heap[x].next \in E \cup {Nil}
  BY DEF Within
<1>4. p \in Pointers /\ c = Chain(heap, p)
  BY <1>3, PointersAre, LinksType
<1> HIDE DEF p, c, b, E
<1>5. ChainIn(heap, p, E, c)
  BY <1>3, <1>4, ChainSteps
<1>6. \A q \in Range(c) : q \in E /\ heap[q].next \in Range(c) \cup {Nil}
  BY <1>5 DEF ChainIn, Range
<1>7. p \in Range(c)
  <2>1. c[1] = p /\ 1 \in 1..Len(c) /\ DOMAIN c = 1..Len(c)
    BY <1>5 DEF ChainIn
  <2> QED BY <2>1 DEF Range
<1> QED BY <1>2, <1>6, <1>7 DEF Belong, E

\* Entries that hang where they belong, as far as the size of the main table can
\* tell, point to such entries: the heap holds no others.
LEMMA ClassesAreLoose ==
  ASSUME LooseInv, InClass(h.size)
  PROVE  Loose(heap, h, h.size)
<1> DEFINE n == h.size
           m == h.rehashingSize
<1>0. /\ Loose(heap, h, InitSize) /\ h \in TableType /\ n \in Nat \ {0} /\ Books(h) /\ heap \in HeapType
      /\ h.table \in [0..(n - 1) -> Pointers] /\ h.rehashingTbl \in [0..(m - 1) -> Pointers]
  BY DEF LooseInv, Loose, HeapIn, TableType, TableIn
<1>1. /\ Within(heap, Entries(heap)) /\ Heads(h) \subseteq Entries(heap) \cup {Nil}
      /\ \A i \in 0..(n - 1) : h.table[i] \in Heads(h)
      /\ \A i \in 0..(m - 1) : h.rehashingTbl[i] \in Heads(h)
  BY <1>0, LooseHeads
<1>2. \A i \in 0..(n - 1) : InRow(heap, n, h.table[i], i % n)
  <2> TAKE i \in 0..(n - 1)
  <2>1. BucketAt(<<n, i, h.table[i]>>, n, h.table, i) => <<n, i, h.table[i]>> \in Buckets
    BY BucketsAre
  <2>2. i \in DOMAIN h.table /\ h.table[i] \in Entries(heap) \cup {Nil}
    BY <1>0, <1>1
  <2> QED BY <1>1, <2>1, <2>2, RowIs
<1>3. \A i \in 0..(m - 1) : InRow(heap, n, h.rehashingTbl[i], i % n)
  <2> TAKE i \in 0..(m - 1)
  <2>1. BucketAt(<<m, i, h.rehashingTbl[i]>>, m, h.rehashingTbl, i) => <<m, i, h.rehashingTbl[i]>> \in Buckets
    BY BucketsAre
  <2>2. i \in DOMAIN h.rehashingTbl /\ h.rehashingTbl[i] \in Entries(heap) \cup {Nil}
    BY <1>0, <1>1
  <2> QED BY <1>1, <2>1, <2>2, RowIs
<1>4. \A x \in Heads(h) : \E d : InRow(heap, n, x, d)
  <2> TAKE x \in Heads(h)
  <2>1. (\E i \in 0..(n - 1) : x = h.table[i]) \/ (\E i \in 0..(m - 1) : x = h.rehashingTbl[i])
    BY <1>0 DEF Heads, Range
  <2> QED BY <1>2, <1>3, <2>1
<1>5. HeapIn(heap, n)
  <2> SUFFICES ASSUME NEW p \in Entries(heap)
               PROVE  heap[p].next \in Belong(heap, n, Hash(heap[p].key, n)) \cup {Nil}
    BY <1>0 DEF HeapIn
  <2>1. p \in Live(heap, h)
    BY DEF LooseInv
  <2>2. PICK x \in Heads(h) : p \in Range(Chain(heap, x))
    BY <2>1 DEF Live, Reached
  <2>3. x # Nil
    <3> SUFFICES ASSUME x = Nil PROVE FALSE
      OBVIOUS
    <3>1. FoundIn(heap, Nil, Entries(heap), p, Find(heap, Nil, p))
      BY <1>1, FindIn
    <3>2. Chain(heap, Nil) = <<>>
      BY <3>1 DEF FoundIn
    <3> QED BY <2>2, <3>2 DEF Range
  <2>4. PICK d : InRow(heap, n, x, d)
    BY <1>4
  <2> QED BY <2>2, <2>3, <2>4 DEF InRow, Belong
<1>6. TableIn(heap, h.table, n, n) /\ TableIn(heap, h.rehashingTbl, m, n)
  BY <1>0, <1>2, <1>3 DEF TableIn, InRow
<1>7. Divides(n, n)
  BY <1>0 DEF Divides
<1> HIDE DEF n, m
<1>8. Loose(heap, h, n)
  BY <1>0, <1>5, <1>6, <1>7 DEF Loose, n, m
<1> QED BY <1>8 DEF n

\* One of the loops of findPositionForInsert leaves the entry it returns where a
\* lookup in its array finds it.
Finds(k, e, i, a) == a.tbl[i] # Nil /\ Find(a.heap, a.tbl[i], k) = a.entry

LEMMA SingleFound ==
  ASSUME NEW hp \in HeapType, NEW e \in Entries(hp), hp[e].next = Nil, NEW k, hp[e].key = k
  PROVE  Find(hp, e, k) = e
<1> DEFINE c == <<e>>
           H == Hits(hp, c, k)
<1>1. Chain(hp, e) = c
  BY ChainSingle
<1>2. H = {1}
  BY DEF Hits
<1>3. Min(H) = 1
  <2>1. H \subseteq Nat /\ H # {}
    BY <1>2
  <2> HIDE DEF H
  <2> QED BY <1>2, <2>1, MinIs
<1>4. Find(hp, e, k) = IF H = {} THEN Nil ELSE c[Min(H)]
  BY <1>1 DEF Find
<1> QED BY <1>2, <1>3, <1>4

LEMMA InsertionFinds ==
  ASSUME NEW n \in Nat \ {0}, NEW m \in Nat, NEW hp, HeapIn(hp, n), NEW tbl, TableIn(hp, tbl, m, n),
         NEW i \in 0..(m - 1), NEW e \in Entries(hp), NEW k, hp[e].key = k, hp[e].next = Nil,
         Within(hp, Entries(hp) \ {e}), tbl[i] \in (Entries(hp) \ {e}) \cup {Nil}, ~Hangs(hp, tbl[i], k)
  PROVE  Finds(k, e, i, Insertion(hp, tbl, i, k, e))
<1> DEFINE p == tbl[i]
           f == Find(hp, p, k)
           l == Linked(hp, tbl, i, e)
           a == Insertion(hp, tbl, i, k, e)
           R == Entries(hp) \ {e}
           c == Chain(hp, p)
<1>0. hp \in HeapType /\ e \in Addresses /\ e # Nil /\ p \in Pointers /\ tbl \in [0..(m - 1) -> Pointers]
  BY LinksType, PointersAre DEF HeapIn, TableIn
<1>1. FoundIn(hp, p, R, k, f)
  <2>1. p \in R \cup {Nil} /\ Within(hp, R)
    OBVIOUS
  <2> HIDE DEF p, R
  <2>2. FoundIn(hp, p, R, k, Find(hp, p, k))
    BY <2>1, FindIn
  <2> QED BY <2>2
<1>2. CASE f # Nil
  <2>1. a.heap = hp /\ a.tbl = tbl /\ a.entry = f
    BY <1>2 DEF Insertion
  <2>2. p # Nil
    <3> HIDE DEF f, p
    <3> QED BY <1>1, <1>2 DEF FoundIn
  <2> QED BY <2>1, <2>2 DEF Finds
<1>3. CASE f = Nil /\ p = Nil
  <2>1. a.heap = hp /\ a.tbl = [tbl EXCEPT ![i] = e] /\ a.entry = e
    BY <1>3 DEF Insertion, Linked
  <2>2. a.tbl[i] = e
    BY <1>0, <2>1
  <2>3. Find(hp, e, k) = e
    BY <1>0, SingleFound
  <2> QED BY <1>0, <2>1, <2>2, <2>3 DEF Finds
<1>4. CASE f = Nil /\ p # Nil
  <2> DEFINE z == Last(c)
             gp == a.heap
  <2>1. gp = [hp EXCEPT ![z].next = e] /\ a.tbl = tbl /\ a.entry = e
    BY <1>4 DEF Insertion, Linked
  <2>2. ~Endless(hp, p) /\ Hits(hp, c, k) = {}
    <3>1. ~Endless(hp, p)
      BY <1>4 DEF Hangs
    <3>2. Hits(hp, c, k) = {}
      <4> HIDE DEF f, p, R
      <4> QED BY <1>1, <1>4 DEF FoundIn
    <3> QED BY <3>1, <3>2
  <2>3. ChainIn(hp, p, R, c)
    <3>1. /\ p \in R \cup {Nil} /\ R \subseteq Entries(hp) /\ c = Chain(hp, p)
          /\ \A q \in R : hp[q].next \in R \cup {Nil}
      BY DEF Within
    <3> HIDE DEF p, R, c
    <3> QED BY <1>0, <3>1, ChainSteps
  <2>4. p \in Entries(hp) /\ c = Chain(hp, p) /\ R \subseteq Entries(hp) /\ e \notin R
    BY <1>4
  <2>5. \A q \in Entries(hp) : hp[q].next \in Entries(hp) \cup {Nil}
    BY DEF Within
  <2>6. ~(Len(c) > MaxEntries)
    BY <2>2 DEF Endless
  <2> HIDE DEF a, f, l, p, R, c, z, gp
  <2>7. /\ c \in Seq(Addresses) /\ Len(c) \in Nat /\ Len(c) >= 1 /\ \A j \in 1..Len(c) : c[j] \in R /\ c[j] \in Entries(hp) /\ c[j] # e
    BY <1>4, <2>3, <2>4 DEF ChainIn
  <2>8. Len(c) <= MaxEntries
    BY <2>6, <2>7, BoundAssumption
  <2>9. z \in Entries(hp) /\ e \in Pointers
    <3>1. Len(c) \in 1..Len(c)
      BY <2>7
    <3> QED BY <1>0, <2>7, <3>1, PointersAre DEF z, Last
  <2>10. NextSet(hp, z, e, gp)
    BY <1>0, <2>1, <2>9, NextIsSet
  <2>11. Chain(gp, p) = Append(c, e)
    <3>1. NextSet(hp, Last(c), e, gp)
      BY <2>10 DEF z
    <3>2. \A j \in 1..Len(c) : c[j] # e
      BY <2>7
    <3> QED BY <1>0, <2>4, <2>5, <2>8, <3>1, <3>2, ChainAppend
  <2>12. gp[e].key = k /\ \A j \in 1..Len(c) : gp[c[j]].key # k
    <3>1. \A q \in Entries(hp) : gp[q].key = hp[q].key
      BY <2>10 DEF NextSet, SameKeys
    <3>2. \A j \in 1..Len(c) : hp[c[j]].key # k
      BY <2>2 DEF Hits
    <3> QED BY <2>7, <3>1, <3>2
  <2>13. Find(gp, p, k) = e
    BY <1>0, <2>7, <2>11, <2>12, FindAppended
  <2>14. a.tbl[i] = p
    BY <2>1 DEF p
  <2> QED BY <1>4, <2>1, <2>13, <2>14 DEF Finds, a, gp
<1> QED BY <1>2, <1>3, <1>4

\* When the loop over the new array does not return, it has hung e in an empty
\* bucket and touched nothing else.
Falls(hp, tbl, i, e, a) ==
  a.heap = hp /\ tbl[i] = Nil /\ a.tbl = [tbl EXCEPT ![i] = e] /\ a.entry = e /\ a.added = 1

LEMMA InsertionFalls ==
  ASSUME NEW hp, NEW tbl, NEW i, NEW k, NEW e, NEW a, a = Insertion(hp, tbl, i, k, e), ~a.exist
  PROVE  Falls(hp, tbl, i, e, a) /\ Find(hp, tbl[i], k) = Nil
<1> DEFINE f == Find(hp, tbl[i], k)
           l == Linked(hp, tbl, i, e)
<1>1. f = Nil
  <2> SUFFICES ASSUME f # Nil PROVE FALSE
    OBVIOUS
  <2>1. a.exist = TRUE
    BY DEF Insertion
  <2> QED BY <2>1
<1>2. a.heap = l.heap /\ a.tbl = l.tbl /\ a.entry = e /\ (a.exist <=> tbl[i] # Nil) /\ a.added = 1
  BY <1>1 DEF Insertion
<1>3. tbl[i] = Nil
  BY <1>2
<1>4. l.heap = hp /\ l.tbl = [tbl EXCEPT ![i] = e]
  BY <1>3 DEF Linked
<1> QED BY <1>1, <1>2, <1>3, <1>4 DEF Falls

\* The array that a lookup goes to first leads to no entry of k in the other, in
\* the case in which findPositionForInsert would look there.
NoneBelow(s, k) ==
  Rehashing(s.h) /\ NewBucket(s.h, k) = Nil => Find(s.heap, Bucket(s.h, k), k) = Nil

LEMMA FindPositionForInsertFinds ==
  ASSUME NEW n \in Nat \ {0}, NEW s, Loose(s.heap, s.h, n), Between(s.h), ~Full(s.heap), NEW k \in Keys,
         ~AddRawHangs(s, k), NoneBelow(s, k)
  PROVE  LET r == FindPositionForInsert(s, k) IN GetEntry(r.heap, r.h, k) = r.entry
<1> DEFINE t  == s.h
           e  == NewAddress(s.heap)
           hp == [s.heap EXCEPT ![e] = NewEntry(k, Unset)]
           i  == Hash(k, t.size)
           j  == Hash(k, t.rehashingSize)
           p  == t.table[i]
           q  == t.rehashingTbl[j]
           a  == Insertion(hp, t.rehashingTbl, j, k, e)
           b  == Insertion(hp, t.table, i, k, e)
           c  == Insertion(a.heap, t.table, i, k, e)
           r  == FindPositionForInsert(s, k)
           E  == Entries(s.heap)
<1>0. /\ t.size \in Nat \ {0} /\ t.count \in Nat /\ t.table \in Tables /\ t.rehashingTbl \in Tables
      /\ t.rehashingSize \in Nat /\ HeapIn(s.heap, n) /\ s.heap \in HeapType /\ t \in TableType
      /\ TableIn(s.heap, t.table, t.size, n) /\ TableIn(s.heap, t.rehashingTbl, t.rehashingSize, n)
      /\ i \in 0..(t.size - 1) /\ i % n = Hash(k, n)
      /\ Rehashing(t) => j \in 0..(t.rehashingSize - 1) /\ j % n = Hash(k, n)
  BY LooseSizes
<1>1. Made(s.heap, e, k, Unset, hp)
  BY <1>0, NewIsMade
<1>2. /\ ~Rehashing(t) =>
           r.heap = b.heap /\ r.entry = b.entry /\ r.h = [t EXCEPT !.table = b.tbl, !.count = t.count + b.added]
      /\ Rehashing(t) /\ a.exist =>
           r.heap = a.heap /\ r.entry = a.entry /\ r.h = [t EXCEPT !.rehashingTbl = a.tbl, !.count = t.count + a.added]
      /\ Rehashing(t) /\ ~a.exist =>
           /\ r.heap = c.heap /\ r.entry = c.entry
           /\ r.h = [t EXCEPT !.rehashingTbl = a.tbl, !.table = c.tbl, !.count = t.count + a.added + c.added]
  BY DEF FindPositionForInsert
<1>3. /\ Within(s.heap, E) /\ (p \in E \cup {Nil}) /\ (Rehashing(t) => q \in E \cup {Nil})
  <2>1. /\ Within(s.heap, E) /\ Heads(t) \subseteq E \cup {Nil}
        /\ \A x \in 0..(t.size - 1) : t.table[x] \in Heads(t)
        /\ \A x \in 0..(t.rehashingSize - 1) : t.rehashingTbl[x] \in Heads(t)
    BY LooseHeads
  <2> QED BY <1>0, <2>1
<1>4. Bucket(t, k) = p /\ NewBucket(t, k) = q
  BY DEF Bucket, NewBucket
<1>5. /\ Rehashing(t) => ~Hangs(s.heap, q, k)
      /\ ~Rehashing(t) \/ q = Nil => ~Hangs(s.heap, p, k)
      /\ Rehashing(t) /\ q = Nil => Find(s.heap, p, k) = Nil
  BY <1>4 DEF AddRawHangs, NoneBelow
<1> HIDE DEF e, hp, r, p, q, i, j, E, t
<1>6. /\ HeapIn(hp, n) /\ e \in Belong(hp, n, Hash(k, n)) /\ hp[e].key = k /\ hp[e].next = Nil /\ e # Nil
      /\ TableIn(hp, t.table, t.size, n) /\ TableIn(hp, t.rehashingTbl, t.rehashingSize, n)
      /\ e \in Entries(hp) /\ hp \in HeapType /\ E = Entries(hp) \ {e}
      /\ \A x \in E : hp[x] = s.heap[x]
  BY <1>0, <1>1, MadeKeeps, TableMade DEF Made, Belong, E
<1>7. Frame(s.heap, hp, E) /\ Within(hp, E)
  BY <1>3, <1>6 DEF Frame, Within, E
<1>8. SameFind(s.heap, hp, p) /\ (Rehashing(t) => SameFind(s.heap, hp, q))
  BY <1>3, <1>7, FindFrame
<1>9. /\ Rehashing(t) => ~Hangs(hp, q, k)
      /\ ~Rehashing(t) \/ q = Nil => ~Hangs(hp, p, k)
      /\ Rehashing(t) /\ q = Nil => Find(hp, p, k) = Nil
  BY <1>5, <1>8 DEF SameFind
<1>10. CASE ~Rehashing(t)
  <2>1. Finds(k, e, i, b)
    <3>1. p = t.table[i]
      BY DEF p
    <3> QED BY <1>0, <1>3, <1>6, <1>7, <1>9, <1>10, <3>1, InsertionFinds
  <2>2. r.heap = b.heap /\ r.entry = b.entry /\ r.h.table = b.tbl /\ r.h.size = t.size /\ r.h.rehashingIdx = t.rehashingIdx
    BY <1>0, <1>2, <1>10 DEF TableType
  <2>3. ~Rehashing(r.h) /\ Bucket(r.h, k) = b.tbl[i]
    BY <1>10, <2>2 DEF Rehashing, Bucket, i
  <2> HIDE DEF b
  <2>4. GetEntry(r.heap, r.h, k) = r.entry
    BY <2>1, <2>2, <2>3 DEF GetEntry, Finds
  <2> QED BY <2>4 DEF r
<1>11. CASE Rehashing(t) /\ a.exist
  <2>1. Finds(k, e, j, a)
    <3>1. q = t.rehashingTbl[j]
      BY DEF q
    <3> QED BY <1>0, <1>3, <1>6, <1>7, <1>9, <1>11, <3>1, InsertionFinds
  <2>0. r.heap = a.heap /\ r.entry = a.entry /\ r.h = [t EXCEPT !.rehashingTbl = a.tbl, !.count = t.count + a.added]
    BY <1>2, <1>11
  <2> DEFINE w == a.tbl
  <2>a. a.entry # Nil
    <3>1. Inserts(hp, t.rehashingTbl, t.rehashingSize, n, k, a)
      BY <1>0, <1>6, <1>11, InsertionKeeps
    <3> HIDE DEF a
    <3>2. a.entry \in Entries(hp)
      BY <3>1 DEF Inserts
    <3> QED BY <1>6, <3>2, LinksType, PointersAre
  <2> HIDE DEF a
  <2>2. r.heap = a.heap /\ r.entry = a.entry /\ r.h.rehashingTbl = a.tbl /\ r.h.rehashingSize = t.rehashingSize /\ r.h.rehashingIdx = t.rehashingIdx
    BY <1>0, <2>0 DEF TableType
  <2>3. Rehashing(r.h) /\ NewBucket(r.h, k) = a.tbl[j]
    BY <1>11, <2>2 DEF Rehashing, NewBucket, j
  <2>4. GetEntry(r.heap, r.h, k) = r.entry
    BY <2>1, <2>2, <2>3, <2>a DEF GetEntry, Finds
  <2> QED BY <2>4 DEF r
<1>12. CASE Rehashing(t) /\ ~a.exist
  <2>1. Falls(hp, t.rehashingTbl, j, e, a) /\ Find(hp, t.rehashingTbl[j], k) = Nil
    BY <1>12, InsertionFalls
  <2>0. /\ r.heap = c.heap /\ r.entry = c.entry
        /\ r.h = [t EXCEPT !.rehashingTbl = a.tbl, !.table = c.tbl, !.count = t.count + a.added + c.added]
    BY <1>2, <1>12
  <2> HIDE DEF a
  <2>2. a.heap = hp /\ q = Nil /\ a.tbl[j] = e
    <3>1. t.rehashingTbl \in [0..(t.rehashingSize - 1) -> Pointers] /\ j \in DOMAIN t.rehashingTbl
      BY <1>0, <1>12 DEF TableIn
    <3> QED BY <2>1, <3>1 DEF Falls, q
  <2>3. Find(hp, p, k) = Nil /\ ~Hangs(hp, p, k)
    BY <1>9, <1>12, <2>2
  <2> DEFINE l == Linked(hp, t.table, i, e)
  <2>4. c.heap = l.heap /\ c.entry = e
    <3>1. p = t.table[i]
      BY DEF p
    <3> QED BY <2>2, <2>3, <3>1 DEF Insertion
  <2>5. SameKeys(hp, l.heap) /\ l.heap[e].next = Nil
    <3>1. CASE p = Nil
      <4>1. l.heap = hp
        BY <3>1 DEF Linked, p
      <4> QED BY <1>6, <4>1 DEF SameKeys
    <3>2. CASE p # Nil
      <4> DEFINE d == Chain(hp, p)
                 z == Last(d)
                 gp == l.heap
      <4>1. gp = [hp EXCEPT ![z].next = e]
        BY <3>2 DEF Linked, p
      <4>2. z \in E
        <5>1. p \in E \cup {Nil} /\ p \in Pointers /\ E \subseteq Entries(hp) /\ \A x \in E : hp[x].next \in E \cup {Nil}
          BY <1>3, <1>6, <1>7, LinksType, PointersAre DEF Within
        <5>2. d = Chain(hp, p)
          OBVIOUS
        <5> HIDE DEF d
        <5>3. ChainIn(hp, p, E, d)
          BY <1>6, <5>1, <5>2, ChainSteps
        <5>4. Len(d) \in 1..Len(d) /\ d[Len(d)] \in E
          BY <3>2, <5>3 DEF ChainIn
        <5> QED BY <5>4 DEF Last
      <4> HIDE DEF z, gp
      <4>3. e \in Pointers /\ z \in Entries(hp) /\ e # z
        BY <1>6, <4>2, LinksType, PointersAre
      <4>4. NextSet(hp, z, e, gp)
        BY <1>6, <4>1, <4>3, NextIsSet
      <4>5. SameKeys(hp, gp) /\ gp[e].next = Nil
        BY <1>6, <4>3, <4>4 DEF NextSet
      <4> QED BY <4>5 DEF gp
    <3> QED BY <3>1, <3>2
  <2> DEFINE gp == l.heap
  <2>6. SameKeys(hp, gp) /\ gp[e].next = Nil
    BY <2>5
  <2> HIDE DEF gp, c
  <2>7. gp \in HeapType /\ e \in Entries(gp) /\ gp[e].key = k
    BY <1>6, <2>6 DEF SameKeys
  <2>8. Find(gp, e, k) = e
    BY <2>6, <2>7, SingleFound
  <2>9. r.heap = gp /\ r.entry = e /\ r.h.rehashingTbl = a.tbl /\ r.h.rehashingSize = t.rehashingSize /\ r.h.rehashingIdx = t.rehashingIdx
    BY <1>0, <2>0, <2>4 DEF TableType, gp
  <2>10. Rehashing(r.h) /\ NewBucket(r.h, k) = e
    BY <1>12, <2>2, <2>9 DEF Rehashing, NewBucket, j
  <2>11. GetEntry(r.heap, r.h, k) = r.entry
    BY <1>6, <2>8, <2>9, <2>10 DEF GetEntry
  <2> QED BY <2>11 DEF r
<1> QED BY <1>10, <1>11, <1>12

\* Lookups in a heap of which a part is left.
LEMMA GetFrame ==
  ASSUME NEW n \in Nat \ {0}, NEW hp, NEW t, Loose(hp, t, n), NEW k \in Keys,
         NEW gp, NEW R, Frame(hp, gp, R), Heads(t) \subseteq R \cup {Nil}
  PROVE  GetEntry(gp, t, k) = GetEntry(hp, t, k)
<1>1. /\ \A i \in 0..(t.size - 1) : t.table[i] \in Heads(t)
      /\ \A i \in 0..(t.rehashingSize - 1) : t.rehashingTbl[i] \in Heads(t)
  BY LooseHeads
<1>2. /\ Hash(k, t.size) \in 0..(t.size - 1)
      /\ Rehashing(t) => Hash(k, t.rehashingSize) \in 0..(t.rehashingSize - 1)
  BY LooseSizes
<1>3. Bucket(t, k) \in R \cup {Nil} /\ (Rehashing(t) => NewBucket(t, k) \in R \cup {Nil})
  BY <1>1, <1>2 DEF Bucket, NewBucket
<1>4. SameFind(hp, gp, Bucket(t, k)) /\ (Rehashing(t) => SameFind(hp, gp, NewBucket(t, k)))
  BY <1>3, FindFrame
<1> QED BY <1>4 DEF SameFind, GetEntry

\* Starting a rehash changes no lookup.
LEMMA GetResized ==
  ASSUME NEW n \in Nat \ {0}, NEW hp, NEW t, Loose(hp, t, n), Between(t), NEW k \in Keys
  PROVE  GetEntry(hp, Resized(t), k) = GetEntry(hp, t, k)
<1> DEFINE g == Resized(t)
<1>0. t.size \in Nat \ {0} /\ Within(hp, Entries(hp))
  BY LooseSizes, LooseHeads
<1>1. /\ g.table = t.table /\ g.size = t.size
      /\ g = t \/ (~Rehashing(t) /\ Rehashing(g) /\ g.rehashingTbl = NewTable(2 * t.size) /\ g.rehashingSize = 2 * t.size)
  BY ResizedKeeps
<1> HIDE DEF g
<1>2. CASE g = t
  BY <1>2 DEF g
<1>3. CASE ~Rehashing(t) /\ Rehashing(g) /\ g.rehashingTbl = NewTable(2 * t.size) /\ g.rehashingSize = 2 * t.size
  <2>1. Hash(k, g.rehashingSize) \in 0..(2 * t.size - 1)
    BY <1>0, <1>3, HashType
  <2>2. NewBucket(g, k) = Nil
    BY <1>3, <2>1 DEF NewBucket, NewTable
  <2>3. FoundIn(hp, Nil, Entries(hp), k, Find(hp, Nil, k))
    BY <1>0, FindIn
  <2>4. Find(hp, Nil, k) = Nil
    BY <2>3 DEF FoundIn
  <2>5. Bucket(g, k) = Bucket(t, k)
    BY <1>1 DEF Bucket
  <2> QED BY <1>3, <2>2, <2>4, <2>5 DEF GetEntry, g
<1> QED BY <1>1, <1>2, <1>3

\* What a call leaves at e, where a lookup finds it, is what Get gives after it.
LEMMA ReadsBack ==
  ASSUME NEW n \in Nat \ {0}, NEW hp, NEW t, Loose(hp, t, n), Between(t), NEW k \in Keys, NEW v \in Values,
         NEW e \in Entries(hp), GetEntry(hp, t, k) = e
  PROVE  /\ Get(SetVal(hp, e, v), t, k) = v
         /\ Get(Collected(SetVal(hp, e, v), Resized(t)), Resized(t), k) = v
<1> DEFINE gp == SetVal(hp, e, v)
           u  == Resized(t)
           fp == Collected(gp, u)
<1>0. hp \in HeapType /\ e # Nil /\ v \in Values \cup {Unset}
  BY LinksType, PointersAre DEF Loose, HeapIn
<1>1. Loose(gp, t, n) /\ ValueSet(hp, e, v, gp)
  BY <1>0, ValueKeeps
<1>2. Within(hp, Entries(hp)) /\ Heads(t) \subseteq Entries(hp) \cup {Nil}
  BY LooseHeads
<1> HIDE DEF gp
<1>3. Frame(hp, gp, Entries(hp)) /\ gp[e].val = v /\ e \in Entries(gp)
  BY <1>1, <1>2 DEF ValueSet, SameKeys, Frame, Within
<1>4. GetEntry(gp, t, k) = e
  BY <1>2, <1>3, GetFrame
<1>5. Get(gp, t, k) = v
  BY <1>0, <1>3, <1>4 DEF Get
<1>6. Loose(gp, u, n) /\ GetEntry(gp, u, k) = e
  BY <1>1, <1>4, ResizedKeeps, GetResized
<1> HIDE DEF u
<1>7. Swept(gp, u, fp)
  BY <1>6, CollectedKeeps
<1>8. Loose(fp, u, n)
  BY <1>6, CollectedKeeps
<1> HIDE DEF fp
<1>9. GetEntry(fp, u, k) = e
  BY <1>6, <1>7, GetFrame DEF Swept
<1>10. e \in Entries(fp)
  BY <1>0, <1>8, <1>9, GetEntryIs DEF Belong
<1>11. fp[e] = gp[e]
  BY <1>7, <1>10 DEF Swept
<1>12. Get(fp, u, k) = v
  BY <1>0, <1>3, <1>9, <1>11 DEF Get
<1> QED BY <1>5, <1>12 DEF gp, u, fp

\* The step of a rehash that goes on after it loses no entry from the bucket of
\* the main table, and brings none into it.
LEMMA StepLeavesBucket ==
  ASSUME LooseInv, Loose(heap, h, h.size), NEW k \in Keys, GetEntry(heap, h, k) = Nil,
         NEW s, s = Stepped(heap, h)
  PROVE  NoneBelow(s, k)
<1> SUFFICES ASSUME Rehashing(s.h) PROVE Find(s.heap, Bucket(s.h, k), k) = Nil
  BY DEF NoneBelow
<1> DEFINE n == h.size
           i == Hash(k, n)
           R == Belong(heap, n, i)
           E == Entries(s.heap)
<1>0. n \in Nat \ {0} /\ Between(h) /\ i \in 0..(n - 1) /\ i % n = i /\ HeapIn(heap, n) /\ TableIn(heap, h.table, n, n) /\ h \in TableType
  <2>1. h.size \in Nat \ {0}
    BY DEF Loose, TableType
  <2> QED BY <2>1, LooseSizes DEF LooseInv
<1>1. Rehashing(h) /\ Carried(heap, h, n, s)
  <2> HIDE DEF n
  <2> QED BY <1>0, SteppedKeeps DEF n
<1>2. /\ s.h.size = n /\ Loose(s.heap, s.h, n) /\ s.h.rehashingIdx <= n /\ s.h.rehashingIdx \in Nat /\ h.rehashingIdx \in Nat
      /\ s.h.table[i] = IF i >= h.rehashingIdx /\ i < s.h.rehashingIdx THEN Nil ELSE h.table[i]
  BY <1>0, <1>1 DEF Carried, Loose, Books, TableType, Rehashing
<1>3. Bucket(s.h, k) = s.h.table[i] /\ Bucket(h, k) = h.table[i]
  BY <1>2 DEF Bucket
<1>4. Find(heap, h.table[i], k) = Nil
  BY <1>3 DEF GetEntry
<1>5. CASE i >= h.rehashingIdx /\ i < s.h.rehashingIdx
  <2>1. Within(s.heap, E)
    BY <1>2, LooseHeads
  <2> HIDE DEF E
  <2>2. FoundIn(s.heap, Nil, E, k, Find(s.heap, Nil, k))
    BY <2>1, FindIn
  <2> QED BY <1>2, <1>3, <1>5, <2>2 DEF FoundIn
<1>6. CASE ~(i >= h.rehashingIdx /\ i < s.h.rehashingIdx)
  <2>1. \A j \in h.rehashingIdx..(s.h.rehashingIdx - 1) : j % n # i
    <3> TAKE j \in h.rehashingIdx..(s.h.rehashingIdx - 1)
    <3>1. j \in Nat /\ j < n /\ j # i
      BY <1>0, <1>2, <1>6
    <3>2. j % n = j
      BY <1>0, <3>1
    <3> QED BY <3>1, <3>2
  <2>2. SameKeys(heap, s.heap) /\ \A p \in R : p \in Entries(heap) /\ s.heap[p] = heap[p]
    BY <1>1, <2>1 DEF Carried, Belong
  <2>3. Frame(heap, s.heap, R)
    BY <1>0, <2>2 DEF Frame, SameKeys, HeapIn, Belong
  <2>4. h.table[i] \in R \cup {Nil}
    BY <1>0 DEF TableIn
  <2> HIDE DEF R
  <2>5. SameFind(heap, s.heap, h.table[i])
    BY <2>3, <2>4, FindFrame
  <2> QED BY <1>2, <1>3, <1>4, <1>6, <2>5 DEF SameFind
<1> QED BY <1>5, <1>6

LEMMA AddIsRead ==
  ASSUME LooseInv, InClass(h.size), NEW k \in Keys, NEW v \in Values, Add(k, v), ~hung'
  PROVE  Get(heap', h', k) = v
<1> DEFINE n == h.size
           s == Stepped(heap, h)
           a == FindPositionForInsert(s, k)
           r == [heap |-> SetVal(a.heap, a.entry, v), h |-> Resized(a.h)]
<1>1. ~Full(heap) /\ GetEntry(heap, h, k) = Nil /\ IF s.hangs \/ AddRawHangs(s, k) THEN Hang ELSE Return(r)
  BY DEF Add, Room, Full
<1>2. ~AddRawHangs(s, k) /\ Return(r)
  BY <1>1 DEF Hang
<1>3. Loose(heap, h, h.size) /\ Between(h) /\ n \in Nat \ {0}
  BY ClassesAreLoose DEF LooseInv, Loose, TableType
<1>4. NoneBelow(s, k)
  BY <1>1, <1>3, StepLeavesBucket
<1>5. Loose(s.heap, s.h, n) /\ Between(s.h) /\ ~Full(s.heap)
  <2> HIDE DEF s
  <2>1. s = Stepped(heap, h) /\ Loose(heap, h, n)
    BY <1>3 DEF s
  <2> HIDE DEF n
  <2> QED BY <1>1, <1>3, <2>1, LooseStepped
<1> HIDE DEF s, n
<1>6. Kept(s, n, k, a) /\ a.entry \in Entries(a.heap) /\ GetEntry(a.heap, a.h, k) = a.entry
  BY <1>2, <1>3, <1>4, <1>5, FindPositionForInsertKeeps, FindPositionForInsertFinds
<1>7. heap' = Collected(SetVal(a.heap, a.entry, v), Resized(a.h)) /\ h' = Resized(a.h)
  BY <1>2 DEF Return
<1> HIDE DEF a
<1>8. Loose(a.heap, a.h, n) /\ Between(a.h)
  BY <1>6 DEF Kept
<1> QED BY <1>3, <1>6, <1>7, <1>8, ReadsBack

LEMMA OverwriteIsRead ==
  ASSUME LooseInv, NEW k \in Keys, NEW v \in Values, Overwrite(k, v)
  PROVE  Get(heap', h', k) = v
<1> DEFINE e == GetEntry(heap, h, k)
<1>1. e # Nil /\ heap' = SetVal(heap, e, v) /\ h' = h
  BY DEF Overwrite
<1>2. Loose(heap, h, InitSize) /\ Between(h) /\ InitSize \in Nat \ {0}
  BY SizeAssumption DEF LooseInv
<1>3. e \in Entries(heap)
  BY <1>1, <1>2, GetEntryIs DEF Belong
<1>4. GetEntry(heap, h, k) = e
  OBVIOUS
<1> HIDE DEF e
<1> QED BY <1>1, <1>2, <1>3, <1>4, ReadsBack

\* KeyspaceReadsItsWrites: what SetKey has just written into a keyspace is what the next lookup
\* (dict.go:224) reads, also when AddRaw has linked the entry into both arrays, if no entry
\* is left in a wrong bucket of the main table.
THEOREM KeyspaceReadsItsWritesOk == Spec => KeyspaceReadsItsWrites
<1> DEFINE Reads == \A k \in Keys, v \in Values :
                      role = "keyspace" /\ InClass(h.size) /\ (Add(k, v) \/ Overwrite(k, v)) /\ ~hung' => Get(heap', h', k) = v
<1>1. LooseInv => Reads
  BY AddIsRead, OverwriteIsRead
<1> HIDE DEF Reads
<1>2. LooseInv /\ [Next]_vars => [Reads]_vars
  BY <1>1
<1>3. Spec => [][Reads]_vars
  BY <1>2, LooseAlways, PTL DEF Spec
<1> QED BY <1>3 DEF Reads, KeyspaceReadsItsWrites

-----------------------------------------------------------------------------
(***************************************************************************)
(* Lists that are apart: frames, a tail cut off, an entry cut out, an      *)
(* entry appended.                                                         *)
(***************************************************************************)
\* The lists keep their entries and links.
SameLists(hp, gp, F) ==
  \A b \in DOMAIN F : \A i \in 1..Len(F[b]) : F[b][i] \in Entries(gp) /\ gp[F[b][i]].next = hp[F[b][i]].next

LEMMA SeqIn ==
  ASSUME NEW S, NEW T, NEW c \in Seq(S), \A i \in 1..Len(c) : c[i] \in T
  PROVE  c \in Seq(T)
<1>1. Len(c) \in Nat /\ DOMAIN c = 1..Len(c) /\ c = [i \in 1..Len(c) |-> c[i]]
  OBVIOUS
<1>2. c \in [1..Len(c) -> T]
  BY <1>1
<1> QED BY <1>1, <1>2

LEMMA WorldFrame ==
  ASSUME NEW hp, NEW hd, NEW F, World(hp, hd, F), NEW gp \in HeapType, SameLists(hp, gp, F)
  PROVE  World(gp, hd, F)
<1>1. Lists(hp, F) /\ Follows(hp, F) /\ Apart(F) /\ F = [b \in DOMAIN F |-> F[b]]
  BY DEF World, Lists
<1>2. \A b \in DOMAIN F : F[b] \in Seq(Entries(gp))
  <2> SUFFICES ASSUME NEW b \in DOMAIN F PROVE F[b] \in Seq(Entries(gp))
    OBVIOUS
  <2>1. F[b] \in Seq(Entries(hp))
    BY <1>1 DEF Lists
  <2>2. \A i \in 1..Len(F[b]) : F[b][i] \in Entries(gp)
    BY DEF SameLists
  <2> QED BY <2>1, <2>2, SeqIn
<1>3. Lists(gp, F)
  BY <1>1, <1>2 DEF Lists
<1>4. Follows(gp, F)
  BY <1>1 DEF Follows, SameLists
<1> QED BY <1>3, <1>4 DEF World

\* The bucket q of G is the bucket r[q] of F, or new and empty.
Drawn(hd, F, D, r, gd, G) ==
  /\ DOMAIN G = D /\ G = [q \in D |-> G[q]] /\ gd = [q \in D |-> gd[q]]
  /\ \A q \in D : IF r[q] \in DOMAIN F THEN G[q] = F[r[q]] /\ gd[q] = hd[r[q]] ELSE G[q] = <<>> /\ gd[q] = Nil
  /\ \A q, s \in D : r[q] = r[s] => q = s

LEMMA WorldDrawn ==
  ASSUME NEW hp, NEW hd, NEW F, World(hp, hd, F), NEW D, NEW r, NEW gd, NEW G, Drawn(hd, F, D, r, gd, G)
  PROVE  World(hp, gd, G)
<1>1. Lists(hp, F) /\ Follows(hp, F) /\ Apart(F) /\ hp \in HeapType /\ hd \in [DOMAIN F -> Pointers]
  BY DEF World
<1>2. \A q \in D : \/ r[q] \in DOMAIN F /\ G[q] = F[r[q]] /\ gd[q] = hd[r[q]]
                   \/ G[q] = <<>> /\ Len(G[q]) = 0 /\ gd[q] = Nil
  BY DEF Drawn
<1>3. \A q \in D : G[q] \in Seq(Entries(hp)) /\ gd[q] \in Pointers
  <2> SUFFICES ASSUME NEW q \in D PROVE G[q] \in Seq(Entries(hp)) /\ gd[q] \in Pointers
    OBVIOUS
  <2>1. CASE r[q] \in DOMAIN F /\ G[q] = F[r[q]] /\ gd[q] = hd[r[q]]
    BY <1>1, <2>1 DEF Lists
  <2>2. CASE G[q] = <<>> /\ Len(G[q]) = 0 /\ gd[q] = Nil
    BY <2>2, PointersAre
  <2> QED BY <1>2, <2>1, <2>2
<1>4. Lists(hp, G) /\ gd \in [DOMAIN G -> Pointers]
  BY <1>3 DEF Lists, Drawn
<1>5. Apart(G)
  <2> SUFFICES ASSUME NEW a \in D, NEW b \in D, NEW i \in 1..Len(G[a]), NEW j \in 1..Len(G[b]), G[a][i] = G[b][j]
               PROVE  a = b /\ i = j
    BY DEF Apart, Drawn
  <2>1. Len(G[a]) # 0 /\ Len(G[b]) # 0
    <3>1. Len(G[a]) \in Nat /\ Len(G[b]) \in Nat
      BY <1>3
    <3> QED BY <3>1
  <2>2. r[a] \in DOMAIN F /\ G[a] = F[r[a]] /\ r[b] \in DOMAIN F /\ G[b] = F[r[b]]
    BY <1>2, <2>1
  <2>3. r[a] = r[b] /\ i = j
    BY <1>1, <2>2, ApartIs
  <2> QED BY <2>3 DEF Drawn
<1>6. Follows(hp, G)
  <2> SUFFICES ASSUME NEW b \in D, NEW i \in 1..Len(G[b]) PROVE hp[G[b][i]].next = Item(G[b], i + 1)
    BY DEF Follows, Drawn
  <2>1. Len(G[b]) # 0
    <3>1. Len(G[b]) \in Nat
      BY <1>3
    <3> QED BY <3>1
  <2>2. r[b] \in DOMAIN F /\ G[b] = F[r[b]]
    BY <1>2, <2>1
  <2> QED BY <1>1, <2>2 DEF Follows
<1>7. \A q \in D : gd[q] = Item(G[q], 1)
  <2> SUFFICES ASSUME NEW q \in D PROVE gd[q] = Item(G[q], 1)
    OBVIOUS
  <2>1. CASE r[q] \in DOMAIN F /\ G[q] = F[r[q]] /\ gd[q] = hd[r[q]]
    BY <2>1 DEF World
  <2>2. CASE G[q] = <<>> /\ Len(G[q]) = 0 /\ gd[q] = Nil
    BY <2>2 DEF Item
  <2> QED BY <1>2, <2>1, <2>2
<1> QED BY <1>1, <1>4, <1>5, <1>6, <1>7 DEF World, Drawn

\* One list of F is another.
Listed(F, b, c, G) == DOMAIN G = DOMAIN F /\ G[b] = c /\ \A q \in DOMAIN F : q # b => G[q] = F[q]

LEMMA ListedIs ==
  ASSUME NEW F, F = [q \in DOMAIN F |-> F[q]], NEW b \in DOMAIN F, NEW c
  PROVE  Listed(F, b, c, [F EXCEPT ![b] = c])
BY DEF Listed

LEMMA ListsListed ==
  ASSUME NEW hp, NEW F, Lists(hp, F), NEW b \in DOMAIN F, NEW c \in Seq(Entries(hp)),
         NEW gp, Entries(gp) = Entries(hp)
  PROVE  Lists(gp, [F EXCEPT ![b] = c])
BY DEF Lists

\* The list b loses its entry number m.
CutLinks(hp, hd, F, b, m, gp, gd) ==
  IF m = 1 THEN gp = hp /\ gd = [hd EXCEPT ![b] = hp[F[b][1]].next]
  ELSE gd = hd /\ gp = [hp EXCEPT ![F[b][m - 1]].next = hp[F[b][m]].next]

LEMMA WorldCut ==
  ASSUME NEW hp, NEW hd, NEW F, World(hp, hd, F), NEW b \in DOMAIN F, NEW m \in 1..Len(F[b]),
         NEW gp, NEW gd, CutLinks(hp, hd, F, b, m, gp, gd)
  PROVE  World(gp, gd, [F EXCEPT ![b] = Cut(F[b], m)])
<1> DEFINE c == F[b]
           x == Cut(c, m)
           G == [F EXCEPT ![b] = x]
<1>1. /\ Lists(hp, F) /\ Follows(hp, F) /\ Apart(F) /\ hp \in HeapType /\ hd \in [DOMAIN F -> Pointers]
      /\ \A q \in DOMAIN F : hd[q] = Item(F[q], 1)
  BY DEF World
<1>2. c \in Seq(Entries(hp)) /\ F = [q \in DOMAIN F |-> F[q]] /\ Len(c) \in Nat
  BY <1>1 DEF Lists
<1>3. m \in 1..Len(c)
  OBVIOUS
<1> HIDE DEF c
<1>4. x \in Seq(Entries(hp)) /\ Len(x) = Len(c) - 1 /\ \A i \in 1..(Len(c) - 1) : x[i] = IF i < m THEN c[i] ELSE c[i + 1]
  BY <1>2, <1>3, CutIs
<1> HIDE DEF x
<1>5. IsCut(x, c, m)
  BY <1>2, <1>3, <1>4 DEF IsCut
<1>6. Listed(F, b, x, G)
  BY <1>2, ListedIs
<1>7. CutAt(F, b, m, G)
  BY <1>5, <1>6 DEF Listed, CutAt, c
<1>8. Apart(G)
  BY <1>1, <1>7, ApartCut
<1>9. \A i \in 1..Len(c) : c[i] \in Entries(hp) /\ hp[c[i]].next \in Pointers /\ hp[c[i]].next = Item(c, i + 1)
  <2> SUFFICES ASSUME NEW i \in 1..Len(c) PROVE c[i] \in Entries(hp) /\ hp[c[i]].next \in Pointers /\ hp[c[i]].next = Item(c, i + 1)
    OBVIOUS
  <2>1. c[i] \in Entries(hp)
    BY <1>2
  <2>2. hp[c[i]].next \in Pointers
    BY <1>1, <2>1, LinksType DEF EntryType
  <2>3. hp[c[i]].next = Item(c, i + 1)
    BY <1>1 DEF Follows, c
  <2> QED BY <2>1, <2>2, <2>3
<1>10. CASE m = 1
  <2>1. gp = hp /\ gd = [hd EXCEPT ![b] = hp[c[1]].next]
    BY <1>10 DEF CutLinks, c
  <2>2. Follows(gp, G)
    <3>1. IF m = 1 THEN gp = hp ELSE Relinked(hp, gp, F[b][m - 1], Item(F[b], m + 1))
      BY <1>10, <2>1
    <3> QED BY <1>1, <1>7, <3>1, FollowsCut
  <2>3. hp[c[1]].next \in Pointers /\ hp[c[1]].next = Item(c, 1 + 1)
    BY <1>3, <1>9, <1>10
  <2>4. Item(x, 1) = Item(c, 1 + 1)
    BY <1>5, <1>10, CutItems
  <2>5. gd \in [DOMAIN G -> Pointers] /\ \A q \in DOMAIN G : gd[q] = Item(G[q], 1)
    BY <1>1, <1>6, <2>1, <2>3, <2>4 DEF Listed
  <2>6. Lists(gp, G)
    BY <1>1, <1>4, <2>1, ListsListed
  <2> QED BY <1>1, <1>8, <2>1, <2>2, <2>5, <2>6 DEF World, x, c
<1>11. CASE m # 1
  <2>1. gd = hd /\ gp = [hp EXCEPT ![c[m - 1]].next = hp[c[m]].next] /\ m - 1 \in 1..Len(c)
    BY <1>2, <1>3, <1>11 DEF CutLinks, c
  <2>2. c[m - 1] \in Entries(hp) /\ hp[c[m]].next \in Pointers /\ hp[c[m]].next = Item(c, m + 1)
    BY <1>3, <1>9, <2>1
  <2>3. NextSet(hp, c[m - 1], hp[c[m]].next, gp)
    BY <1>1, <2>1, <2>2, NextIsSet
  <2>4. gp \in HeapType /\ Entries(gp) = Entries(hp)
    BY <2>3 DEF NextSet, SameKeys
  <2>5. Relinked(hp, gp, c[m - 1], Item(c, m + 1))
    BY <2>2, <2>3 DEF NextSet, Relinked
  <2>6. Follows(gp, G)
    <3>1. IF m = 1 THEN gp = hp ELSE Relinked(hp, gp, F[b][m - 1], Item(F[b], m + 1))
      BY <1>11, <2>5 DEF c
    <3> QED BY <1>1, <1>7, <3>1, FollowsCut
  <2>7. Item(x, 1) = Item(c, 1)
    <3>1. 1 < m
      BY <1>2, <1>3, <1>11
    <3> QED BY <1>5, <3>1, CutItems
  <2>8. gd \in [DOMAIN G -> Pointers] /\ \A q \in DOMAIN G : gd[q] = Item(G[q], 1)
    BY <1>1, <1>6, <2>1, <2>7 DEF Listed, c
  <2>9. Lists(gp, G)
    BY <1>1, <1>4, <2>4, ListsListed
  <2> QED BY <1>8, <2>4, <2>6, <2>8, <2>9 DEF World, x, c
<1> QED BY <1>10, <1>11

\* The list b gets the entry e at its end.
AppendLinks(hp, hd, F, b, e, gp, gd) ==
  IF hd[b] = Nil THEN gp = hp /\ gd = [hd EXCEPT ![b] = e]
  ELSE gd = hd /\ gp = [hp EXCEPT ![Last(F[b])].next = e]

LEMMA WorldAppend ==
  ASSUME NEW hp, NEW hd, NEW F, World(hp, hd, F), NEW b \in DOMAIN F, NEW e \in Entries(hp), hp[e].next = Nil,
         \A q \in DOMAIN F : \A i \in 1..Len(F[q]) : F[q][i] # e,
         NEW gp, NEW gd, AppendLinks(hp, hd, F, b, e, gp, gd)
  PROVE  World(gp, gd, [F EXCEPT ![b] = Append(F[b], e)])
<1> DEFINE c == F[b]
           x == Append(c, e)
           G == [F EXCEPT ![b] = x]
<1>1. /\ Lists(hp, F) /\ Follows(hp, F) /\ Apart(F) /\ hp \in HeapType /\ hd \in [DOMAIN F -> Pointers]
      /\ \A q \in DOMAIN F : hd[q] = Item(F[q], 1)
  BY DEF World
<1>2. c \in Seq(Entries(hp)) /\ F = [q \in DOMAIN F |-> F[q]] /\ Len(c) \in Nat
  BY <1>1 DEF Lists
<1>3. (hd[b] = Nil <=> c = <<>>) /\ hd[b] = Item(c, 1)
  <2>1. ListAt(hp, hd[b], c)
    BY WorldIs
  <2> QED BY <2>1 DEF ListAt
<1> HIDE DEF c
<1>4. x \in Seq(Entries(hp)) /\ Len(x) = Len(c) + 1 /\ x[Len(c) + 1] = e /\ \A i \in 1..Len(c) : x[i] = c[i]
  BY <1>2
<1> HIDE DEF x
<1>5. IsMore(x, c, e)
  BY <1>2, <1>4 DEF IsMore
<1>6. Listed(F, b, x, G)
  BY <1>2, ListedIs
<1>7. AddedTo(F, b, e, G)
  BY <1>5, <1>6 DEF Listed, AddedTo, c
<1>8. Apart(G)
  BY <1>1, <1>7, ApartAdded
<1>9. e \in Pointers
  BY <1>1, LinksType, PointersAre
<1>10. CASE c = <<>>
  <2>1. gp = hp /\ gd = [hd EXCEPT ![b] = e]
    BY <1>3, <1>10 DEF AppendLinks
  <2>2. Follows(gp, G)
    <3>1. IF F[b] = <<>> THEN gp = hp ELSE Relinked(hp, gp, F[b][Len(F[b])], e)
      BY <1>10, <2>1 DEF c
    <3> QED BY <1>1, <1>7, <3>1, FollowsAdded
  <2>3. Item(x, 1) = e
    <3>1. Len(c) = 0
      BY <1>10
    <3> QED BY <1>4, <3>1 DEF Item
  <2>4. gd \in [DOMAIN G -> Pointers] /\ \A q \in DOMAIN G : gd[q] = Item(G[q], 1)
    BY <1>1, <1>6, <1>9, <2>1, <2>3 DEF Listed
  <2>5. Lists(gp, G)
    BY <1>1, <1>4, <2>1, ListsListed
  <2> QED BY <1>1, <1>8, <2>1, <2>2, <2>4, <2>5 DEF World, x, c
<1>11. CASE c # <<>>
  <2>1. gd = hd /\ gp = [hp EXCEPT ![Last(c)].next = e]
    BY <1>3, <1>11 DEF AppendLinks, c
  <2>2. Len(c) \in 1..Len(c) /\ Last(c) = c[Len(c)] /\ c[Len(c)] \in Entries(hp)
    <3>1. Len(c) # 0
      BY <1>2, <1>11
    <3>2. Len(c) \in 1..Len(c)
      BY <1>2, <3>1
    <3> QED BY <1>2, <3>2 DEF Last
  <2>3. NextSet(hp, c[Len(c)], e, gp)
    BY <1>1, <1>9, <2>1, <2>2, NextIsSet
  <2>4. gp \in HeapType /\ Entries(gp) = Entries(hp)
    BY <2>3 DEF NextSet, SameKeys
  <2>5. Relinked(hp, gp, c[Len(c)], e)
    BY <2>3 DEF NextSet, Relinked
  <2>6. Follows(gp, G)
    <3>1. IF F[b] = <<>> THEN gp = hp ELSE Relinked(hp, gp, F[b][Len(F[b])], e)
      BY <1>11, <2>5 DEF c
    <3> QED BY <1>1, <1>7, <3>1, FollowsAdded
  <2>7. Item(x, 1) = Item(c, 1)
    <3>1. 1 \in 1..Len(c) /\ 1 \in 1..Len(x)
      BY <1>2, <1>4, <2>2
    <3> QED BY <1>4, <3>1 DEF Item
  <2>8. gd \in [DOMAIN G -> Pointers] /\ \A q \in DOMAIN G : gd[q] = Item(G[q], 1)
    BY <1>1, <1>3, <1>6, <2>1, <2>7 DEF Listed
  <2>9. Lists(gp, G)
    BY <1>1, <1>4, <2>4, ListsListed
  <2> QED BY <1>8, <2>4, <2>6, <2>8, <2>9 DEF World, x, c
<1> QED BY <1>10, <1>11

-----------------------------------------------------------------------------
(***************************************************************************)
(* The buckets of both arrays, and the values that HashTable sees in them. *)
(***************************************************************************)
Shaped(t) ==
  /\ t \in TableType /\ t.table \in [0..(t.size - 1) -> Pointers]
  /\ t.rehashingTbl \in [0..(t.rehashingSize - 1) -> Pointers]

\* Bucket i of the new array goes by the name t.size + i.
Names(t) == 0..(t.size + t.rehashingSize - 1)

\* The heads of the buckets, by their names.
Hd(t) == [b \in Names(t) |-> IF b < t.size THEN t.table[b] ELSE t.rehashingTbl[b - t.size]]

\* The bucket that a key belongs to.
Belongs(t, b, k) == IF b < t.size THEN Hash(k, t.size) = b ELSE t.size + Hash(k, t.rehashingSize) = b

\* Every entry is in the bucket of its key.
Placed(hp, t, F) == \A b \in Names(t) : \A i \in 1..Len(F[b]) : Belongs(t, b, hp[F[b][i]].key)

\* The buckets of t lead to the lists F, and every entry is where it belongs.
Sorted(hp, t, F) == World(hp, Hd(t), F) /\ Placed(hp, t, F)

\* The chains of t are lists.
Ordered(hp, t) == \E F : Sorted(hp, t, F)

\* The values of every key in the old array, and in the new one.
Olds(hp, t) == ValuesIn(hp, t.table, t.size)
News(hp, t) == ValuesIn(hp, t.rehashingTbl, t.rehashingSize)

\* The bucket of k in the new array.
NameOf(t, k) == t.size + Hash(k, t.rehashingSize)

\* The heads of a table of the right shape.
HeadsHave(t) ==
  /\ t.size \in Nat \ {0} /\ t.rehashingSize \in Nat
  /\ Hd(t) \in [Names(t) -> Pointers]
  /\ \A i \in 0..(t.size - 1) : i \in Names(t) /\ Hd(t)[i] = t.table[i]
  /\ \A i \in 0..(t.rehashingSize - 1) :
       t.size + i \in Names(t) /\ t.size + i >= t.size /\ Hd(t)[t.size + i] = t.rehashingTbl[i]
  /\ \A b \in Names(t) : b \in 0..(t.size - 1) \/ b - t.size \in 0..(t.rehashingSize - 1)

LEMMA HeadsAre ==
  ASSUME NEW t, Shaped(t)
  PROVE  HeadsHave(t)
<1>1. t.size \in Nat \ {0} /\ t.rehashingSize \in Nat
  BY DEF Shaped, TableType
<1>2. \A b \in Names(t) : b \in Int /\ (b \in 0..(t.size - 1) \/ b - t.size \in 0..(t.rehashingSize - 1))
  BY <1>1 DEF Names
<1>3. \A b \in Names(t) : (b < t.size => b \in 0..(t.size - 1)) /\ (~(b < t.size) => b - t.size \in 0..(t.rehashingSize - 1))
  BY <1>1 DEF Names
<1>4. Hd(t) \in [Names(t) -> Pointers]
  BY <1>3 DEF Hd, Shaped
<1>5. \A i \in 0..(t.size - 1) : i \in Names(t) /\ i < t.size
  BY <1>1 DEF Names
<1>6. \A i \in 0..(t.rehashingSize - 1) : t.size + i \in Names(t) /\ ~(t.size + i < t.size) /\ (t.size + i) - t.size = i
  BY <1>1 DEF Names
<1>7. \A i \in 0..(t.rehashingSize - 1) : t.size + i >= t.size
  BY <1>1
<1>8. \A i \in 0..(t.size - 1) : Hd(t)[i] = t.table[i]
  BY <1>5 DEF Hd
<1>9. \A i \in 0..(t.rehashingSize - 1) : Hd(t)[t.size + i] = t.rehashingTbl[i]
  BY <1>6 DEF Hd
<1> QED BY <1>1, <1>2, <1>4, <1>5, <1>6, <1>7, <1>8, <1>9 DEF HeadsHave

\* Where the entries of a key are.
Homes(t, k) ==
  /\ Hash(k, t.size) \in 0..(t.size - 1) /\ Hash(k, t.size) \in Names(t) /\ Hash(k, t.size) < t.size
  /\ t.rehashingSize # 0 => /\ Hash(k, t.rehashingSize) \in 0..(t.rehashingSize - 1)
                            /\ NameOf(t, k) \in Names(t) /\ ~(NameOf(t, k) < t.size)

LEMMA HomesAre ==
  ASSUME NEW t, Shaped(t), NEW k \in Keys
  PROVE  Homes(t, k)
<1>1. t.size \in Nat \ {0} /\ t.rehashingSize \in Nat
  BY DEF Shaped, TableType
<1>2. HeadsHave(t)
  BY HeadsAre
<1>3. Hash(k, t.size) \in 0..(t.size - 1)
  BY <1>1, HashType
<1>4. t.rehashingSize # 0 => Hash(k, t.rehashingSize) \in 0..(t.rehashingSize - 1)
  BY <1>1, HashType
<1>5. Hash(k, t.size) < t.size
  BY <1>1, <1>3
<1>6. t.rehashingSize # 0 => NameOf(t, k) \in Names(t) /\ NameOf(t, k) >= t.size
  BY <1>2, <1>4 DEF HeadsHave, NameOf
<1>7. t.rehashingSize # 0 => ~(NameOf(t, k) < t.size)
  BY <1>1, <1>4 DEF NameOf
<1>8. Hash(k, t.size) \in Names(t)
  BY <1>2, <1>3 DEF HeadsHave
<1> QED BY <1>3, <1>4, <1>5, <1>6, <1>7, <1>8 DEF Homes

\* The values of k in both arrays.
ValuesShown(hp, t, F, k) ==
  /\ Olds(hp, t)[k] = ValuesOn(hp, F[Hash(k, t.size)], k)
  /\ IF t.rehashingSize = 0 THEN News(hp, t)[k] = <<>> ELSE News(hp, t)[k] = ValuesOn(hp, F[NameOf(t, k)], k)

LEMMA ValuesAre ==
  ASSUME NEW t, Shaped(t), NEW hp, NEW F, Sorted(hp, t, F), NEW k \in Keys
  PROVE  ValuesShown(hp, t, F, k)
<1>1. HeadsHave(t)
  BY HeadsAre
<1>2. World(hp, Hd(t), F) /\ DOMAIN F = Names(t)
  BY <1>1 DEF Sorted, World, HeadsHave
<1>3. Homes(t, k)
  BY HomesAre
<1>4. Chain(hp, t.table[Hash(k, t.size)]) = F[Hash(k, t.size)]
  <2>1. Chain(hp, Hd(t)[Hash(k, t.size)]) = F[Hash(k, t.size)]
    BY <1>2, <1>3, WorldChain DEF Homes
  <2> QED BY <1>1, <1>3, <2>1 DEF HeadsHave, Homes
<1>5. ASSUME t.rehashingSize # 0 PROVE Chain(hp, t.rehashingTbl[Hash(k, t.rehashingSize)]) = F[NameOf(t, k)]
  <2>1. Chain(hp, Hd(t)[NameOf(t, k)]) = F[NameOf(t, k)]
    BY <1>2, <1>3, <1>5, WorldChain DEF Homes
  <2>2. Hd(t)[NameOf(t, k)] = t.rehashingTbl[Hash(k, t.rehashingSize)]
    BY <1>1, <1>3, <1>5 DEF HeadsHave, Homes, NameOf
  <2> QED BY <2>1, <2>2
<1>6. Olds(hp, t)[k] = ValuesOn(hp, Chain(hp, t.table[Hash(k, t.size)]), k)
  <2>1. t.size # 0
    BY <1>1 DEF HeadsHave
  <2> QED BY <2>1 DEF Olds, ValuesIn
<1>7. News(hp, t)[k] = IF t.rehashingSize = 0 THEN <<>> ELSE ValuesOn(hp, Chain(hp, t.rehashingTbl[Hash(k, t.rehashingSize)]), k)
  BY DEF News, ValuesIn
<1> QED BY <1>4, <1>5, <1>6, <1>7 DEF ValuesShown

\* A chain that is moved is turned round.
PushesBack(x, y, v) == Table!Backwards(<<v>> \o x) \o y = Table!Backwards(x) \o (<<v>> \o y)

LEMMA BackwardsPush ==
  ASSUME NEW S, NEW x \in Seq(S), NEW y \in Seq(S), NEW v \in S
  PROVE  PushesBack(x, y, v)
<1> DEFINE p == <<v>> \o x
           q == <<v>> \o y
           a == Table!Backwards(p)
           b == Table!Backwards(x)
<1>1. p \in Seq(S) /\ Len(p) = Len(x) + 1 /\ p[1] = v /\ \A i \in 1..Len(x) : p[i + 1] = x[i]
  OBVIOUS
<1>2. q \in Seq(S) /\ Len(q) = Len(y) + 1 /\ q[1] = v /\ \A i \in 1..Len(y) : q[i + 1] = y[i]
  OBVIOUS
<1>3. Len(x) \in Nat /\ Len(y) \in Nat
  OBVIOUS
<1> HIDE DEF p, q
<1>4. a \in Seq(S) /\ Len(a) = Len(x) + 1 /\ \A i \in 1..(Len(x) + 1) : a[i] = p[Len(x) + 1 + 1 - i]
  <2>1. \A i \in 1..Len(p) : Len(p) + 1 - i \in 1..Len(p)
    BY <1>1, <1>3
  <2>2. a \in [1..Len(p) -> S]
    BY <1>1, <2>1 DEF Table!Backwards
  <2>3. a \in Seq(S) /\ Len(a) = Len(p)
    BY <1>1, <1>3, <2>2
  <2> QED BY <1>1, <2>3 DEF Table!Backwards
<1>5. b \in Seq(S) /\ Len(b) = Len(x) /\ \A i \in 1..Len(x) : b[i] = x[Len(x) + 1 - i]
  <2>1. \A i \in 1..Len(x) : Len(x) + 1 - i \in 1..Len(x)
    BY <1>3
  <2>2. b \in [1..Len(x) -> S]
    BY <2>1 DEF Table!Backwards
  <2>3. b \in Seq(S) /\ Len(b) = Len(x)
    BY <1>3, <2>2
  <2> QED BY <2>3 DEF Table!Backwards
<1> HIDE DEF a, b
<1> DEFINE X == Len(x)
           Y == Len(y)
<1>6. /\ a \o y \in Seq(S) /\ Len(a \o y) = Len(a) + Len(y)
      /\ \A i \in 1..(Len(a) + Len(y)) : (a \o y)[i] = IF i <= Len(a) THEN a[i] ELSE y[i - Len(a)]
  <2>1. a \in Seq(S)
    BY <1>4
  <2> QED BY <2>1, ConcatProperties
<1>12. Len(a) = X + 1 /\ Len(b) = X /\ Len(q) = Y + 1 /\ X \in Nat /\ Y \in Nat /\ X + (Y + 1) = X + 1 + Y
  BY <1>2, <1>3, <1>4, <1>5
<1>9. /\ b \o q \in Seq(S) /\ Len(b \o q) = Len(b) + Len(q)
      /\ \A i \in 1..(Len(b) + Len(q)) : (b \o q)[i] = IF i <= Len(b) THEN b[i] ELSE q[i - Len(b)]
  <2>1. b \in Seq(S) /\ q \in Seq(S)
    BY <1>2, <1>5
  <2> QED BY <2>1, ConcatProperties
<1> DEFINE l == a \o y
           r == b \o q
<1>10. /\ l \in Seq(S) /\ Len(l) = X + 1 + Y /\ X \in Nat /\ Y \in Nat
       /\ \A i \in 1..(X + 1 + Y) : l[i] = IF i <= X + 1 THEN a[i] ELSE y[i - (X + 1)]
  BY <1>6, <1>12
<1>11. /\ r \in Seq(S) /\ Len(r) = X + 1 + Y
       /\ \A i \in 1..(X + 1 + Y) : r[i] = IF i <= X THEN b[i] ELSE q[i - X]
  BY <1>9, <1>12
<1> HIDE DEF l, r
<1>7. ASSUME NEW i \in 1..(X + 1 + Y) PROVE l[i] = r[i]
  <2>1. CASE i <= X
    <3>1. i \in 1..X /\ X + 1 - i \in 1..X /\ (X + 1 - i) + 1 = X + 1 + 1 - i /\ i \in 1..(X + 1) /\ i <= X + 1
      BY <1>3, <2>1
    <3>2. l[i] = a[i] /\ r[i] = b[i]
      BY <1>10, <1>11, <2>1, <3>1
    <3>3. a[i] = p[X + 1 + 1 - i] /\ b[i] = x[X + 1 - i]
      BY <1>4, <1>5, <3>1
    <3>4. p[(X + 1 - i) + 1] = x[X + 1 - i]
      BY <1>1, <3>1
    <3> QED BY <3>1, <3>2, <3>3, <3>4
  <2>2. CASE i = X + 1
    <3>1. ~(i <= X) /\ i <= X + 1 /\ i - X = 1 /\ i \in 1..(X + 1) /\ X + 1 + 1 - i = 1
      BY <1>3, <2>2
    <3>2. l[i] = a[i] /\ r[i] = q[1]
      BY <1>10, <1>11, <3>1
    <3>3. a[i] = p[1]
      BY <1>4, <3>1
    <3> QED BY <1>1, <1>2, <3>2, <3>3
  <2>3. CASE i > X + 1
    <3>1. i - X - 1 \in 1..Y /\ i - (X + 1) = i - X - 1 /\ i - X = (i - X - 1) + 1 /\ ~(i <= X) /\ ~(i <= X + 1)
      BY <1>3, <2>3
    <3>2. l[i] = y[i - (X + 1)]
      BY <1>10, <3>1
    <3>3. r[i] = q[i - X]
      BY <1>11, <3>1
    <3>4. q[(i - X - 1) + 1] = y[i - X - 1]
      BY <1>2, <3>1
    <3> QED BY <3>1, <3>2, <3>3, <3>4
  <2> QED BY <1>3, <2>1, <2>2, <2>3
<1>8. l = r
  <2>1. l = [i \in 1..Len(l) |-> l[i]] /\ r = [i \in 1..Len(r) |-> r[i]]
    BY <1>10, <1>11
  <2> QED BY <1>7, <1>10, <1>11, <2>1
<1> QED BY <1>8 DEF l, r, a, b, p, q, PushesBack

-----------------------------------------------------------------------------
(***************************************************************************)
(* The inner loop of rehashStep.                                           *)
(***************************************************************************)
\* A pass takes the entry e from the bucket that is being moved.
Pass(hp, t, gp, g, e, i) ==
  /\ Shaped(t) /\ t.rehashingIdx \in 0..(t.size - 1) /\ t.rehashingSize \in Nat \ {0}
  /\ e = t.table[t.rehashingIdx] /\ e # Nil /\ i = Hash(hp[e].key, t.rehashingSize)
  /\ gp = [hp EXCEPT ![e].next = t.rehashingTbl[i]]
  /\ Changed(t, [t.table EXCEPT ![t.rehashingIdx] = hp[e].next], [t.rehashingTbl EXCEPT ![i] = e], t.count, g)

\* Tables of one shape.
SameShape(t, g) ==
  /\ Shaped(g) /\ g.size = t.size /\ g.rehashingSize = t.rehashingSize /\ g.rehashingIdx = t.rehashingIdx
  /\ Names(g) = Names(t) /\ g.count = t.count

\* The same entries with the same contents.
SameData(hp, gp) ==
  /\ hp \in HeapType /\ gp \in HeapType /\ Entries(gp) = Entries(hp)
  /\ \A p \in Entries(hp) : gp[p].key = hp[p].key /\ gp[p].val = hp[p].val

\* The lists before and after a pass.
Shifted(hp, t, e, b, F, G) ==
  LET a == t.rehashingIdx
  IN /\ a \in Names(t) /\ b \in Names(t) /\ a # b /\ a < t.size /\ ~(b < t.size)
     /\ DOMAIN F = Names(t) /\ DOMAIN G = Names(t)
     /\ \A q \in Names(t) : F[q] \in Seq(Entries(hp)) /\ G[q] \in Seq(Entries(hp))
     /\ e \in Entries(hp) /\ F[a] = <<e>> \o G[a] /\ G[b] = <<e>> \o F[b]
     /\ \A q \in Names(t) : q # a /\ q # b => G[q] = F[q]
     /\ Hash(hp[e].key, t.size) = a /\ NameOf(t, hp[e].key) = b

\* The head e of the list a goes to the front of b.
Pushed(F, a, b, e) == [F EXCEPT ![a] = Tail(@), ![b] = <<e>> \o @]

\* The name of bucket i of the new array.
PassBucket(t, i) == t.size + i

\* What a pass does to the links makes G of F.
MoveLinks(hp, hd, F, a, b, e, gp, gd, G) ==
  /\ gp = [hp EXCEPT ![e].next = hd[b]] /\ gd = [hd EXCEPT ![a] = hp[e].next, ![b] = e]
  /\ G = [F EXCEPT ![a] = Tail(@), ![b] = <<e>> \o @]

LEMMA WorldMoves ==
  ASSUME NEW hp, NEW hd, NEW F, World(hp, hd, F), NEW a \in DOMAIN F, NEW b \in DOMAIN F, a # b,
         NEW e, e = hd[a], e # Nil, NEW gp, NEW gd, NEW G, MoveLinks(hp, hd, F, a, b, e, gp, gd, G)
  PROVE  World(gp, gd, G)
<1>1. /\ gp = [hp EXCEPT ![e].next = hd[b]] /\ gd = [hd EXCEPT ![a] = hp[e].next, ![b] = e]
      /\ G = [F EXCEPT ![a] = Tail(@), ![b] = <<e>> \o @]
  BY DEF MoveLinks
<1> QED BY <1>1, WorldMove

LEMMA PassTypes ==
  ASSUME NEW hp, NEW t, NEW gp, NEW g, NEW e, NEW i, NEW F, Pass(hp, t, gp, g, e, i), Sorted(hp, t, F)
  PROVE  /\ HeadsHave(t) /\ World(hp, Hd(t), F) /\ DOMAIN F = Names(t)
         /\ e \in Entries(hp) /\ hp[e].key \in Keys /\ hp[e].next \in Pointers
         /\ t.rehashingIdx \in Names(t) /\ t.rehashingIdx < t.size /\ i \in 0..(t.rehashingSize - 1)
         /\ Hd(t)[t.rehashingIdx] = e /\ Hd(t)[PassBucket(t, i)] = t.rehashingTbl[i]
         /\ PassBucket(t, i) \in Names(t) /\ ~(PassBucket(t, i) < t.size) /\ t.rehashingTbl[i] \in Pointers
         /\ Hash(hp[e].key, t.size) = t.rehashingIdx /\ NameOf(t, hp[e].key) = PassBucket(t, i)
         /\ e = F[t.rehashingIdx][1] /\ F[t.rehashingIdx] # <<>>
<1> DEFINE a == t.rehashingIdx
<1>1. HeadsHave(t)
  BY HeadsAre DEF Pass
<1>2. World(hp, Hd(t), F) /\ DOMAIN F = Names(t) /\ hp \in HeapType
  BY <1>1 DEF Sorted, World, HeadsHave
<1>3. a \in 0..(t.size - 1) /\ t.size \in Nat \ {0} /\ t.rehashingSize \in Nat \ {0}
  BY <1>1 DEF Pass, HeadsHave
<1>4. a \in Names(t) /\ a < t.size /\ Hd(t)[a] = e /\ e # Nil
  <2>1. a < t.size
    BY <1>3
  <2> QED BY <1>1, <1>3, <2>1 DEF Pass, HeadsHave
<1>5. ListAt(hp, e, F[a])
  BY <1>2, <1>4, WorldIs
<1>6. F[a] # <<>> /\ e = F[a][1] /\ 1 \in 1..Len(F[a]) /\ e \in Entries(hp)
  <2>1. F[a] # <<>> /\ e = F[a][1] /\ 1 \in 1..Len(F[a])
    BY <1>4, <1>5 DEF ListAt
  <2> QED BY <1>5, <2>1 DEF ListAt
<1>7. hp[e].key \in Keys /\ hp[e].next \in Pointers
  BY <1>2, <1>6, LinksType DEF EntryType
<1>8. Belongs(t, a, hp[e].key)
  BY <1>4, <1>6 DEF Sorted, Placed
<1>9. Hash(hp[e].key, t.size) = a
  BY <1>4, <1>8 DEF Belongs
<1>10. Homes(t, hp[e].key)
  BY <1>7, HomesAre, SMTT(30) DEF Pass
<1>11. i \in 0..(t.rehashingSize - 1) /\ PassBucket(t, i) = NameOf(t, hp[e].key) /\ ~(NameOf(t, hp[e].key) < t.size)
  BY <1>3, <1>10 DEF Pass, Homes, PassBucket, NameOf
<1>12. PassBucket(t, i) \in Names(t) /\ Hd(t)[PassBucket(t, i)] = t.rehashingTbl[i]
  BY <1>1, <1>11 DEF HeadsHave, PassBucket
<1>13. t.rehashingTbl[i] \in Pointers
  BY <1>1, <1>12 DEF HeadsHave
<1> QED BY <1>1, <1>2, <1>4, <1>6, <1>7, <1>9, <1>11, <1>12, <1>13

LEMMA PassHeads ==
  ASSUME NEW hp, NEW t, NEW gp, NEW g, NEW e, NEW i, NEW F, Pass(hp, t, gp, g, e, i), Sorted(hp, t, F)
  PROVE  SameShape(t, g) /\ Hd(g) = [Hd(t) EXCEPT ![t.rehashingIdx] = hp[e].next, ![PassBucket(t, i)] = e]
<1> DEFINE a == t.rehashingIdx
           b == PassBucket(t, i)
           u == [t.table EXCEPT ![a] = hp[e].next]
           w == [t.rehashingTbl EXCEPT ![i] = e]
           hd == [Hd(t) EXCEPT ![a] = hp[e].next, ![b] = e]
<1>1. /\ HeadsHave(t) /\ hp[e].next \in Pointers /\ e \in Pointers
      /\ a \in Names(t) /\ i \in 0..(t.rehashingSize - 1) /\ b \in Names(t) /\ ~(b < t.size) /\ a < t.size
  <2>1. e \in Entries(hp) /\ hp \in HeapType
    BY PassTypes DEF Sorted, World
  <2>2. e \in Pointers
    BY <2>1, LinksType, PointersAre
  <2> QED BY <2>2, PassTypes
<1>2. a \in 0..(t.size - 1) /\ Shaped(t) /\ Changed(t, u, w, t.count, g)
  BY DEF Pass
<1>3. u \in [0..(t.size - 1) -> Pointers] /\ w \in [0..(t.rehashingSize - 1) -> Pointers]
  BY <1>1, <1>2 DEF Shaped
<1>4. SameShape(t, g)
  BY <1>2, <1>3 DEF SameShape, Shaped, Changed, Names
<1>5. g.table = u /\ g.rehashingTbl = w /\ g.size = t.size /\ Names(g) = Names(t)
  BY <1>2, <1>4 DEF Changed, SameShape
<1>6. HeadsHave(g)
  BY <1>4, HeadsAre DEF SameShape
<1>7. \A j \in 0..(t.size - 1) : u[j] = IF j = a THEN hp[e].next ELSE t.table[j]
  BY <1>2 DEF Shaped
<1>8. \A j \in 0..(t.rehashingSize - 1) : w[j] = IF j = i THEN e ELSE t.rehashingTbl[j]
  BY <1>2 DEF Shaped
<1>9. Hd(t) \in [Names(t) -> Pointers] /\ Hd(g) \in [Names(t) -> Pointers] /\ hd \in [Names(t) -> Pointers]
      /\ \A q \in Names(t) : hd[q] = IF q = b THEN e ELSE IF q = a THEN hp[e].next ELSE Hd(t)[q]
  <2>1. Hd(t) \in [Names(t) -> Pointers] /\ Hd(g) \in [Names(t) -> Pointers]
    BY <1>1, <1>5, <1>6 DEF HeadsHave
  <2> HIDE DEF b
  <2> QED BY <1>1, <2>1
<1> HIDE DEF u, w, hd
<1>10. ASSUME NEW q \in Names(t) PROVE Hd(g)[q] = hd[q]
  <2>1. CASE q \in 0..(t.size - 1)
    <3>1. Hd(g)[q] = u[q] /\ Hd(t)[q] = t.table[q] /\ q # b
      BY <1>1, <1>5, <1>6, <2>1 DEF HeadsHave
    <3> QED BY <1>7, <1>9, <2>1, <3>1
  <2>2. CASE q - t.size \in 0..(t.rehashingSize - 1)
    <3> DEFINE j == q - t.size
    <3>1. t.size + j = q /\ q # a /\ (q = b <=> j = i) /\ j \in 0..(t.rehashingSize - 1)
      <4>1. t.size \in Nat /\ q \in Int /\ i \in Int /\ t.rehashingSize \in Nat
        BY <1>1 DEF HeadsHave, Names
      <4> QED BY <1>2, <2>2, <4>1 DEF PassBucket
    <3> HIDE DEF j
    <3>2. Hd(g)[t.size + j] = w[j] /\ Hd(t)[t.size + j] = t.rehashingTbl[j]
      <4>1. g.rehashingSize = t.rehashingSize
        BY <1>4 DEF SameShape
      <4> QED BY <1>1, <1>5, <1>6, <3>1, <4>1 DEF HeadsHave
    <3> QED BY <1>8, <1>9, <3>1, <3>2
  <2> QED BY <1>1, <2>1, <2>2 DEF HeadsHave
<1>11. Hd(g) = hd
  BY <1>9, <1>10
<1> QED BY <1>4, <1>11 DEF hd

LEMMA HeadAndTail ==
  ASSUME NEW S, NEW c \in Seq(S), c # <<>>
  PROVE  c = <<c[1]>> \o Tail(c)
<1> DEFINE x == Tail(c)
           d == <<c[1]>>
           y == d \o x
<1>1. x \in Seq(S) /\ Len(x) = Len(c) - 1 /\ \A i \in 1..Len(x) : x[i] = c[i + 1]
  BY HeadTailProperties
<1>2. Len(c) \in Nat \ {0} /\ c[1] \in S /\ c = [i \in 1..Len(c) |-> c[i]]
  OBVIOUS
<1>3. d \in Seq(S) /\ Len(d) = 1 /\ d[1] = c[1]
  BY <1>2
<1> HIDE DEF x, d
<1>4. y \in Seq(S) /\ Len(y) = Len(d) + Len(x) /\ \A i \in 1..(Len(d) + Len(x)) : y[i] = IF i <= Len(d) THEN d[i] ELSE x[i - Len(d)]
  <2>1. d \in Seq(S) /\ x \in Seq(S)
    BY <1>1, <1>3
  <2> QED BY <2>1, ConcatProperties
<1> HIDE DEF y
<1>5. Len(d) + Len(x) = Len(c)
  BY <1>1, <1>2, <1>3
<1>6. ASSUME NEW i \in 1..Len(c) PROVE y[i] = c[i]
  <2>1. CASE i = 1
    BY <1>3, <1>4, <1>5, <2>1
  <2>2. CASE i # 1
    <3>1. i - 1 \in 1..Len(x) /\ ~(i <= Len(d)) /\ (i - 1) + 1 = i /\ i - Len(d) = i - 1
      BY <1>1, <1>2, <1>3, <2>2
    <3>2. y[i] = x[i - 1]
      BY <1>4, <1>5, <3>1
    <3>3. x[i - 1] = c[(i - 1) + 1]
      BY <1>1, <3>1
    <3> QED BY <3>1, <3>2, <3>3
  <2> QED BY <2>1, <2>2
<1>7. y = [i \in 1..Len(c) |-> y[i]]
  BY <1>4, <1>5
<1>8. y = c
  BY <1>2, <1>6, <1>7
<1> QED BY <1>8 DEF y, x, d

LEMMA PassShifts ==
  ASSUME NEW hp, NEW t, NEW gp, NEW g, NEW e, NEW i, NEW F, Pass(hp, t, gp, g, e, i), Sorted(hp, t, F)
  PROVE  /\ World(gp, Hd(g), Pushed(F, t.rehashingIdx, PassBucket(t, i), e)) /\ SameData(hp, gp)
         /\ Shifted(hp, t, e, PassBucket(t, i), F, Pushed(F, t.rehashingIdx, PassBucket(t, i), e))
<1> DEFINE a == t.rehashingIdx
           b == PassBucket(t, i)
           G == Pushed(F, a, b, e)
<1>1. /\ World(hp, Hd(t), F) /\ DOMAIN F = Names(t) /\ e \in Entries(hp) /\ a \in Names(t) /\ b \in Names(t)
      /\ Hd(t)[a] = e /\ Hd(t)[b] = t.rehashingTbl[i] /\ a < t.size /\ ~(b < t.size)
      /\ Hash(hp[e].key, t.size) = a /\ NameOf(t, hp[e].key) = b /\ e = F[a][1] /\ F[a] # <<>>
      /\ t.rehashingTbl[i] \in Pointers
  BY PassTypes
<1>2. Hd(g) = [Hd(t) EXCEPT ![a] = hp[e].next, ![b] = e]
  BY PassHeads, SMTT(30)
<1>3. gp = [hp EXCEPT ![e].next = Hd(t)[b]] /\ e # Nil /\ a # b
  BY <1>1 DEF Pass
<1>4. World(gp, Hd(g), G)
  <2>1. G = [F EXCEPT ![a] = Tail(@), ![b] = <<e>> \o @]
    BY DEF Pushed
  <2>2. a \in DOMAIN F /\ b \in DOMAIN F /\ e = Hd(t)[a] /\ World(hp, Hd(t), F)
    BY <1>1
  <2>3. MoveLinks(hp, Hd(t), F, a, b, e, gp, Hd(g), G)
    BY <1>2, <1>3, <2>1 DEF MoveLinks
  <2> HIDE DEF b, a, G
  <2> QED BY <1>3, <2>2, <2>3, WorldMoves
<1>5. hp \in HeapType /\ F \in [Names(t) -> Seq(Entries(hp))]
  BY <1>1 DEF World, Lists
<1>6. SameData(hp, gp)
  <2>1. NextSet(hp, e, Hd(t)[b], gp)
    BY <1>1, <1>3, <1>5, NextIsSet
  <2> QED BY <1>5, <2>1 DEF NextSet, SameKeys, SameData
<1>7. /\ DOMAIN G = Names(t) /\ G[a] = Tail(F[a]) /\ G[b] = <<e>> \o F[b]
      /\ \A q \in Names(t) : q # a /\ q # b => G[q] = F[q]
  <2> HIDE DEF b
  <2> QED BY <1>1, <1>3, <1>5 DEF Pushed
<1>8. \A q \in Names(t) : G[q] \in Seq(Entries(hp))
  <2>1. DOMAIN G = Names(t) /\ Entries(gp) = Entries(hp) /\ G \in [DOMAIN G -> Seq(Entries(gp))]
    BY <1>4, <1>6, <1>7 DEF World, Lists, SameData
  <2> QED BY <2>1
<1>9. F[a] = <<e>> \o G[a]
  <2>1. F[a] \in Seq(Entries(hp))
    BY <1>1, <1>5
  <2>2. F[a] = <<F[a][1]>> \o Tail(F[a])
    BY <1>1, <2>1, HeadAndTail, SMTT(30)
  <2> QED BY <1>1, <1>7, <2>2
<1> HIDE DEF G, b
<1>10. Shifted(hp, t, e, b, F, G)
  BY <1>1, <1>3, <1>5, <1>7, <1>8, <1>9 DEF Shifted
<1> QED BY <1>4, <1>6, <1>10 DEF G, b

LEMMA PassPlaced ==
  ASSUME NEW hp, NEW t, NEW gp, NEW g, NEW e, NEW b, NEW F, NEW G, Shaped(t),
         Shifted(hp, t, e, b, F, G), SameData(hp, gp), SameShape(t, g), Placed(hp, t, F)
  PROVE  Placed(gp, g, G)
<1> DEFINE a == t.rehashingIdx
<1>1. /\ a \in Names(t) /\ b \in Names(t) /\ a # b /\ a < t.size /\ ~(b < t.size)
      /\ \A q \in Names(t) : F[q] \in Seq(Entries(hp)) /\ G[q] \in Seq(Entries(hp))
      /\ e \in Entries(hp) /\ F[a] = <<e>> \o G[a] /\ G[b] = <<e>> \o F[b]
      /\ \A q \in Names(t) : q # a /\ q # b => G[q] = F[q]
      /\ NameOf(t, hp[e].key) = b
  BY DEF Shifted
<1>2. Names(g) = Names(t) /\ \A q, k : Belongs(g, q, k) <=> Belongs(t, q, k)
  BY DEF SameShape, Belongs
<1> SUFFICES ASSUME NEW q \in Names(t), NEW i \in 1..Len(G[q]) PROVE Belongs(t, q, gp[G[q][i]].key)
  BY <1>2 DEF Placed
<1>3. G[q][i] \in Entries(hp)
  BY <1>1
<1>4. gp[G[q][i]].key = hp[G[q][i]].key
  BY <1>3 DEF SameData
<1>5. CASE q # a /\ q # b
  BY <1>1, <1>4, <1>5 DEF Placed
<1>6. CASE q = a
  <2>1. G[a] \in Seq(Entries(hp)) /\ i \in 1..Len(G[a]) /\ e \in Entries(hp)
    BY <1>1, <1>6
  <2> DEFINE c == G[a]
             d == <<e>> \o c
  <2>2. i + 1 \in 1..Len(d) /\ d[i + 1] = c[i]
    BY <2>1
  <2>3. d = F[a]
    BY <1>1
  <2> HIDE DEF d
  <2>4. Belongs(t, a, hp[F[a][i + 1]].key)
    BY <1>1, <2>2, <2>3 DEF Placed
  <2> QED BY <1>4, <1>6, <2>2, <2>3, <2>4
<1>7. CASE q = b
  <2>1. F[b] \in Seq(Entries(hp)) /\ i \in 1..Len(G[b]) /\ e \in Entries(hp)
    BY <1>1, <1>7
  <2> DEFINE c == F[b]
             d == <<e>> \o c
  <2>2. d = G[b] /\ i \in 1..Len(d)
    BY <1>1, <2>1
  <2>3. d[1] = e /\ (i # 1 => i - 1 \in 1..Len(c) /\ d[i] = c[i - 1])
    BY <2>1, <2>2
  <2> HIDE DEF d
  <2>4. CASE i = 1
    <3>1. Belongs(t, b, hp[e].key)
      BY <1>1 DEF Belongs, NameOf
    <3> QED BY <1>4, <1>7, <2>2, <2>3, <2>4, <3>1
  <2>5. CASE i # 1
    <3>1. i - 1 \in 1..Len(F[b]) /\ G[b][i] = F[b][i - 1]
      BY <2>2, <2>3, <2>5
    <3>2. Belongs(t, b, hp[F[b][i - 1]].key)
      BY <1>1, <3>1 DEF Placed
    <3> QED BY <1>4, <1>7, <3>1, <3>2
  <2> QED BY <2>4, <2>5
<1> QED BY <1>5, <1>6, <1>7

\* The chain that is being moved.
Waiting(hp, t) == Chain(hp, t.table[t.rehashingIdx])

LEMMA WaitingIs ==
  ASSUME NEW hp, NEW t, Shaped(t), NEW F, Sorted(hp, t, F), t.rehashingIdx \in 0..(t.size - 1)
  PROVE  /\ Waiting(hp, t) = F[t.rehashingIdx] /\ Len(F[t.rehashingIdx]) <= MaxEntries
         /\ F[t.rehashingIdx] \in Seq(Entries(hp))
         /\ t.table[t.rehashingIdx] = Nil <=> F[t.rehashingIdx] = <<>>
<1> DEFINE a == t.rehashingIdx
<1>1. HeadsHave(t)
  BY HeadsAre
<1>2. World(hp, Hd(t), F) /\ DOMAIN F = Names(t)
  BY <1>1 DEF Sorted, World, HeadsHave
<1>3. a \in DOMAIN F /\ Hd(t)[a] = t.table[a]
  BY <1>1, <1>2 DEF HeadsHave
<1>4. Chain(hp, Hd(t)[a]) = F[a] /\ Len(F[a]) <= MaxEntries
  BY <1>2, <1>3, WorldChain
<1>5. ListAt(hp, Hd(t)[a], F[a])
  BY <1>2, <1>3, WorldIs
<1> QED BY <1>3, <1>4, <1>5 DEF Waiting, ListAt

\* What the new array will have of k when the bucket that is being moved has moved.
Total(hp, t, k) == Table!Backwards(ValuesOn(hp, Waiting(hp, t), k)) \o News(hp, t)[k]

\* A pass leaves what the new array will have of each key, and the old array otherwise.
PassedOn(hp, t, gp, g) ==
  /\ \A k \in Keys : Total(gp, g, k) = Total(hp, t, k)
  /\ \A k \in Keys : Hash(k, t.size) # t.rehashingIdx => Olds(gp, g)[k] = Olds(hp, t)[k]

LEMMA SameValues ==
  ASSUME NEW hp, NEW gp, SameData(hp, gp), NEW c \in Seq(Entries(hp)), NEW k
  PROVE  ValuesOn(gp, c, k) = ValuesOn(hp, c, k)
<1>1. \A i \in 1..Len(c) : c[i] \in Entries(hp)
  OBVIOUS
<1>2. Alike(hp, c, gp, c, Len(c))
  BY <1>1 DEF Alike, SameData
<1> QED BY <1>2, ValuesFrame

LEMMA PassValues ==
  ASSUME NEW hp, NEW t, NEW gp, NEW g, NEW e, NEW b, NEW F, NEW G, Shaped(t), t.rehashingSize # 0,
         t.rehashingIdx \in 0..(t.size - 1),
         Shifted(hp, t, e, b, F, G), SameData(hp, gp), SameShape(t, g), Sorted(hp, t, F), Sorted(gp, g, G)
  PROVE  PassedOn(hp, t, gp, g)
<1> DEFINE a == t.rehashingIdx
<1>1. /\ a \in Names(t) /\ b \in Names(t) /\ a # b /\ a < t.size /\ ~(b < t.size)
      /\ \A q \in Names(t) : F[q] \in Seq(Entries(hp)) /\ G[q] \in Seq(Entries(hp))
      /\ e \in Entries(hp) /\ F[a] = <<e>> \o G[a] /\ G[b] = <<e>> \o F[b]
      /\ \A q \in Names(t) : q # a /\ q # b => G[q] = F[q]
      /\ NameOf(t, hp[e].key) = b /\ Hash(hp[e].key, t.size) = a
  BY DEF Shifted
<1>2. hp \in HeapType /\ Shaped(g) /\ g.size = t.size /\ g.rehashingSize = t.rehashingSize /\ g.rehashingIdx = a
  BY DEF SameData, SameShape
<1>3. Waiting(hp, t) = F[a] /\ Waiting(gp, g) = G[a]
  BY <1>2, WaitingIs
<1>4. \A q \in Names(t), k \in Keys : ValuesOn(gp, G[q], k) = ValuesOn(hp, G[q], k)
  BY <1>1, SameValues
<1> SUFFICES ASSUME NEW k \in Keys
             PROVE  /\ Total(gp, g, k) = Total(hp, t, k)
                    /\ Hash(k, t.size) # a => Olds(gp, g)[k] = Olds(hp, t)[k]
  BY DEF PassedOn
<1> DEFINE n == NameOf(t, k)
           r == Hash(k, t.size)
           X == ValuesOn(hp, G[a], k)
           Y == ValuesOn(hp, F[n], k)
           v == hp[e].val
<1>5. n \in Names(t) /\ ~(n < t.size) /\ r \in Names(t) /\ r < t.size
  BY HomesAre DEF Homes
<1>6. /\ Olds(hp, t)[k] = ValuesOn(hp, F[r], k) /\ News(hp, t)[k] = Y
      /\ Olds(gp, g)[k] = ValuesOn(hp, G[r], k) /\ News(gp, g)[k] = ValuesOn(hp, G[n], k)
  <2>1. ValuesShown(hp, t, F, k) /\ ValuesShown(gp, g, G, k)
    BY <1>2, ValuesAre
  <2>2. NameOf(g, k) = n /\ Hash(k, g.size) = r
    BY <1>2 DEF NameOf
  <2> QED BY <1>2, <1>4, <1>5, <2>1, <2>2 DEF ValuesShown
<1>7. X \in Seq(Vs) /\ Y \in Seq(Vs)
  BY <1>1, <1>2, <1>5, ValuesType
<1>8. v \in Vs
  BY <1>1, <1>2, LinksType DEF EntryType, Vs
<1>9. ValuesOn(hp, F[a], k) = IF hp[e].key = k THEN <<v>> \o X ELSE X
  <2>1. hp \in HeapType /\ G[a] \in Seq(Entries(hp)) /\ e \in Entries(hp)
    BY <1>1, <1>2
  <2>2. ValuesOn(hp, <<e>> \o G[a], k) = IF hp[e].key = k THEN <<v>> \o X ELSE X
    BY <2>1, ValuesPush
  <2> QED BY <1>1, <2>2
<1>10. ValuesOn(hp, G[b], k) = IF hp[e].key = k THEN <<v>> \o ValuesOn(hp, F[b], k) ELSE ValuesOn(hp, F[b], k)
  <2>1. hp \in HeapType /\ F[b] \in Seq(Entries(hp)) /\ e \in Entries(hp)
    BY <1>1, <1>2
  <2>2. ValuesOn(hp, <<e>> \o F[b], k) = IF hp[e].key = k THEN <<v>> \o ValuesOn(hp, F[b], k) ELSE ValuesOn(hp, F[b], k)
    BY <2>1, ValuesPush
  <2> QED BY <1>1, <2>2
<1>11. Total(hp, t, k) = Table!Backwards(ValuesOn(hp, F[a], k)) \o Y
  BY <1>3, <1>6 DEF Total
<1>12. Total(gp, g, k) = Table!Backwards(X) \o ValuesOn(hp, G[n], k)
  BY <1>1, <1>3, <1>4, <1>6 DEF Total
<1>13. n # a
  BY <1>1, <1>5
<1> HIDE DEF X, Y, n, r, v
<1>14. Total(gp, g, k) = Total(hp, t, k)
  <2>1. CASE hp[e].key = k
    <3>1. n = b
      <4>1. NameOf(t, hp[e].key) = NameOf(t, k)
        BY <2>1
      <4> QED BY <1>1, <4>1 DEF n
    <3>2. ValuesOn(hp, G[n], k) = <<v>> \o Y
      BY <1>10, <2>1, <3>1 DEF Y
    <3>3. Table!Backwards(<<v>> \o X) \o Y = Table!Backwards(X) \o (<<v>> \o Y)
      <4>1. PushesBack(X, Y, v)
        BY <1>7, <1>8, BackwardsPush
      <4> QED BY <4>1 DEF PushesBack
    <3> QED BY <1>9, <1>11, <1>12, <2>1, <3>2, <3>3
  <2>2. CASE hp[e].key # k
    <3>1. ValuesOn(hp, G[n], k) = Y
      <4>1. CASE n = b
        BY <1>10, <2>2, <4>1 DEF Y
      <4>2. CASE n # b
        BY <1>1, <1>5, <1>13, <4>2 DEF Y
      <4> QED BY <4>1, <4>2
    <3> QED BY <1>9, <1>11, <1>12, <2>2, <3>1
  <2> QED BY <2>1, <2>2
<1>15. r # a => Olds(gp, g)[k] = Olds(hp, t)[k]
  <2>1. r # b
    BY <1>1, <1>5
  <2> QED BY <1>1, <1>5, <1>6, <2>1
<1> QED BY <1>14, <1>15 DEF r

\* A pass of the loop.
LEMMA PassKeeps ==
  ASSUME NEW hp, NEW t, NEW gp, NEW g, NEW e, NEW i, Pass(hp, t, gp, g, e, i), Ordered(hp, t)
  PROVE  /\ Ordered(gp, g) /\ PassedOn(hp, t, gp, g) /\ SameShape(t, g) /\ SameData(hp, gp)
         /\ Len(Waiting(hp, t)) \in Nat \ {0} /\ Len(Waiting(gp, g)) = Len(Waiting(hp, t)) - 1
<1>1. PICK F : Sorted(hp, t, F)
  BY DEF Ordered
<1> DEFINE b == PassBucket(t, i)
           G == Pushed(F, t.rehashingIdx, b, e)
<1>2. World(gp, Hd(g), G) /\ SameData(hp, gp) /\ Shifted(hp, t, e, b, F, G) /\ SameShape(t, g)
  BY <1>1, PassShifts, PassHeads
<1>3. Shaped(t) /\ t.rehashingIdx \in 0..(t.size - 1) /\ t.rehashingSize # 0 /\ Placed(hp, t, F)
  BY <1>1 DEF Pass, Sorted
<1> HIDE DEF G, b
<1>4. Sorted(gp, g, G)
  BY <1>2, <1>3, PassPlaced DEF Sorted
<1>5. PassedOn(hp, t, gp, g)
  BY <1>1, <1>2, <1>3, <1>4, PassValues
<1>6. Waiting(hp, t) = F[t.rehashingIdx]
  BY <1>1, <1>3, WaitingIs
<1>7. Waiting(gp, g) = G[t.rehashingIdx]
  <2>1. Shaped(g) /\ g.rehashingIdx = t.rehashingIdx /\ g.size = t.size
    BY <1>2 DEF SameShape
  <2> QED BY <1>3, <1>4, <2>1, WaitingIs
<1>8. Len(F[t.rehashingIdx]) \in Nat \ {0} /\ Len(G[t.rehashingIdx]) = Len(F[t.rehashingIdx]) - 1
  <2> DEFINE c == G[t.rehashingIdx]
  <2>1. c \in Seq(Entries(hp)) /\ F[t.rehashingIdx] = <<e>> \o c /\ e \in Entries(hp)
    BY <1>2 DEF Shifted
  <2> HIDE DEF c
  <2>2. Len(<<e>> \o c) = Len(c) + 1 /\ Len(c) \in Nat
    BY <2>1
  <2> QED BY <2>1, <2>2 DEF c
<1> QED BY <1>2, <1>4, <1>5, <1>6, <1>7, <1>8 DEF Ordered

\* The table in the middle of the loop: what is left of the chain is in its bucket.
MidOf(t, m) == WithBoth(t, [t.table EXCEPT ![t.rehashingIdx] = m.entries], m.tbl, t.count)

\* The loop can begin: a bucket is there to be moved.
Ready(t) ==
  /\ Shaped(t) /\ t.rehashingIdx \in 0..(t.size - 1) /\ t.rehashingSize \in Nat \ {0}
  /\ t.size \in Nat /\ t.count \in Nat

\* What the loop has done so far, and how often it has still to go round.
Going(hp, t, m) ==
  /\ m.entries \in Pointers /\ m.tbl \in [0..(t.rehashingSize - 1) -> Pointers]
  /\ Ordered(m.heap, MidOf(t, m)) /\ SameData(hp, m.heap) /\ PassedOn(hp, t, m.heap, MidOf(t, m))

\* The rounds that are left suffice.
EndsBy(t, m, j) == m.entries = Nil \/ Len(Waiting(m.heap, MidOf(t, m))) + j <= MaxEntries

LEMMA MidIs ==
  ASSUME NEW t, Ready(t), NEW m, m.entries \in Pointers, m.tbl \in [0..(t.rehashingSize - 1) -> Pointers]
  PROVE  /\ Changed(t, [t.table EXCEPT ![t.rehashingIdx] = m.entries], m.tbl, t.count, MidOf(t, m))
         /\ SameShape(t, MidOf(t, m)) /\ Ready(MidOf(t, m)) /\ MidOf(t, m).table[t.rehashingIdx] = m.entries
<1> DEFINE u == [t.table EXCEPT ![t.rehashingIdx] = m.entries]
<1>1. t \in TableType /\ t.count \in Nat /\ t.size \in Nat /\ t.rehashingSize \in Nat
  BY DEF Ready, Shaped
<1>2. u \in [0..(t.size - 1) -> Pointers]
  BY DEF Ready, Shaped
<1>3. u \in Tables /\ m.tbl \in Tables
  BY <1>1, <1>2 DEF Tables
<1>4. Changed(t, u, m.tbl, t.count, MidOf(t, m))
  BY <1>1, <1>3, BothChanged DEF MidOf
<1>5. SameShape(t, MidOf(t, m))
  BY <1>2, <1>4 DEF SameShape, Shaped, Changed, Names
<1>6. u[t.rehashingIdx] = m.entries
  BY DEF Ready, Shaped
<1>7. MidOf(t, m).table[t.rehashingIdx] = m.entries
  BY <1>4, <1>6 DEF Changed
<1>8. Ready(MidOf(t, m))
  BY <1>5 DEF SameShape, Ready
<1> QED BY <1>4, <1>5, <1>7, <1>8

LEMMA MidStarts ==
  ASSUME NEW t, Ready(t), NEW m, m.tbl = t.rehashingTbl, m.entries = t.table[t.rehashingIdx]
  PROVE  MidOf(t, m) = t
<1>1. [t.table EXCEPT ![t.rehashingIdx] = m.entries] = t.table
  BY DEF Ready, Shaped
<1>2. t \in TableType
  BY DEF Ready, Shaped
<1> QED BY <1>1, <1>2 DEF MidOf, WithBoth, TableType

\* The entry at the head of the chain.
LEMMA WaitingHead ==
  ASSUME NEW hp, NEW t, Ready(t), Ordered(hp, t), t.table[t.rehashingIdx] # Nil,
         NEW e, e = t.table[t.rehashingIdx]
  PROVE  e \in Entries(hp) /\ e \in Pointers /\ hp[e].next \in Pointers /\ hp[e].key \in Keys /\ hp \in HeapType
<1>1. PICK F : Sorted(hp, t, F)
  BY DEF Ordered
<1>2. HeadsHave(t)
  BY HeadsAre DEF Ready
<1>3. World(hp, Hd(t), F) /\ t.rehashingIdx \in DOMAIN F /\ Hd(t)[t.rehashingIdx] = e
  BY <1>1, <1>2 DEF Sorted, World, HeadsHave, Ready
<1>4. ListAt(hp, e, F[t.rehashingIdx]) /\ hp \in HeapType
  BY <1>3, WorldIs DEF World
<1>5. e \in Entries(hp)
  BY <1>4 DEF ListAt
<1> QED BY <1>4, <1>5, LinksType, PointersAre DEF EntryType

LEMMA GoingPass ==
  ASSUME NEW hp, NEW t, Ready(t), NEW m, Going(hp, t, m), m.entries # Nil,
         NEW r, r = MoveEntry(m, t.rehashingSize)
  PROVE  /\ Pass(m.heap, MidOf(t, m), r.heap, MidOf(t, r), m.entries, Hash(m.heap[m.entries].key, t.rehashingSize))
         /\ r.entries \in Pointers /\ r.tbl \in [0..(t.rehashingSize - 1) -> Pointers]
<1> DEFINE g == MidOf(t, m)
           f == MidOf(t, r)
           e == m.entries
           i == Hash(m.heap[e].key, t.rehashingSize)
           a == t.rehashingIdx
<1>1. /\ Changed(t, [t.table EXCEPT ![a] = e], m.tbl, t.count, g) /\ SameShape(t, g) /\ Ready(g) /\ g.table[a] = e
      /\ g.rehashingIdx = a /\ g.rehashingSize = t.rehashingSize /\ Ordered(m.heap, g)
  BY MidIs DEF Going, Changed
<1> HIDE DEF g
<1>2. e \in Pointers /\ m.heap[e].next \in Pointers /\ m.heap[e].key \in Keys
  BY <1>1, WaitingHead
<1>3. r.heap = [m.heap EXCEPT ![e].next = m.tbl[i]] /\ r.tbl = [m.tbl EXCEPT ![i] = e] /\ r.entries = m.heap[e].next
  BY DEF MoveEntry
<1>4. i \in 0..(t.rehashingSize - 1)
  BY <1>2, HashType DEF Ready
<1> HIDE DEF i
<1>5. r.tbl \in [0..(t.rehashingSize - 1) -> Pointers]
  BY <1>2, <1>3 DEF Going
<1>6. Changed(t, [t.table EXCEPT ![a] = r.entries], r.tbl, t.count, f)
  BY <1>2, <1>3, <1>5, MidIs
<1> HIDE DEF f
<1>7. [t.table EXCEPT ![a] = r.entries] = [g.table EXCEPT ![a] = r.entries]
  BY <1>1 DEF Changed, Ready, Shaped
<1>8. Changed(g, [g.table EXCEPT ![a] = m.heap[e].next], [g.rehashingTbl EXCEPT ![i] = e], g.count, f)
  <2>1. g.rehashingTbl = m.tbl /\ g.count = t.count
    BY <1>1 DEF Changed
  <2> QED BY <1>1, <1>3, <1>6, <1>7, <2>1 DEF Changed
<1>9. r.heap = [m.heap EXCEPT ![e].next = g.rehashingTbl[i]]
  BY <1>1, <1>3 DEF Changed
<1>10. Pass(m.heap, g, r.heap, f, e, i)
  BY <1>1, <1>8, <1>9 DEF Pass, Ready, i
<1> QED BY <1>2, <1>3, <1>5, <1>10 DEF g, f, i

LEMMA GoingOn ==
  ASSUME NEW hp, NEW t, Ready(t), NEW m, Going(hp, t, m), NEW j \in Nat, EndsBy(t, m, j)
  PROVE  Going(hp, t, MoveEntry(m, t.rehashingSize)) /\ EndsBy(t, MoveEntry(m, t.rehashingSize), j + 1)
<1> DEFINE r == MoveEntry(m, t.rehashingSize)
           g == MidOf(t, m)
           f == MidOf(t, r)
<1>1. CASE m.entries = Nil
  <2>1. r = m
    BY <1>1 DEF MoveEntry
  <2> QED BY <1>1, <2>1 DEF EndsBy
<1>2. CASE m.entries # Nil
  <2>1. /\ Pass(m.heap, g, r.heap, f, m.entries, Hash(m.heap[m.entries].key, t.rehashingSize))
        /\ r.entries \in Pointers /\ r.tbl \in [0..(t.rehashingSize - 1) -> Pointers]
    BY <1>2, GoingPass
  <2> HIDE DEF r
  <2>2. Ordered(m.heap, g) /\ SameData(hp, m.heap) /\ PassedOn(hp, t, m.heap, g)
    BY DEF Going
  <2>3. g.size = t.size /\ g.rehashingIdx = t.rehashingIdx
    BY MidIs DEF Going, SameShape
  <2> HIDE DEF g, f
  <2>4. /\ Ordered(r.heap, f) /\ PassedOn(m.heap, g, r.heap, f) /\ SameData(m.heap, r.heap)
        /\ Len(Waiting(m.heap, g)) \in Nat \ {0} /\ Len(Waiting(r.heap, f)) = Len(Waiting(m.heap, g)) - 1
    BY <2>1, <2>2, PassKeeps
  <2>5. PassedOn(hp, t, r.heap, f)
    BY <2>2, <2>3, <2>4 DEF PassedOn
  <2>6. SameData(hp, r.heap)
    BY <2>2, <2>4 DEF SameData
  <2>7. Going(hp, t, r)
    BY <2>1, <2>4, <2>5, <2>6 DEF Going, f
  <2>8. Len(Waiting(m.heap, g)) + j <= MaxEntries
    BY <1>2 DEF EndsBy, g
  <2>9. Len(Waiting(r.heap, f)) + (j + 1) <= MaxEntries
    BY <2>4, <2>8, BoundAssumption
  <2>10. EndsBy(t, r, j + 1)
    BY <2>9 DEF EndsBy, f
  <2> QED BY <2>7, <2>10 DEF r
<1> QED BY <1>1, <1>2

\* The inner loop ends, and has moved the bucket.
LEMMA MoveChainGoes ==
  ASSUME NEW hp, NEW t, Ready(t), Ordered(hp, t)
  PROVE  LET m == MoveChain(hp, t.rehashingTbl, t.rehashingSize, t.table[t.rehashingIdx])
         IN Going(hp, t, m) /\ m.entries = Nil
<1> DEFINE N == 2 * MaxEntries
           m == MoveChain(hp, t.rehashingTbl, t.rehashingSize, t.table[t.rehashingIdx])
           Fine(x, j) == Going(hp, t, x) /\ EndsBy(t, x, j)
<1>1. PICK f : /\ m = f[N] /\ N \in Nat
               /\ f[0] = [heap |-> hp, tbl |-> t.rehashingTbl, entries |-> t.table[t.rehashingIdx]]
               /\ \A j \in 1..N : f[j] = MoveEntry(f[j - 1], t.rehashingSize)
  BY MoveChainUnfolds
<1> HIDE DEF m
<1>2. Fine(f[0], 0)
  <2>1. f[0].heap = hp /\ f[0].tbl = t.rehashingTbl /\ f[0].entries = t.table[t.rehashingIdx]
    BY <1>1
  <2>2. MidOf(t, f[0]) = t
    BY <2>1, MidStarts
  <2>3. PICK F : Sorted(hp, t, F)
    BY DEF Ordered
  <2>4. Waiting(hp, t) = F[t.rehashingIdx] /\ Len(F[t.rehashingIdx]) <= MaxEntries /\ F[t.rehashingIdx] \in Seq(Entries(hp))
    BY <2>3, WaitingIs DEF Ready
  <2>5. Len(F[t.rehashingIdx]) + 0 <= MaxEntries
    BY <2>4, BoundAssumption
  <2>6. SameData(hp, hp) /\ PassedOn(hp, t, hp, t)
    BY <2>3 DEF SameData, PassedOn, Sorted, World
  <2>7. f[0].entries \in Pointers /\ f[0].tbl \in [0..(t.rehashingSize - 1) -> Pointers]
    BY <2>1 DEF Ready, Shaped
  <2> QED BY <2>1, <2>2, <2>4, <2>5, <2>6, <2>7 DEF Going, EndsBy
<1> HIDE DEF N
<1>3. \A j \in 0..N : Fine(f[j], j)
  <2> DEFINE B == {j \in 0..N : ~Fine(f[j], j)}
  <2> SUFFICES ASSUME B # {} PROVE FALSE
    OBVIOUS
  <2> HIDE DEF Fine
  <2>1. B \subseteq Nat
    BY <1>1
  <2>2. PICK b \in B : \A j \in B : b <= j
    <3> HIDE DEF B
    <3> QED BY <2>1, LeastNumber
  <2>3. b \in 0..N /\ b # 0 /\ ~Fine(f[b], b)
    BY <1>2, <2>2
  <2>4. b - 1 \in 0..N /\ b \in 1..N /\ ~(b <= b - 1) /\ b - 1 \in Nat /\ (b - 1) + 1 = b
    BY <1>1, <2>3
  <2>5. Fine(f[b - 1], b - 1)
    BY <2>2, <2>4
  <2>6. Fine(MoveEntry(f[b - 1], t.rehashingSize), (b - 1) + 1)
    BY <2>4, <2>5, GoingOn DEF Fine
  <2>7. Fine(f[b], b)
    BY <1>1, <2>4, <2>6
  <2> QED BY <2>3, <2>7
<1>4. N \in 0..N
  BY <1>1
<1>5. Going(hp, t, m) /\ EndsBy(t, m, N)
  BY <1>1, <1>3, <1>4
<1>6. m.entries = Nil
  <2> SUFFICES ASSUME m.entries # Nil PROVE FALSE
    OBVIOUS
  <2>1. Len(Waiting(m.heap, MidOf(t, m))) + N <= MaxEntries
    BY <1>5 DEF EndsBy
  <2> DEFINE g == MidOf(t, m)
  <2>2. Ordered(m.heap, g) /\ Ready(g) /\ g.table[t.rehashingIdx] = m.entries /\ g.rehashingIdx = t.rehashingIdx
    BY <1>5, MidIs DEF Going, SameShape
  <2> HIDE DEF g
  <2>3. PICK F : Sorted(m.heap, g, F)
    BY <2>2 DEF Ordered
  <2>4. /\ Waiting(m.heap, g) = F[g.rehashingIdx] /\ F[g.rehashingIdx] \in Seq(Entries(m.heap))
        /\ F[g.rehashingIdx] # <<>>
    BY <2>2, <2>3, WaitingIs DEF Ready
  <2>5. Len(Waiting(m.heap, g)) \in Nat \ {0}
    BY <2>4
  <2> QED BY <2>1, <2>5, BoundAssumption DEF N, g
<1> QED BY <1>5, <1>6 DEF m

-----------------------------------------------------------------------------
(***************************************************************************)
(* The outer loop of rehashStep.                                           *)
(***************************************************************************)
\* The values of the keys of one bucket are in the new array.
BucketMoved(hp, t, gp, g) ==
  \A k \in Keys :
    IF Hash(k, t.size) = t.rehashingIdx
    THEN Olds(gp, g)[k] = <<>> /\ News(gp, g)[k] = Table!Backwards(Olds(hp, t)[k]) \o News(hp, t)[k]
    ELSE Olds(gp, g)[k] = Olds(hp, t)[k] /\ News(gp, g)[k] = News(hp, t)[k]

\* Tables that differ in rehashingIdx alone.
SameArrays(t, g) ==
  /\ Shaped(t) /\ Shaped(g) /\ g.table = t.table /\ g.rehashingTbl = t.rehashingTbl /\ g.count = t.count
  /\ g.size = t.size /\ g.rehashingSize = t.rehashingSize

LEMMA SameArraysSame ==
  ASSUME NEW t, NEW g, SameArrays(t, g), NEW hp
  PROVE  /\ Ordered(hp, t) => Ordered(hp, g)
         /\ Olds(hp, g) = Olds(hp, t) /\ News(hp, g) = News(hp, t)
<1>1. Names(g) = Names(t) /\ Hd(g) = Hd(t) /\ \A q, k : Belongs(g, q, k) <=> Belongs(t, q, k)
  BY DEF SameArrays, Names, Hd, Belongs
<1>2. \A F : Sorted(hp, t, F) => Sorted(hp, g, F)
  BY <1>1 DEF Sorted, Placed
<1> QED BY <1>2 DEF Ordered, Olds, News, SameArrays

\* The value sequences are sequences.
LEMMA ValuesSeq ==
  ASSUME NEW hp, NEW t, Shaped(t), Ordered(hp, t), NEW k \in Keys
  PROVE  Olds(hp, t)[k] \in Seq(Vs) /\ News(hp, t)[k] \in Seq(Vs)
<1>1. PICK F : Sorted(hp, t, F)
  BY DEF Ordered
<1>2. ValuesShown(hp, t, F, k)
  BY <1>1, ValuesAre
<1>3. HeadsHave(t)
  BY HeadsAre
<1>4. hp \in HeapType /\ DOMAIN F = Names(t) /\ F \in [DOMAIN F -> Seq(Entries(hp))]
  BY <1>1, <1>3 DEF Sorted, World, Lists, HeadsHave
<1>5. Homes(t, k)
  BY HomesAre
<1>6. Olds(hp, t)[k] \in Seq(Vs)
  <2>1. F[Hash(k, t.size)] \in Seq(Entries(hp))
    BY <1>4, <1>5 DEF Homes
  <2> QED BY <1>2, <1>4, <2>1, ValuesType DEF ValuesShown
<1>7. News(hp, t)[k] \in Seq(Vs)
  <2>1. CASE t.rehashingSize = 0
    <3>1. News(hp, t)[k] = <<>>
      BY <1>2, <2>1 DEF ValuesShown
    <3>2. <<>> \in Seq(Vs)
      OBVIOUS
    <3> QED BY <3>1, <3>2
  <2>2. CASE t.rehashingSize # 0
    <3>1. F[NameOf(t, k)] \in Seq(Entries(hp))
      BY <1>4, <1>5, <2>2 DEF Homes
    <3>2. ValuesOn(hp, F[NameOf(t, k)], k) \in Seq(Vs)
      BY <1>4, <3>1, ValuesType
    <3> QED BY <1>2, <2>2, <3>2 DEF ValuesShown
  <2> QED BY <2>1, <2>2
<1> QED BY <1>6, <1>7

\* Nothing is left to turn round.
BackwardsEmpty(x) == Table!Backwards(<<>>) \o x = x

LEMMA BackwardsOfEmpty ==
  ASSUME NEW S, NEW x \in Seq(S)
  PROVE  BackwardsEmpty(x)
<1>1. Table!Backwards(<<>>) = <<>>
  BY DEF Table!Backwards
<1>2. <<>> \o x = x
  OBVIOUS
<1> QED BY <1>1, <1>2 DEF BackwardsEmpty

\* The entries of a key that are waiting are its entries in the old array, if
\* its bucket is the one that is being moved, or none.
LEMMA WaitingValues ==
  ASSUME NEW hp, NEW t, Ready(t), Ordered(hp, t), NEW k \in Keys
  PROVE  ValuesOn(hp, Waiting(hp, t), k) = IF Hash(k, t.size) = t.rehashingIdx THEN Olds(hp, t)[k] ELSE <<>>
<1> DEFINE a == t.rehashingIdx
<1>1. PICK F : Sorted(hp, t, F)
  BY DEF Ordered
<1>2. ValuesShown(hp, t, F, k) /\ Waiting(hp, t) = F[a] /\ F[a] \in Seq(Entries(hp))
  BY <1>1, ValuesAre, WaitingIs DEF Ready
<1>3. CASE Hash(k, t.size) = a
  BY <1>2, <1>3 DEF ValuesShown
<1>4. CASE Hash(k, t.size) # a
  <2>1. a \in Names(t) /\ a < t.size
    <3>1. HeadsHave(t)
      BY HeadsAre DEF Ready
    <3> QED BY <3>1 DEF HeadsHave, Ready
  <2>2. \A i \in 1..Len(F[a]) : hp[F[a][i]].key # k
    BY <1>1, <1>4, <2>1 DEF Sorted, Placed, Belongs
  <2>3. ValuesOn(hp, F[a], k) = <<>>
    BY <1>2, <2>2, NoHits
  <2> QED BY <1>2, <1>4, <2>3
<1> QED BY <1>3, <1>4

\* The table after a pass.
Next1(t, m) == [t EXCEPT !.table[t.rehashingIdx] = Nil, !.rehashingTbl = m.tbl, !.rehashingIdx = t.rehashingIdx + 1]

LEMMA NextIs ==
  ASSUME NEW t, Ready(t), NEW m, m.entries = Nil, m.tbl \in [0..(t.rehashingSize - 1) -> Pointers]
  PROVE  SameArrays(MidOf(t, m), Next1(t, m)) /\ Next1(t, m).rehashingIdx = t.rehashingIdx + 1
<1> DEFINE u == [t.table EXCEPT ![t.rehashingIdx] = Nil]
           g == Next1(t, m)
           f == MidOf(t, m)
<1>1. m.entries \in Pointers
  BY PointersAre
<1>2. Changed(t, u, m.tbl, t.count, f) /\ SameShape(t, f)
  BY <1>1, MidIs
<1>3. t \in TableType /\ t.rehashingIdx \in Nat /\ t.rehashingIdx + 1 \in Nat
  BY DEF Ready, Shaped
<1>4. f.table \in Tables /\ f.rehashingTbl \in Tables
  BY <1>2 DEF Changed, TableType
<1>5. u \in Tables /\ m.tbl \in Tables
  BY <1>2, <1>4 DEF Changed
<1>6. /\ g.table = u /\ g.rehashingTbl = m.tbl /\ g.rehashingIdx = t.rehashingIdx + 1
      /\ g.count = t.count /\ g.size = t.size /\ g.rehashingSize = t.rehashingSize
  BY <1>3 DEF Next1, TableType
<1>7. g \in TableType
  <2> HIDE DEF u
  <2>1. g = [t EXCEPT !.table = u, !.rehashingTbl = m.tbl, !.rehashingIdx = t.rehashingIdx + 1]
    BY DEF Next1, u
  <2> HIDE DEF g
  <2> QED BY <1>3, <1>5, <2>1 DEF TableType
<1> HIDE DEF u, g, f
<1>8. g.table = f.table /\ g.rehashingTbl = f.rehashingTbl /\ g.size = f.size /\ g.rehashingSize = f.rehashingSize /\ g.count = f.count
  BY <1>2, <1>6 DEF Changed
<1>9. Shaped(f)
  BY <1>2 DEF SameShape
<1>10. Shaped(g)
  BY <1>7, <1>8, <1>9 DEF Shaped
<1>11. SameArrays(f, g)
  BY <1>8, <1>9, <1>10 DEF SameArrays
<1> QED BY <1>6, <1>11 DEF f, g

LEMMA BucketMoves ==
  ASSUME NEW hp, NEW t, Ready(t), Ordered(hp, t), NEW m, Going(hp, t, m), m.entries = Nil,
         NEW g, g = Next1(t, m)
  PROVE  /\ Ordered(m.heap, g) /\ BucketMoved(hp, t, m.heap, g) /\ g.rehashingIdx = t.rehashingIdx + 1
         /\ Shaped(g) /\ g.size = t.size /\ g.rehashingSize = t.rehashingSize /\ g.count = t.count
<1> DEFINE f == MidOf(t, m)
<1>1. /\ Ordered(m.heap, f) /\ SameData(hp, m.heap) /\ PassedOn(hp, t, m.heap, f)
      /\ m.entries \in Pointers /\ m.tbl \in [0..(t.rehashingSize - 1) -> Pointers]
  BY DEF Going
<1>2. SameShape(t, f) /\ Ready(f) /\ f.table[t.rehashingIdx] = Nil
  BY <1>1, MidIs
<1>3. SameArrays(f, g) /\ g.rehashingIdx = t.rehashingIdx + 1
  BY <1>1, NextIs
<1> HIDE DEF f
<1>4. Ordered(m.heap, g) /\ Olds(m.heap, g) = Olds(m.heap, f) /\ News(m.heap, g) = News(m.heap, f)
  BY <1>1, <1>3, SameArraysSame
<1>5. Shaped(g) /\ g.size = t.size /\ g.rehashingSize = t.rehashingSize /\ g.count = t.count
  BY <1>2, <1>3 DEF SameArrays, SameShape
<1>6. Waiting(m.heap, f) = <<>> /\ f.rehashingIdx = t.rehashingIdx /\ f.size = t.size
  <2>1. PICK F : Sorted(m.heap, f, F)
    BY <1>1 DEF Ordered
  <2>2. Shaped(f) /\ f.rehashingIdx \in 0..(f.size - 1) /\ f.rehashingIdx = t.rehashingIdx
    BY <1>2 DEF Ready, SameShape
  <2>3. Waiting(m.heap, f) = F[f.rehashingIdx] /\ (f.table[f.rehashingIdx] = Nil <=> F[f.rehashingIdx] = <<>>)
    BY <2>1, <2>2, WaitingIs
  <2> QED BY <1>2, <2>2, <2>3 DEF SameShape
<1>7. ASSUME NEW k \in Keys
      PROVE  IF Hash(k, t.size) = t.rehashingIdx
             THEN Olds(m.heap, f)[k] = <<>> /\ News(m.heap, f)[k] = Table!Backwards(Olds(hp, t)[k]) \o News(hp, t)[k]
             ELSE Olds(m.heap, f)[k] = Olds(hp, t)[k] /\ News(m.heap, f)[k] = News(hp, t)[k]
  <2>1. Total(m.heap, f, k) = Total(hp, t, k) /\ (Hash(k, t.size) # t.rehashingIdx => Olds(m.heap, f)[k] = Olds(hp, t)[k])
    BY <1>1 DEF PassedOn
  <2>2. ValuesOn(m.heap, <<>>, k) = <<>>
    BY ValuesEmpty
  <2>3. News(m.heap, f)[k] \in Seq(Vs) /\ News(hp, t)[k] \in Seq(Vs)
    BY <1>1, <1>2, ValuesSeq DEF Ready
  <2>4. BackwardsEmpty(News(m.heap, f)[k]) /\ BackwardsEmpty(News(hp, t)[k])
    BY <2>3, BackwardsOfEmpty
  <2>5. News(m.heap, f)[k] = Total(hp, t, k)
    BY <1>6, <2>1, <2>2, <2>4 DEF Total, BackwardsEmpty
  <2>6. ValuesOn(hp, Waiting(hp, t), k) = IF Hash(k, t.size) = t.rehashingIdx THEN Olds(hp, t)[k] ELSE <<>>
    BY WaitingValues
  <2>7. ValuesOn(m.heap, Waiting(m.heap, f), k) = IF Hash(k, f.size) = f.rehashingIdx THEN Olds(m.heap, f)[k] ELSE <<>>
    BY <1>1, <1>2, WaitingValues
  <2>8. CASE Hash(k, t.size) = t.rehashingIdx
    <3>1. Olds(m.heap, f)[k] = <<>>
      BY <1>6, <2>2, <2>7, <2>8
    <3>2. News(m.heap, f)[k] = Table!Backwards(Olds(hp, t)[k]) \o News(hp, t)[k]
      BY <2>5, <2>6, <2>8 DEF Total
    <3> QED BY <2>8, <3>1, <3>2
  <2>9. CASE Hash(k, t.size) # t.rehashingIdx
    <3>1. News(m.heap, f)[k] = News(hp, t)[k]
      BY <2>4, <2>5, <2>6, <2>9 DEF Total, BackwardsEmpty
    <3> QED BY <2>1, <2>9, <3>1
  <2> QED BY <2>8, <2>9
<1>8. BucketMoved(hp, t, m.heap, g)
  BY <1>4, <1>7 DEF BucketMoved
<1> QED BY <1>3, <1>4, <1>5, <1>8

\* What the outer loop has made of t, in gp and g.
Reaches(t, g, k) == t.rehashingIdx <= Hash(k, t.size) /\ Hash(k, t.size) < g.rehashingIdx

\* The values of the keys whose buckets the loop reached are in the new array.
MovedTo(hp, t, gp, g) ==
  /\ Ordered(gp, g) /\ Shaped(g) /\ g.size = t.size /\ g.rehashingSize = t.rehashingSize /\ g.count = t.count
  /\ g.rehashingIdx \in t.rehashingIdx..t.size
  /\ \A k \in Keys :
       IF Reaches(t, g, k)
       THEN Olds(gp, g)[k] = <<>> /\ News(gp, g)[k] = Table!Backwards(Olds(hp, t)[k]) \o News(hp, t)[k]
       ELSE Olds(gp, g)[k] = Olds(hp, t)[k] /\ News(gp, g)[k] = News(hp, t)[k]

LEMMA MovedOn ==
  ASSUME NEW hp, NEW t, Ready(t), NEW s, MovedTo(hp, t, s.heap, s.h), s.hangs = FALSE,
         NEW r, r = MoveBucket(s)
  PROVE  MovedTo(hp, t, r.heap, r.h) /\ r.hangs = FALSE
<1>1. CASE s.h.rehashingIdx = s.h.size
  BY <1>1 DEF MoveBucket
<1>2. CASE s.h.rehashingIdx # s.h.size
  <2> DEFINE u == s.h
             m == MoveChain(s.heap, u.rehashingTbl, u.rehashingSize, u.table[u.rehashingIdx])
             g == Next1(u, m)
  <2>1. r.heap = m.heap /\ r.hangs = (m.entries # Nil) /\ r.h = g
    BY <1>2 DEF MoveBucket, Next1
  <2>2. u.rehashingIdx \in t.rehashingIdx..t.size /\ u.size = t.size /\ u.rehashingSize = t.rehashingSize /\ u.count = t.count
        /\ Ordered(s.heap, u) /\ Shaped(u)
    BY DEF MovedTo
  <2>3. Ready(u) /\ u.rehashingIdx + 1 \in t.rehashingIdx..t.size
    BY <1>2, <2>2 DEF Ready
  <2>4. Going(s.heap, u, m) /\ m.entries = Nil
    BY <2>2, <2>3, MoveChainGoes
  <2> HIDE DEF m, g
  <2>5. /\ Ordered(m.heap, g) /\ BucketMoved(s.heap, u, m.heap, g) /\ g.rehashingIdx = u.rehashingIdx + 1
        /\ Shaped(g) /\ g.size = u.size /\ g.rehashingSize = u.rehashingSize /\ g.count = u.count
    BY <2>2, <2>3, <2>4, BucketMoves DEF g
  <2>6. ASSUME NEW k \in Keys
        PROVE  IF Reaches(t, g, k)
               THEN Olds(m.heap, g)[k] = <<>> /\ News(m.heap, g)[k] = Table!Backwards(Olds(hp, t)[k]) \o News(hp, t)[k]
               ELSE Olds(m.heap, g)[k] = Olds(hp, t)[k] /\ News(m.heap, g)[k] = News(hp, t)[k]
    <3>1. Hash(k, t.size) \in Nat /\ t.rehashingIdx \in Nat /\ u.rehashingIdx \in Nat
      <4>1. Homes(t, k)
        BY HomesAre DEF Ready
      <4> QED BY <2>2, <2>3, <4>1 DEF Homes, Ready
    <3>2. CASE Hash(k, t.size) = u.rehashingIdx
      <4>1. Reaches(t, g, k) /\ ~Reaches(t, u, k)
        BY <2>2, <2>5, <3>1, <3>2 DEF Reaches
      <4>2. Olds(s.heap, u)[k] = Olds(hp, t)[k] /\ News(s.heap, u)[k] = News(hp, t)[k]
        BY <4>1 DEF MovedTo
      <4> QED BY <2>2, <2>5, <3>2, <4>1, <4>2 DEF BucketMoved
    <3>3. CASE Hash(k, t.size) # u.rehashingIdx
      <4>1. Reaches(t, g, k) <=> Reaches(t, u, k)
        BY <2>2, <2>5, <3>1, <3>3 DEF Reaches
      <4>2. Olds(m.heap, g)[k] = Olds(s.heap, u)[k] /\ News(m.heap, g)[k] = News(s.heap, u)[k]
        BY <2>2, <2>5, <3>3 DEF BucketMoved
      <4> QED BY <4>1, <4>2 DEF MovedTo
    <3> QED BY <3>2, <3>3
  <2>7. MovedTo(hp, t, m.heap, g)
    BY <2>2, <2>3, <2>5, <2>6 DEF MovedTo
  <2> QED BY <2>1, <2>4, <2>7
<1> QED BY <1>1, <1>2

LEMMA MoveBucketsMove ==
  ASSUME NEW hp, NEW t, Ready(t), Ordered(hp, t), NEW m, m = MoveBuckets(Working(hp, t))
  PROVE  MovedTo(hp, t, m.heap, m.h) /\ m.hangs = FALSE
<1> DEFINE N == RehashingBuckets
           s == Working(hp, t)
           Fine(x) == MovedTo(hp, t, x.heap, x.h) /\ x.hangs = FALSE
<1>1. PICK f : m = f[N] /\ f[0] = s /\ \A j \in 1..N : f[j] = MoveBucket(f[j - 1])
  BY MoveBucketsUnfolds
<1>2. N \in Nat
  BY BucketsAssumption
<1>3. Fine(f[0])
  <2>1. s.heap = hp /\ s.h = t /\ s.hangs = FALSE
    BY DEF Working
  <2>2. \A k \in Keys : ~Reaches(t, t, k)
    <3> SUFFICES ASSUME NEW k \in Keys PROVE ~Reaches(t, t, k)
      OBVIOUS
    <3>1. Homes(t, k)
      BY HomesAre DEF Ready
    <3> QED BY <3>1 DEF Homes, Reaches, Ready
  <2>3. t.rehashingIdx \in t.rehashingIdx..t.size /\ Shaped(t)
    BY DEF Ready
  <2>4. MovedTo(hp, t, hp, t)
    BY <2>2, <2>3 DEF MovedTo
  <2> HIDE DEF s
  <2> QED BY <1>1, <2>1, <2>4
<1> HIDE DEF N, s
<1>4. \A j \in 0..N : Fine(f[j])
  <2> DEFINE B == {j \in 0..N : ~Fine(f[j])}
  <2> SUFFICES ASSUME B # {} PROVE FALSE
    OBVIOUS
  <2> HIDE DEF Fine
  <2>1. B \subseteq Nat
    BY <1>2
  <2>2. PICK b \in B : \A j \in B : b <= j
    <3> HIDE DEF B
    <3> QED BY <2>1, LeastNumber
  <2>3. b \in 0..N /\ b # 0 /\ ~Fine(f[b])
    BY <1>3, <2>2
  <2>4. b - 1 \in 0..N /\ b \in 1..N /\ ~(b <= b - 1)
    BY <1>2, <2>3
  <2>5. Fine(f[b - 1])
    BY <2>2, <2>4
  <2>6. f[b] = MoveBucket(f[b - 1])
    BY <1>1, <2>4
  <2>7. Fine(f[b])
    BY <2>5, <2>6, MovedOn DEF Fine
  <2> QED BY <2>3, <2>7
<1>5. N \in 0..N
  BY <1>2
<1> QED BY <1>1, <1>4, <1>5

-----------------------------------------------------------------------------
(***************************************************************************)
(* rehashStep.                                                             *)
(***************************************************************************)
LEMMA LooseShaped ==
  ASSUME NEW n, NEW hp, NEW t, Loose(hp, t, n)
  PROVE  Shaped(t)
BY DEF Loose, TableIn, Shaped

LEMMA LooseReady ==
  ASSUME NEW n, NEW hp, NEW t, Loose(hp, t, n), Between(t), Rehashing(t)
  PROVE  Ready(t)
<1>1. Shaped(t)
  BY LooseShaped
<1>2. t \in TableType /\ t.rehashingIdx < t.size /\ t.rehashingSize = 2 * t.size
  BY DEF Loose, Books, Between
<1> QED BY <1>1, <1>2 DEF Ready, TableType, Rehashing

\* What a table looks like to HashTable.
Shows(hp, t, T) ==
  /\ T.table = Olds(hp, t) /\ T.rehashingTbl = News(hp, t) /\ T.size = t.size
  /\ T.rehashingIdx = t.rehashingIdx /\ T.rehashingSize = t.rehashingSize /\ T.count = t.count
  /\ T = [table |-> T.table, size |-> T.size, rehashingIdx |-> T.rehashingIdx,
          rehashingSize |-> T.rehashingSize, rehashingTbl |-> T.rehashingTbl, count |-> T.count]

LEMMA AsShows ==
  ASSUME NEW hp, NEW t
  PROVE  Shows(hp, t, AsHashTable(hp, t))
BY DEF Shows, AsHashTable, Olds, News

LEMMA ShowsAs ==
  ASSUME NEW hp, NEW t, NEW T, Shows(hp, t, T)
  PROVE  AsHashTable(hp, t) = T
BY DEF Shows, AsHashTable, Olds, News

\* The old array is gone.
Switched(hp, u, g) ==
  /\ Olds(hp, g) = News(hp, u) /\ News(hp, g) = Table!NoEntries
  /\ g.size = u.rehashingSize /\ g.rehashingIdx = -1 /\ g.rehashingSize = 0 /\ g.count = u.count

LEMMA InstalledOrdered ==
  ASSUME NEW n \in Nat \ {0}, NEW hp, NEW u, Loose(hp, u, n), Rehashing(u), Ordered(hp, u),
         NEW g, g = Installed(u)
  PROVE  /\ Ordered(hp, g)
         /\ u.rehashingIdx = u.size => Switched(hp, u, g)
         /\ u.rehashingIdx # u.size => g = u
<1>1. CASE u.rehashingIdx # u.size
  BY <1>1 DEF Installed
<1>2. CASE u.rehashingIdx = u.size
  <2>1. u \in TableType /\ Shaped(u) /\ HeadsHave(u)
    BY LooseShaped, HeadsAre DEF Loose
  <2>2. Loose(hp, g, n)
    BY InstalledKeeps
  <2>3. Shaped(g) /\ HeadsHave(g)
    BY <2>2, LooseShaped, HeadsAre
  <2>4. /\ g.table = u.rehashingTbl /\ g.size = u.rehashingSize /\ g.rehashingTbl = <<>>
        /\ g.rehashingIdx = -1 /\ g.rehashingSize = 0 /\ g.count = u.count
    BY <1>2, <2>1 DEF Installed, TableType
  <2>5. Switched(hp, u, g)
    <3>1. News(hp, g) = Table!NoEntries
      BY <2>4 DEF News, ValuesIn, Table!NoEntries
    <3>2. Olds(hp, g) = News(hp, u)
      BY <2>4 DEF Olds, News
    <3> QED BY <2>4, <3>1, <3>2 DEF Switched
  <2>6. PICK F : Sorted(hp, u, F)
    BY DEF Ordered
  <2>7. World(hp, Hd(u), F) /\ DOMAIN F = Names(u) /\ Placed(hp, u, F)
    BY <2>1, <2>6 DEF Sorted, World, HeadsHave
  <2> DEFINE r == [q \in Names(g) |-> u.size + q]
             G == [q \in Names(g) |-> F[r[q]]]
  <2>8. \A q \in Names(g) : /\ q \in 0..(u.rehashingSize - 1) /\ q \in 0..(g.size - 1) /\ q < g.size /\ q \in Nat
                            /\ r[q] = u.size + q
    BY <2>1, <2>4 DEF Names, HeadsHave
  <2>9. \A q \in Names(g) : /\ r[q] \in Names(u) /\ Hd(u)[r[q]] = u.rehashingTbl[q]
                            /\ Hd(g)[q] = g.table[q] /\ G[q] = F[r[q]] /\ ~(r[q] < u.size)
    BY <2>1, <2>3, <2>8 DEF HeadsHave
  <2>10. DOMAIN G = Names(g) /\ G = [q \in Names(g) |-> G[q]] /\ Hd(g) = [q \in Names(g) |-> Hd(g)[q]]
    BY <2>3 DEF HeadsHave
  <2>11. \A q, s \in Names(g) : r[q] = r[s] => q = s
    BY <2>1, <2>8 DEF HeadsHave
  <2> HIDE DEF r, G
  <2>12. Drawn(Hd(u), F, Names(g), r, Hd(g), G)
    BY <2>4, <2>7, <2>9, <2>10, <2>11 DEF Drawn
  <2>13. World(hp, Hd(g), G)
    BY <2>7, <2>12, WorldDrawn
  <2>14. Placed(hp, g, G)
    <3> SUFFICES ASSUME NEW q \in Names(g), NEW i \in 1..Len(G[q]) PROVE Belongs(g, q, hp[G[q][i]].key)
      BY DEF Placed
    <3>1. Belongs(u, r[q], hp[F[r[q]][i]].key)
      BY <2>7, <2>9 DEF Placed
    <3> DEFINE k == hp[G[q][i]].key
    <3>2. u.size + Hash(k, u.rehashingSize) = u.size + q
      BY <2>8, <2>9, <3>1 DEF Belongs
    <3>3. k \in Keys
      <4>1. ListAt(hp, Hd(g)[q], G[q])
        BY <2>10, <2>13, WorldIs
      <4>2. hp \in HeapType /\ G[q][i] \in Entries(hp)
        BY <2>13, <4>1 DEF ListAt, World
      <4> QED BY <4>2, LinksType DEF EntryType
    <3> HIDE DEF k
    <3>4. Hash(k, u.rehashingSize) \in Int
      <4>1. u.rehashingSize \in Nat \ {0}
        BY <2>1, <2>8 DEF HeadsHave
      <4> QED BY <3>3, <4>1, HashType
    <3>5. Hash(k, u.rehashingSize) = q
      BY <2>1, <2>8, <3>2, <3>4 DEF HeadsHave
    <3> QED BY <2>4, <2>8, <3>5 DEF Belongs, k
  <2> QED BY <1>2, <2>5, <2>13, <2>14 DEF Ordered, Sorted
<1> QED BY <1>1, <1>2

\* What the buckets that a step moves are, for both modules.
LEMMA ReachesIs ==
  ASSUME NEW hp, NEW t, Ready(t), NEW g, g.rehashingIdx = StepEnd(t), NEW T, Shows(hp, t, T), NEW k \in Keys
  PROVE  (Reaches(t, g, k) <=> k \in Table!MovedKeys(T)) /\ Table!StepEnd(T) = StepEnd(t)
<1>1. T.rehashingIdx = t.rehashingIdx /\ T.size = t.size
  BY DEF Shows
<1>2. Table!StepEnd(T) = StepEnd(t)
  BY <1>1 DEF Table!StepEnd, StepEnd
<1> QED BY <1>1, <1>2 DEF Reaches, Table!MovedKeys, Table!Hash, Hash

LEMMA StepShows ==
  ASSUME NEW hp, NEW t, Ready(t), NEW gp, NEW u, MovedTo(hp, t, gp, u), u.rehashingIdx = StepEnd(t),
         NEW T, Shows(hp, t, T)
  PROVE  News(gp, u) = Table!Migrated(T) /\ Olds(gp, u) = Table!LeftBehind(T)
<1>1. T.table = Olds(hp, t) /\ T.rehashingTbl = News(hp, t)
  BY DEF Shows
<1>2. Olds(gp, u) = [k \in Keys |-> Olds(gp, u)[k]] /\ News(gp, u) = [k \in Keys |-> News(gp, u)[k]]
  BY DEF Olds, News, ValuesIn
<1>3. ASSUME NEW k \in Keys
      PROVE  /\ News(gp, u)[k] = IF k \in Table!MovedKeys(T) THEN Table!Backwards(T.table[k]) \o T.rehashingTbl[k]
                                 ELSE T.rehashingTbl[k]
             /\ Olds(gp, u)[k] = IF k \in Table!MovedKeys(T) THEN <<>> ELSE T.table[k]
  <2>1. Reaches(t, u, k) <=> k \in Table!MovedKeys(T)
    BY ReachesIs
  <2>2. IF Reaches(t, u, k)
        THEN Olds(gp, u)[k] = <<>> /\ News(gp, u)[k] = Table!Backwards(Olds(hp, t)[k]) \o News(hp, t)[k]
        ELSE Olds(gp, u)[k] = Olds(hp, t)[k] /\ News(gp, u)[k] = News(hp, t)[k]
    BY DEF MovedTo
  <2> QED BY <1>1, <2>1, <2>2
<1>4. News(gp, u) = Table!Migrated(T)
  BY <1>2, <1>3 DEF Table!Migrated
<1>5. Olds(gp, u) = Table!LeftBehind(T)
  BY <1>2, <1>3 DEF Table!LeftBehind
<1> QED BY <1>4, <1>5

\* rehashStep does to the values of each key what HashTable says.
LEMMA StepIsStep ==
  ASSUME NEW n \in Nat \ {0}, NEW hp, NEW t, Loose(hp, t, n), Between(t), Rehashing(t), Ordered(hp, t),
         NEW s, s = RehashStep(hp, t), NEW T, Shows(hp, t, T)
  PROVE  Ordered(s.heap, s.h) /\ s.hangs = FALSE /\ Shows(s.heap, s.h, Table!RehashStep(T))
<1> DEFINE m == MoveBuckets(Working(hp, t))
           u == m.h
           g == Installed(u)
           U == Table!RehashStep(T)
<1>1. s.heap = m.heap /\ s.h = g /\ s.hangs = m.hangs
  BY DEF RehashStep
<1>2. Ready(t)
  BY LooseReady
<1>3. MovedTo(hp, t, m.heap, u) /\ m.hangs = FALSE
  BY <1>2, MoveBucketsMove
<1>4. Carried(hp, t, n, m) /\ u.rehashingIdx = StepEnd(t)
  BY <1>3, MoveBucketsKeeps
<1>5. Loose(m.heap, u, n) /\ Rehashing(u) /\ Ordered(m.heap, u) /\ u.size = t.size /\ u.count = t.count
      /\ u.rehashingSize = t.rehashingSize
  BY <1>3, <1>4 DEF Carried, MovedTo
<1> HIDE DEF m
<1>6. /\ Ordered(m.heap, g)
      /\ u.rehashingIdx = u.size => Switched(m.heap, u, g)
      /\ u.rehashingIdx # u.size => g = u
  <2> HIDE DEF g
  <2> QED BY <1>5, InstalledOrdered DEF g
<1>7. News(m.heap, u) = Table!Migrated(T) /\ Olds(m.heap, u) = Table!LeftBehind(T)
  BY <1>2, <1>3, <1>4, StepShows
<1>8. T.size = t.size /\ T.rehashingSize = t.rehashingSize /\ T.count = t.count /\ Table!StepEnd(T) = StepEnd(t)
  BY DEF Shows, Table!StepEnd, StepEnd
<1> HIDE DEF g, u
<1>9. CASE u.rehashingIdx = u.size
  <2>1. /\ g.size = t.rehashingSize /\ g.rehashingIdx = -1 /\ g.rehashingSize = 0 /\ g.count = t.count
        /\ Olds(m.heap, g) = Table!Migrated(T) /\ News(m.heap, g) = Table!NoEntries
    BY <1>5, <1>6, <1>7, <1>9 DEF Switched
  <2>2. U = [table |-> Table!Migrated(T), size |-> t.rehashingSize, rehashingIdx |-> -1,
             rehashingSize |-> 0, rehashingTbl |-> Table!NoEntries, count |-> t.count]
    BY <1>4, <1>5, <1>8, <1>9 DEF Table!RehashStep
  <2>3. Shows(m.heap, g, U)
    <3> HIDE DEF U
    <3> QED BY <2>1, <2>2 DEF Shows
  <2> QED BY <1>1, <1>3, <1>6, <2>3 DEF g, u
<1>10. CASE u.rehashingIdx # u.size
  <2>1. /\ g.size = t.size /\ g.rehashingIdx = StepEnd(t) /\ g.rehashingSize = t.rehashingSize /\ g.count = t.count
        /\ Olds(m.heap, g) = Table!LeftBehind(T) /\ News(m.heap, g) = Table!Migrated(T)
    BY <1>4, <1>5, <1>6, <1>7, <1>10
  <2>2. U = [table |-> Table!LeftBehind(T), size |-> t.size, rehashingIdx |-> StepEnd(t),
             rehashingSize |-> t.rehashingSize, rehashingTbl |-> Table!Migrated(T), count |-> t.count]
    BY <1>4, <1>5, <1>8, <1>10 DEF Table!RehashStep
  <2>3. Shows(m.heap, g, U)
    <3> HIDE DEF U
    <3> QED BY <2>1, <2>2 DEF Shows
  <2> QED BY <1>1, <1>3, <1>6, <2>3 DEF g, u
<1> QED BY <1>9, <1>10

LEMMA SteppedIsStepped ==
  ASSUME NEW n \in Nat \ {0}, NEW hp, NEW t, Loose(hp, t, n), Between(t), Ordered(hp, t),
         NEW s, s = Stepped(hp, t), NEW T, Shows(hp, t, T)
  PROVE  Ordered(s.heap, s.h) /\ s.hangs = FALSE /\ Shows(s.heap, s.h, Table!Stepped(T))
<1>1. Table!Rehashing(T) <=> Rehashing(t)
  BY DEF Table!Rehashing, Rehashing, Shows
<1>2. CASE Rehashing(t)
  <2>1. s = RehashStep(hp, t) /\ Table!Stepped(T) = Table!RehashStep(T)
    BY <1>1, <1>2 DEF Stepped, Table!Stepped
  <2>2. Ordered(s.heap, s.h) /\ s.hangs = FALSE /\ Shows(s.heap, s.h, Table!RehashStep(T))
    BY <1>2, <2>1, StepIsStep
  <2> QED BY <2>1, <2>2
<1>3. CASE ~Rehashing(t)
  <2>1. s = Working(hp, t) /\ Table!Stepped(T) = T
    BY <1>1, <1>3 DEF Stepped, Table!Stepped
  <2>2. s.heap = hp /\ s.h = t /\ s.hangs = FALSE
    BY <2>1 DEF Working
  <2> QED BY <2>1, <2>2
<1> QED BY <1>2, <1>3

-----------------------------------------------------------------------------
(***************************************************************************)
(* The deferred function of Set.                                           *)
(***************************************************************************)
LEMMA ResizedOrdered ==
  ASSUME NEW n \in Nat \ {0}, NEW hp, NEW t, Loose(hp, t, n), Between(t), Ordered(hp, t), ~Rehashing(t),
         NEW g, g = StartRehashing(t)
  PROVE  Ordered(hp, g) /\ Olds(hp, g) = Olds(hp, t) /\ News(hp, g) = Table!NoEntries
<1>1. t \in TableType /\ Shaped(t) /\ HeadsHave(t) /\ t.rehashingSize = 0 /\ t.size \in Nat \ {0}
  BY LooseShaped, HeadsAre DEF Loose, Books, TableType
<1>2. /\ g.table = t.table /\ g.size = t.size /\ g.rehashingTbl = NewTable(2 * t.size)
      /\ g.rehashingSize = 2 * t.size /\ g.rehashingIdx = 0 /\ g.count = t.count
      /\ g = [t EXCEPT !.rehashingSize = 2 * t.size, !.rehashingTbl = NewTable(2 * t.size), !.rehashingIdx = 0]
  BY <1>1 DEF StartRehashing, TableType
<1>3. NewTable(2 * t.size) \in [0..(2 * t.size - 1) -> Pointers]
  BY PointersAre DEF NewTable
<1>4. 2 * t.size \in Nat \ {0}
  BY <1>1
<1>5. NewTable(2 * t.size) \in Tables
  BY <1>3, <1>4 DEF Tables
<1>6. g \in TableType
  BY <1>1, <1>2, <1>4, <1>5 DEF TableType
<1>7. Shaped(g) /\ HeadsHave(g)
  BY <1>1, <1>2, <1>3, <1>6, HeadsAre DEF Shaped
<1>8. PICK F : Sorted(hp, t, F)
  BY DEF Ordered
<1>9. World(hp, Hd(t), F) /\ DOMAIN F = Names(t) /\ Placed(hp, t, F)
  BY <1>1, <1>8 DEF Sorted, World, HeadsHave
<1> DEFINE r == [q \in Names(g) |-> q]
           G == [q \in Names(g) |-> IF q \in Names(t) THEN F[q] ELSE <<>>]
<1>10. \A q \in Names(g) : /\ q \in Names(t) <=> q < t.size
                           /\ q \in Names(t) => Hd(g)[q] = Hd(t)[q] /\ G[q] = F[q]
                           /\ q \notin Names(t) => Hd(g)[q] = Nil /\ G[q] = <<>> /\ Len(G[q]) = 0
                           /\ r[q] = q
  <2> SUFFICES ASSUME NEW q \in Names(g)
               PROVE  /\ q \in Names(t) <=> q < t.size
                      /\ q \in Names(t) => Hd(g)[q] = Hd(t)[q] /\ G[q] = F[q]
                      /\ q \notin Names(t) => Hd(g)[q] = Nil /\ G[q] = <<>> /\ Len(G[q]) = 0
                      /\ r[q] = q
    OBVIOUS
  <2>1. q \in Nat /\ (q \in Names(t) <=> q < t.size) /\ (q < t.size <=> q \in 0..(t.size - 1))
    BY <1>1, <1>2 DEF Names
  <2>2. q \in Names(t) => Hd(g)[q] = Hd(t)[q]
    BY <1>1, <1>2, <1>7, <2>1 DEF HeadsHave
  <2>3. q \notin Names(t) => q - t.size \in 0..(2 * t.size - 1) /\ t.size + (q - t.size) = q
    BY <1>1, <1>2, <1>7, <2>1 DEF HeadsHave
  <2>4. q \notin Names(t) => Hd(g)[q] = Nil
    <3> SUFFICES ASSUME q \notin Names(t) PROVE Hd(g)[q] = Nil
      OBVIOUS
    <3> DEFINE i == q - t.size
    <3>1. i \in 0..(2 * t.size - 1) /\ t.size + i = q
      BY <2>3
    <3> HIDE DEF i
    <3>2. Hd(g)[t.size + i] = NewTable(2 * t.size)[i]
      BY <1>2, <1>7, <3>1 DEF HeadsHave
    <3>3. NewTable(2 * t.size)[i] = Nil
      BY <3>1 DEF NewTable
    <3> QED BY <3>1, <3>2, <3>3
  <2> QED BY <2>1, <2>2, <2>4
<1>11. DOMAIN G = Names(g) /\ G = [q \in Names(g) |-> G[q]] /\ Hd(g) = [q \in Names(g) |-> Hd(g)[q]]
  BY <1>7 DEF HeadsHave
<1> HIDE DEF r, G
<1>12. Drawn(Hd(t), F, Names(g), r, Hd(g), G)
  BY <1>9, <1>10, <1>11 DEF Drawn
<1>13. World(hp, Hd(g), G)
  BY <1>9, <1>12, WorldDrawn
<1>14. Placed(hp, g, G)
  <2> SUFFICES ASSUME NEW q \in Names(g), NEW i \in 1..Len(G[q]) PROVE Belongs(g, q, hp[G[q][i]].key)
    BY DEF Placed
  <2>1. q \in Names(t) /\ q < t.size /\ G[q] = F[q]
    BY <1>10
  <2>2. Belongs(t, q, hp[F[q][i]].key)
    BY <1>9, <2>1 DEF Placed
  <2> QED BY <1>2, <2>1, <2>2 DEF Belongs
<1>15. Sorted(hp, g, G)
  BY <1>13, <1>14 DEF Sorted
<1>16. Olds(hp, g) = Olds(hp, t)
  BY <1>2 DEF Olds
<1>17. News(hp, g) = Table!NoEntries
  <2>1. ASSUME NEW k \in Keys PROVE News(hp, g)[k] = <<>>
    <3>1. Homes(g, k) /\ ValuesShown(hp, g, G, k)
      BY <1>7, <1>15, HomesAre, ValuesAre
    <3>2. NameOf(g, k) \in Names(g) /\ ~(NameOf(g, k) < t.size)
      BY <1>2, <1>4, <3>1 DEF Homes
    <3>3. G[NameOf(g, k)] = <<>>
      BY <1>10, <3>2
    <3> QED BY <1>2, <1>4, <3>1, <3>3, ValuesEmpty DEF ValuesShown
  <2>2. News(hp, g) = [k \in Keys |-> News(hp, g)[k]]
    BY DEF News, ValuesIn
  <2> QED BY <2>1, <2>2 DEF Table!NoEntries
<1> QED BY <1>15, <1>16, <1>17 DEF Ordered

LEMMA ResizedIsResized ==
  ASSUME NEW n \in Nat \ {0}, NEW hp, NEW t, Loose(hp, t, n), Between(t), Ordered(hp, t), NEW T, Shows(hp, t, T)
  PROVE  Ordered(hp, Resized(t)) /\ Shows(hp, Resized(t), Table!Resized(T))
<1>1. (Table!Rehashing(T) <=> Rehashing(t)) /\ (Table!Overloaded(T) <=> Overloaded(t))
  BY DEF Table!Rehashing, Rehashing, Table!Overloaded, Overloaded, Shows
<1>2. CASE Rehashing(t) \/ ~Overloaded(t)
  <2>1. Resized(t) = t
    BY <1>2 DEF Resized, StartRehashing
  <2>2. Table!Resized(T) = T
    BY <1>1, <1>2 DEF Table!Resized, Table!StartRehashing
  <2> QED BY <2>1, <2>2
<1>3. CASE ~Rehashing(t) /\ Overloaded(t)
  <2> DEFINE g == StartRehashing(t)
             U == Table!StartRehashing(T)
  <2>1. Ordered(hp, g) /\ Olds(hp, g) = Olds(hp, t) /\ News(hp, g) = Table!NoEntries
    BY <1>3, ResizedOrdered
  <2>2. t \in TableType
    BY DEF Loose
  <2>3. /\ g.size = t.size /\ g.rehashingSize = 2 * t.size /\ g.rehashingIdx = 0 /\ g.count = t.count
    BY <1>3, <2>2 DEF StartRehashing, TableType
  <2>4. U = [T EXCEPT !.rehashingSize = 2 * T.size, !.rehashingTbl = Table!NoEntries, !.rehashingIdx = 0]
    BY <1>1, <1>3 DEF Table!StartRehashing
  <2>5. T = [table |-> T.table, size |-> T.size, rehashingIdx |-> T.rehashingIdx,
          rehashingSize |-> T.rehashingSize, rehashingTbl |-> T.rehashingTbl, count |-> T.count]
    BY DEF Shows
  <2> HIDE DEF U, g
  <2>6. U = [table |-> T.table, size |-> T.size, rehashingIdx |-> 0,
          rehashingSize |-> 2 * T.size, rehashingTbl |-> Table!NoEntries, count |-> T.count]
    BY <2>4, <2>5
  <2>7. Shows(hp, g, U)
    BY <2>1, <2>3, <2>6 DEF Shows
  <2>8. Resized(t) = g /\ Table!Resized(T) = U
    BY <1>1, <1>3 DEF Resized, Table!Resized, g, U
  <2> QED BY <2>1, <2>7, <2>8
<1> QED BY <1>2, <1>3

-----------------------------------------------------------------------------
(***************************************************************************)
(* Set and Delete change the entries of one key in one bucket.             *)
(***************************************************************************)
\* In bucket b alone, and for k alone, other values are found: y.
OneChange(hp, t, F, gp, G, b, k, y) ==
  \A q \in Names(t) : \A j \in Keys :
    IF q = b /\ j = k THEN ValuesOn(gp, G[q], j) = y ELSE ValuesOn(gp, G[q], j) = ValuesOn(hp, F[q], j)

\* Tables with arrays of the same sizes.
SameSizes(t, g) == Shaped(t) /\ Shaped(g) /\ g.size = t.size /\ g.rehashingSize = t.rehashingSize

\* The values of k become y in one of the arrays, and nothing else changes.
OldChange(hp, t, gp, g, k, y) == Olds(gp, g) = [Olds(hp, t) EXCEPT ![k] = y] /\ News(gp, g) = News(hp, t)
NewChange(hp, t, gp, g, k, y) == News(gp, g) = [News(hp, t) EXCEPT ![k] = y] /\ Olds(gp, g) = Olds(hp, t)

LEMMA ValueFunctions ==
  ASSUME NEW hp, NEW t
  PROVE  Olds(hp, t) = [k \in Keys |-> Olds(hp, t)[k]] /\ News(hp, t) = [k \in Keys |-> News(hp, t)[k]]
BY DEF Olds, News, ValuesIn

LEMMA ChangeShows ==
  ASSUME NEW hp, NEW t, NEW F, Sorted(hp, t, F), NEW gp, NEW g, NEW G, Sorted(gp, g, G), SameSizes(t, g),
         NEW k \in Keys, NEW b, NEW y, OneChange(hp, t, F, gp, G, b, k, y)
  PROVE  /\ b = Hash(k, t.size) => OldChange(hp, t, gp, g, k, y)
         /\ t.rehashingSize # 0 /\ b = NameOf(t, k) => NewChange(hp, t, gp, g, k, y)
<1>1. ASSUME NEW j \in Keys
      PROVE  /\ ValuesShown(hp, t, F, j) /\ ValuesShown(gp, g, G, j) /\ Homes(t, j) /\ Homes(g, j)
             /\ Hash(j, g.size) = Hash(j, t.size) /\ NameOf(g, j) = NameOf(t, j)
  BY ValuesAre, HomesAre DEF SameSizes, NameOf
<1>2. Homes(t, k)
  BY HomesAre DEF SameSizes
<1>3. /\ Olds(hp, t) = [j \in Keys |-> Olds(hp, t)[j]] /\ News(hp, t) = [j \in Keys |-> News(hp, t)[j]]
      /\ Olds(gp, g) = [j \in Keys |-> Olds(gp, g)[j]] /\ News(gp, g) = [j \in Keys |-> News(gp, g)[j]]
  BY ValueFunctions
<1>4. ASSUME NEW j \in Keys
      PROVE  IF Hash(j, t.size) = b /\ j = k THEN Olds(gp, g)[j] = y ELSE Olds(gp, g)[j] = Olds(hp, t)[j]
  <2>1. Hash(j, t.size) \in Names(t)
    BY <1>1 DEF Homes
  <2>2. Olds(gp, g)[j] = ValuesOn(gp, G[Hash(j, t.size)], j) /\ Olds(hp, t)[j] = ValuesOn(hp, F[Hash(j, t.size)], j)
    BY <1>1 DEF ValuesShown
  <2> QED BY <2>1, <2>2 DEF OneChange
<1>5. ASSUME NEW j \in Keys
      PROVE  IF t.rehashingSize # 0 /\ NameOf(t, j) = b /\ j = k THEN News(gp, g)[j] = y
             ELSE News(gp, g)[j] = News(hp, t)[j]
  <2>1. CASE t.rehashingSize = 0
    BY <1>1, <2>1 DEF ValuesShown, SameSizes
  <2>2. CASE t.rehashingSize # 0
    <3>1. NameOf(t, j) \in Names(t)
      BY <1>1, <2>2 DEF Homes
    <3>2. News(gp, g)[j] = ValuesOn(gp, G[NameOf(t, j)], j) /\ News(hp, t)[j] = ValuesOn(hp, F[NameOf(t, j)], j)
      BY <1>1, <2>2 DEF ValuesShown, SameSizes
    <3> QED BY <2>2, <3>1, <3>2 DEF OneChange
  <2> QED BY <2>1, <2>2
<1>6. CASE b = Hash(k, t.size)
  <2>1. t.rehashingSize # 0 => b # NameOf(t, k)
    BY <1>2, <1>6 DEF Homes
  <2>2. \A j \in Keys : Olds(gp, g)[j] = IF j = k THEN y ELSE Olds(hp, t)[j]
    BY <1>4, <1>6
  <2>3. \A j \in Keys : News(gp, g)[j] = News(hp, t)[j]
    BY <1>5, <2>1
  <2>4. Olds(gp, g) = [Olds(hp, t) EXCEPT ![k] = y]
    BY <1>3, <2>2
  <2>5. News(gp, g) = News(hp, t)
    BY <1>3, <2>3
  <2> QED BY <2>1, <2>4, <2>5 DEF OldChange
<1>7. CASE t.rehashingSize # 0 /\ b = NameOf(t, k)
  <2>1. b # Hash(k, t.size)
    BY <1>2, <1>7 DEF Homes
  <2>2. \A j \in Keys : News(gp, g)[j] = IF j = k THEN y ELSE News(hp, t)[j]
    BY <1>5, <1>7
  <2>3. \A j \in Keys : Olds(gp, g)[j] = Olds(hp, t)[j]
    BY <1>4, <2>1
  <2>4. News(gp, g) = [News(hp, t) EXCEPT ![k] = y]
    BY <1>3, <2>2
  <2>5. Olds(gp, g) = Olds(hp, t)
    BY <1>3, <2>3
  <2> QED BY <2>1, <2>4, <2>5 DEF NewChange
<1> QED BY <1>6, <1>7

\* The bucket that Set looks at.
Spot(t, k) == IF Rehashing(t) THEN NameOf(t, k) ELSE Hash(k, t.size)

LEMMA SpotIs ==
  ASSUME NEW n \in Nat \ {0}, NEW hp, NEW t, Loose(hp, t, n), NEW k \in Keys
  PROVE  /\ Spot(t, k) \in Names(t) /\ Belongs(t, Spot(t, k), k) /\ Hd(t)[Spot(t, k)] = Current(t)[Index(t, k)]
         /\ Rehashing(t) => t.rehashingSize # 0
<1>1. Shaped(t) /\ HeadsHave(t) /\ Homes(t, k)
  BY LooseShaped, HeadsAre, HomesAre
<1>2. Rehashing(t) => t.rehashingSize # 0
  BY DEF Loose, Books, TableType
<1>3. CASE Rehashing(t)
  <2>1. Spot(t, k) = NameOf(t, k) /\ Current(t) = t.rehashingTbl /\ Index(t, k) = Hash(k, t.rehashingSize)
    BY <1>3 DEF Spot, Current, Index
  <2>2. Hash(k, t.rehashingSize) \in 0..(t.rehashingSize - 1) /\ NameOf(t, k) \in Names(t) /\ ~(NameOf(t, k) < t.size)
    BY <1>1, <1>2, <1>3 DEF Homes
  <2>3. Hd(t)[NameOf(t, k)] = t.rehashingTbl[Hash(k, t.rehashingSize)]
    BY <1>1, <2>2 DEF HeadsHave, NameOf
  <2>4. Belongs(t, NameOf(t, k), k)
    BY <2>2 DEF Belongs, NameOf
  <2> QED BY <1>2, <2>1, <2>2, <2>3, <2>4
<1>4. CASE ~Rehashing(t)
  <2>1. Spot(t, k) = Hash(k, t.size) /\ Current(t) = t.table /\ Index(t, k) = Hash(k, t.size)
    BY <1>4 DEF Spot, Current, Index
  <2>2. Hd(t)[Hash(k, t.size)] = t.table[Hash(k, t.size)] /\ Belongs(t, Hash(k, t.size), k) /\ Hash(k, t.size) \in Names(t)
    BY <1>1 DEF HeadsHave, Homes, Belongs
  <2> QED BY <1>4, <2>1, <2>2
<1> QED BY <1>3, <1>4

\* The place in c of the first entry of k.
FirstOf(hp, c, k) == Min(Hits(hp, c, k))

\* What a lookup finds in bucket b.
LEMMA FoundIs ==
  ASSUME NEW hp, NEW hd, NEW F, World(hp, hd, F), NEW b \in DOMAIN F, NEW k
  PROVE  /\ Chain(hp, hd[b]) = F[b] /\ ~Hangs(hp, hd[b], k)
         /\ Hits(hp, F[b], k) = {} => Find(hp, hd[b], k) = Nil /\ \A i \in 1..Len(F[b]) : hp[F[b][i]].key # k
         /\ Hits(hp, F[b], k) # {} => /\ FirstHit(hp, F[b], k, FirstOf(hp, F[b], k))
                                      /\ Find(hp, hd[b], k) = F[b][FirstOf(hp, F[b], k)] /\ Find(hp, hd[b], k) # Nil
<1> DEFINE c == F[b]
           H == Hits(hp, c, k)
           m == FirstOf(hp, c, k)
<1>1. Chain(hp, hd[b]) = c /\ ~Endless(hp, hd[b])
  BY WorldChain
<1>2. ListAt(hp, hd[b], c)
  BY WorldIs
<1>3. Find(hp, hd[b], k) = IF H = {} THEN Nil ELSE c[m]
  BY <1>1 DEF Find, FirstOf
<1>4. H = {} => \A i \in 1..Len(c) : hp[c[i]].key # k
  BY DEF Hits
<1>5. ASSUME H # {} PROVE FirstHit(hp, c, k, m) /\ c[m] # Nil
  <2>1. H \subseteq Nat /\ Len(c) \in Nat
    BY <1>2 DEF Hits, ListAt
  <2>2. m \in H /\ \A i \in H : m <= i
    <3> HIDE DEF H
    <3>1. Min(H) \in H /\ \A i \in H : Min(H) <= i
      BY <1>5, <2>1, MinIs
    <3> QED BY <3>1 DEF FirstOf, H
  <2> HIDE DEF m, c
  <2>3. m \in 1..Len(c) /\ hp[c[m]].key = k
    BY <2>2 DEF Hits
  <2>4. \A i \in 1..(m - 1) : hp[c[i]].key # k
    <3> SUFFICES ASSUME NEW i \in 1..(m - 1), hp[c[i]].key = k PROVE FALSE
      OBVIOUS
    <3>1. i \in 1..Len(c) /\ ~(m <= i)
      BY <2>1, <2>3
    <3>2. i \in H
      BY <3>1 DEF Hits
    <3> QED BY <2>2, <3>1, <3>2
  <2>5. c[m] # Nil
    BY <1>2, <2>3 DEF ListAt
  <2> QED BY <2>3, <2>4, <2>5 DEF FirstHit
<1>6. ~Hangs(hp, hd[b], k)
  BY <1>1 DEF Hangs
<1> QED BY <1>1, <1>3, <1>4, <1>5, <1>6

\* Set replaces the first value.
FirstSet(a, x, v) == Table!Stored(<<a>> \o x, v) = <<v>> \o x /\ <<a>> \o x # <<>>

LEMMA FirstIsSet ==
  ASSUME NEW S, NEW x \in Seq(S), NEW a \in S, NEW v \in S
  PROVE  FirstSet(a, x, v)
<1> DEFINE y == <<a>> \o x
           z == <<v>> \o x
<1>1. y \in Seq(S) /\ Len(y) = Len(x) + 1 /\ y[1] = a /\ \A i \in 1..Len(x) : y[i + 1] = x[i]
  OBVIOUS
<1>2. z \in Seq(S) /\ Len(z) = Len(x) + 1 /\ z[1] = v /\ \A i \in 1..Len(x) : z[i + 1] = x[i]
  OBVIOUS
<1>3. Len(x) \in Nat
  OBVIOUS
<1> HIDE DEF y, z
<1>4. y # <<>>
  BY <1>1, <1>3
<1> DEFINE w == [y EXCEPT ![1] = v]
<1>5. w \in Seq(S) /\ Len(w) = Len(y) /\ \A i \in 1..Len(y) : w[i] = IF i = 1 THEN v ELSE y[i]
  BY <1>1
<1> HIDE DEF w
<1>6. \A i \in 1..Len(y) : w[i] = z[i]
  <2> SUFFICES ASSUME NEW i \in 1..Len(y) PROVE w[i] = z[i]
    OBVIOUS
  <2>1. CASE i = 1
    BY <1>2, <1>5, <2>1
  <2>2. CASE i # 1
    <3>1. i - 1 \in 1..Len(x) /\ (i - 1) + 1 = i
      BY <1>1, <1>3, <2>2
    <3>2. y[i] = x[i - 1] /\ z[i] = x[i - 1]
      BY <1>1, <1>2, <3>1
    <3> QED BY <1>5, <2>2, <3>2
  <2> QED BY <2>1, <2>2
<1>7. w = z
  BY <1>1, <1>2, <1>5, <1>6
<1>8. Table!Stored(y, v) = w
  BY <1>4 DEF Table!Stored, w
<1> QED BY <1>4, <1>7, <1>8 DEF FirstSet, y, z

\* Set overwrites the first entry of k in bucket b.
LEMMA OverwriteSorts ==
  ASSUME NEW hp, NEW t, Shaped(t), NEW F, Sorted(hp, t, F), NEW b \in Names(t), NEW k \in Keys, NEW v \in Vs,
         NEW e, e = Find(hp, Hd(t)[b], k), e # Nil, NEW gp, gp = [hp EXCEPT ![e].val = v]
  PROVE  /\ Sorted(gp, t, F)
         /\ OneChange(hp, t, F, gp, F, b, k, Table!Stored(ValuesOn(hp, F[b], k), v))
         /\ ValuesOn(hp, F[b], k) # <<>>
<1> DEFINE c == F[b]
           m == FirstOf(hp, c, k)
<1>1. HeadsHave(t) /\ World(hp, Hd(t), F) /\ Placed(hp, t, F) /\ hp \in HeapType
  BY HeadsAre DEF Sorted, World
<1>2. DOMAIN F = Names(t) /\ Lists(hp, F) /\ Apart(F)
  BY <1>1 DEF HeadsHave, World
<1>3. \A q \in Names(t) : F[q] \in Seq(Entries(hp)) /\ \A i \in 1..Len(F[q]) : F[q][i] \in Entries(hp)
  BY <1>2 DEF Lists
<1>4. FirstHit(hp, c, k, m) /\ e = c[m]
  BY <1>1, <1>2, FoundIs
<1>5. m \in 1..Len(c) /\ e \in Entries(hp)
  BY <1>3, <1>4 DEF FirstHit
<1>6. ValueSet(hp, e, v, gp)
  BY <1>1, <1>5, ValueIsSet DEF Vs
<1>7. gp \in HeapType /\ Entries(gp) = Entries(hp) /\ \A p \in Entries(hp) : gp[p].key = hp[p].key /\ gp[p].next = hp[p].next
  BY <1>6 DEF ValueSet, SameKeys
<1>8. Sorted(gp, t, F)
  <2>1. SameLists(hp, gp, F)
    BY <1>2, <1>3, <1>7 DEF SameLists
  <2>2. World(gp, Hd(t), F)
    BY <1>1, <1>7, <2>1, WorldFrame
  <2>3. Placed(gp, t, F)
    BY <1>1, <1>3, <1>7 DEF Placed
  <2> QED BY <2>2, <2>3 DEF Sorted
<1> DEFINE x == ValuesOn(hp, Cut(c, m), k)
<1>9. HitSplit(hp, c, k, m)
  BY <1>1, <1>3, <1>4, HitSplits
<1>10. /\ ValuesOn(gp, c, k) = <<v>> \o x
       /\ \A j : j # k => ValuesOn(gp, c, j) = ValuesOn(hp, c, j)
  <2>1. Once(c)
    BY <1>2 DEF Apart, Once
  <2>2. c \in Seq(Entries(hp)) /\ ValueSet(hp, c[m], v, gp) /\ v \in Vs
    BY <1>3, <1>4, <1>6
  <2>3. hp \in HeapType /\ FirstHit(hp, c, k, m)
    BY <1>1, <1>4
  <2> HIDE DEF c, m
  <2>4. HitSet(hp, c, k, m, v, gp)
    BY <2>1, <2>2, <2>3, HitOverwritten
  <2> QED BY <2>4 DEF HitSet
<1>11. ValuesOn(hp, c, k) # <<>> /\ ValuesOn(gp, c, k) = Table!Stored(ValuesOn(hp, c, k), v)
  <2>1. Cut(c, m) \in Seq(Entries(hp))
    BY <1>3, <1>5, CutIs
  <2>2. x \in Seq(Vs)
    BY <1>1, <2>1, ValuesType
  <2>3. hp[e].val \in Vs
    BY <1>1, <1>5, LinksType DEF EntryType, Vs
  <2>4. ValuesOn(hp, c, k) = <<hp[e].val>> \o x
    BY <1>4, <1>9 DEF HitSplit
  <2> HIDE DEF x
  <2>5. FirstSet(hp[e].val, x, v)
    BY <2>2, <2>3, FirstIsSet
  <2> QED BY <1>10, <2>4, <2>5 DEF FirstSet
<1>12. ASSUME NEW q \in Names(t), NEW j \in Keys, q # b PROVE ValuesOn(gp, F[q], j) = ValuesOn(hp, F[q], j)
  <2>1. \A i \in 1..Len(F[q]) : F[q][i] # e
    <3> SUFFICES ASSUME NEW i \in 1..Len(F[q]), F[q][i] = c[m] PROVE FALSE
      BY <1>4
    <3> QED BY <1>2, <1>5, <1>12, ApartIs
  <2>2. Alike(hp, F[q], gp, F[q], Len(F[q]))
    BY <1>3, <1>6, <1>7, <2>1 DEF Alike, ValueSet
  <2> QED BY <1>3, <2>2, ValuesFrame
<1>13. OneChange(hp, t, F, gp, F, b, k, Table!Stored(ValuesOn(hp, F[b], k), v))
  BY <1>10, <1>11, <1>12 DEF OneChange
<1> QED BY <1>8, <1>11, <1>13

\* Links change, and nothing else.
LEMMA AppendData ==
  ASSUME NEW hp, NEW hd, NEW F, World(hp, hd, F), NEW b \in DOMAIN F, NEW e \in Entries(hp),
         NEW gp, NEW gd, AppendLinks(hp, hd, F, b, e, gp, gd)
  PROVE  SameData(hp, gp)
<1>1. hp \in HeapType
  BY DEF World
<1>2. CASE hd[b] = Nil
  <2>1. gp = hp
    BY <1>2 DEF AppendLinks
  <2> QED BY <1>1, <2>1 DEF SameData
<1>3. CASE hd[b] # Nil
  <2> DEFINE l == Last(F[b])
  <2>1. ListAt(hp, hd[b], F[b])
    BY WorldIs
  <2>2. l \in Entries(hp)
    <3>1. F[b] # <<>> /\ Len(F[b]) \in 1..Len(F[b])
      BY <1>3, <2>1 DEF ListAt
    <3> QED BY <2>1, <3>1 DEF Last, ListAt
  <2>3. gp = [hp EXCEPT ![l].next = e]
    BY <1>3 DEF AppendLinks
  <2>4. e \in Pointers
    BY <1>1, LinksType, PointersAre
  <2> HIDE DEF l
  <2>5. NextSet(hp, l, e, gp)
    BY <1>1, <2>2, <2>3, <2>4, NextIsSet
  <2> QED BY <1>1, <2>5 DEF NextSet, SameKeys, SameData
<1> QED BY <1>2, <1>3

\* The list b gets the entry a at its end.
More(F, b, a) == [F EXCEPT ![b] = Append(F[b], a)]

\* Set hangs a new entry of k at the end of bucket b.
LEMMA AppendSorts ==
  ASSUME NEW hp, NEW t, NEW F, Sorted(hp, t, F), NEW b \in Names(t), NEW k \in Keys, NEW v \in Vs,
         Belongs(t, b, k), Find(hp, Hd(t)[b], k) = Nil, NEW a, NEW hm, Made(hp, a, k, v, hm),
         NEW gp, NEW g, SameSizes(t, g), AppendLinks(hm, Hd(t), F, b, a, gp, Hd(g))
  PROVE  /\ Sorted(gp, g, More(F, b, a))
         /\ OneChange(hp, t, F, gp, More(F, b, a), b, k, <<v>>)
         /\ ValuesOn(hp, F[b], k) = <<>>
<1> DEFINE G == More(F, b, a)
<1>1. HeadsHave(t) /\ World(hp, Hd(t), F) /\ Placed(hp, t, F) /\ hp \in HeapType
  BY HeadsAre DEF Sorted, World, SameSizes
<1>2. DOMAIN F = Names(t) /\ Lists(hp, F) /\ Apart(F) /\ F = [q \in DOMAIN F |-> F[q]]
  BY <1>1 DEF HeadsHave, World, Lists
<1>3. \A q \in Names(t) : F[q] \in Seq(Entries(hp)) /\ \A i \in 1..Len(F[q]) : F[q][i] \in Entries(hp)
  BY <1>2 DEF Lists
<1>4. /\ hm \in HeapType /\ Entries(hm) = Entries(hp) \cup {a} /\ a \notin Entries(hp) /\ a \in Addresses
      /\ hm[a].key = k /\ hm[a].val = v /\ hm[a].next = Nil
      /\ \A p \in Entries(hp) : hm[p] = hp[p]
  <2>1. Entries(hp) \subseteq Addresses
    BY <1>1, LinksType
  <2> QED BY <2>1 DEF Made
<1>5. World(hm, Hd(t), F)
  <2>1. SameLists(hp, hm, F)
    BY <1>2, <1>3, <1>4 DEF SameLists
  <2> QED BY <1>1, <1>4, <2>1, WorldFrame
<1>6. \A q \in DOMAIN F : \A i \in 1..Len(F[q]) : F[q][i] # a
  BY <1>2, <1>3, <1>4
<1>7. World(gp, Hd(g), G)
  <2>1. b \in DOMAIN F /\ a \in Entries(hm) /\ hm[a].next = Nil
    BY <1>2, <1>4
  <2> QED BY <1>5, <1>6, <2>1, WorldAppend DEF More
<1>8. SameData(hm, gp)
  BY <1>2, <1>4, <1>5, AppendData
<1>9. \A p \in Entries(hm) : gp[p].key = hm[p].key /\ gp[p].val = hm[p].val
  BY <1>8 DEF SameData
<1>10. G[b] = Append(F[b], a) /\ DOMAIN G = DOMAIN F /\ \A q \in Names(t) : q # b => G[q] = F[q]
  BY <1>2 DEF More
<1>11. Names(g) = Names(t) /\ \A q, j : Belongs(g, q, j) <=> Belongs(t, q, j)
  BY DEF SameSizes, Names, Belongs
<1> HIDE DEF G
<1>12. Placed(gp, g, G)
  <2> SUFFICES ASSUME NEW q \in Names(t), NEW i \in 1..Len(G[q]) PROVE Belongs(t, q, gp[G[q][i]].key)
    BY <1>11 DEF Placed
  <2>1. ASSUME NEW j \in 1..Len(F[q]) PROVE Belongs(t, q, gp[F[q][j]].key)
    <3>1. F[q][j] \in Entries(hp) /\ Belongs(t, q, hp[F[q][j]].key)
      BY <1>1, <1>3 DEF Placed
    <3> QED BY <1>4, <1>9, <3>1
  <2>2. CASE q # b
    BY <1>10, <2>1, <2>2
  <2>3. CASE q = b
    <3>1. Len(F[b]) \in Nat /\ i \in 1..(Len(F[b]) + 1)
      BY <1>3, <1>10, <2>3
    <3>2. CASE i \in 1..Len(F[b])
      <4>1. G[b][i] = F[b][i]
        BY <1>3, <1>10, <3>2
      <4> QED BY <2>1, <2>3, <3>2, <4>1
    <3>3. CASE i = Len(F[b]) + 1
      <4>1. G[b][i] = a
        BY <1>3, <1>10, <3>3
      <4>2. gp[a].key = k
        BY <1>4, <1>9
      <4> QED BY <2>3, <4>1, <4>2
    <3> QED BY <3>1, <3>2, <3>3
  <2> QED BY <2>2, <2>3
<1>13. ASSUME NEW q \in Names(t), NEW j \in Keys PROVE ValuesOn(gp, F[q], j) = ValuesOn(hp, F[q], j)
  <2>1. Alike(hp, F[q], gp, F[q], Len(F[q]))
    BY <1>3, <1>4, <1>9 DEF Alike
  <2> QED BY <1>3, <2>1, ValuesFrame
<1>14. ValuesOn(hp, F[b], k) = <<>>
  <2>1. \A i \in 1..Len(F[b]) : hp[F[b][i]].key # k
    <3>1. b \in DOMAIN F
      BY <1>2
    <3>2. Hits(hp, F[b], k) = {}
      BY <1>1, <3>1, FoundIs
    <3> QED BY <3>2 DEF Hits
  <2> QED BY <1>3, <2>1, NoHits
<1>15. ASSUME NEW j \in Keys PROVE ValuesOn(gp, G[b], j) = IF j = k THEN <<v>> ELSE ValuesOn(hp, F[b], j)
  <2>1. F[b] \in Seq(Entries(hm)) /\ a \in Entries(hm)
    BY <1>3, <1>4
  <2>2. ValuesOn(gp, Append(F[b], a), j) = Taken(gp, a, j, ValuesOn(gp, F[b], j))
    BY <2>1, ValuesAppend
  <2>3. gp[a].key = k /\ gp[a].val = v
    BY <1>4, <1>9
  <2>4. Taken(gp, a, j, ValuesOn(gp, F[b], j)) = IF j = k THEN Append(ValuesOn(hp, F[b], j), v) ELSE ValuesOn(hp, F[b], j)
    BY <1>13, <2>3 DEF Taken
  <2>5. Append(<<>>, v) = <<v>>
    OBVIOUS
  <2> QED BY <1>10, <1>14, <2>2, <2>4, <2>5
<1>16. OneChange(hp, t, F, gp, G, b, k, <<v>>)
  BY <1>10, <1>13, <1>15 DEF OneChange
<1>17. Sorted(gp, g, G)
  BY <1>7, <1>12 DEF Sorted
<1> QED BY <1>14, <1>16, <1>17 DEF G

\* Tables of the same sizes, at the same bucket.
SameNumbers(t, g) ==
  g.size = t.size /\ g.rehashingSize = t.rehashingSize /\ g.rehashingIdx = t.rehashingIdx

\* What Set has made of the values of k.
Sets(hp, t, gp, g, k, v) ==
  IF Rehashing(t)
  THEN /\ NewChange(hp, t, gp, g, k, Table!Stored(News(hp, t)[k], v))
       /\ g.count = t.count + Table!Added(News(hp, t)[k])
  ELSE /\ OldChange(hp, t, gp, g, k, Table!Stored(Olds(hp, t)[k], v))
       /\ g.count = t.count + Table!Added(Olds(hp, t)[k])

LEMMA InsertedShows ==
  ASSUME NEW hp, NEW t, NEW T, Shows(hp, t, T), NEW gp, NEW g, SameNumbers(t, g), NEW k, NEW v,
         Sets(hp, t, gp, g, k, v)
  PROVE  Shows(gp, g, Table!Inserted(T, k, v))
<1> DEFINE U == Table!Inserted(T, k, v)
<1>1. /\ T.table = Olds(hp, t) /\ T.rehashingTbl = News(hp, t) /\ T.size = t.size
      /\ T.rehashingIdx = t.rehashingIdx /\ T.rehashingSize = t.rehashingSize /\ T.count = t.count
      /\ T = [table |-> T.table, size |-> T.size, rehashingIdx |-> T.rehashingIdx,
              rehashingSize |-> T.rehashingSize, rehashingTbl |-> T.rehashingTbl, count |-> T.count]
  BY DEF Shows
<1>2. Table!Rehashing(T) <=> Rehashing(t)
  BY <1>1 DEF Table!Rehashing, Rehashing
<1>3. CASE Rehashing(t)
  <2> DEFINE y == Table!Stored(News(hp, t)[k], v)
             c == Table!Added(News(hp, t)[k])
  <2>1. U = [T EXCEPT !.rehashingTbl[k] = y, !.count = T.count + c]
    BY <1>1, <1>2, <1>3 DEF Table!Inserted
  <2>2. News(gp, g) = [News(hp, t) EXCEPT ![k] = y] /\ Olds(gp, g) = Olds(hp, t) /\ g.count = t.count + c
    BY <1>3 DEF Sets, NewChange
  <2> HIDE DEF U, y, c
  <2>3. U = [table |-> T.table, size |-> T.size, rehashingIdx |-> T.rehashingIdx, rehashingSize |-> T.rehashingSize,
             rehashingTbl |-> [T.rehashingTbl EXCEPT ![k] = y], count |-> T.count + c]
    BY <1>1, <2>1
  <2>4. Shows(gp, g, U)
    BY <1>1, <2>2, <2>3 DEF Shows, SameNumbers
  <2> QED BY <2>4 DEF U
<1>4. CASE ~Rehashing(t)
  <2> DEFINE y == Table!Stored(Olds(hp, t)[k], v)
             c == Table!Added(Olds(hp, t)[k])
  <2>1. U = [T EXCEPT !.table[k] = y, !.count = T.count + c]
    BY <1>1, <1>2, <1>4 DEF Table!Inserted
  <2>2. Olds(gp, g) = [Olds(hp, t) EXCEPT ![k] = y] /\ News(gp, g) = News(hp, t) /\ g.count = t.count + c
    BY <1>4 DEF Sets, OldChange
  <2> HIDE DEF U, y, c
  <2>3. U = [table |-> [T.table EXCEPT ![k] = y], size |-> T.size, rehashingIdx |-> T.rehashingIdx,
             rehashingSize |-> T.rehashingSize, rehashingTbl |-> T.rehashingTbl, count |-> T.count + c]
    BY <1>1, <2>1
  <2>4. Shows(gp, g, U)
    BY <1>1, <2>2, <2>3 DEF Shows, SameNumbers
  <2> QED BY <2>4 DEF U
<1> QED BY <1>3, <1>4

\* From what happens in the bucket that Set looks at.
LEMMA SpotSets ==
  ASSUME NEW n \in Nat \ {0}, NEW hp, NEW t, Loose(hp, t, n), NEW F, Sorted(hp, t, F),
         NEW gp, NEW g, NEW G, Sorted(gp, g, G), SameSizes(t, g), NEW k \in Keys, NEW v, NEW y,
         OneChange(hp, t, F, gp, G, Spot(t, k), k, y),
         y = Table!Stored(ValuesOn(hp, F[Spot(t, k)], k), v),
         g.count = t.count + Table!Added(ValuesOn(hp, F[Spot(t, k)], k))
  PROVE  Sets(hp, t, gp, g, k, v)
<1>1. Rehashing(t) => t.rehashingSize # 0
  BY SpotIs
<1>2. ValuesShown(hp, t, F, k)
  BY ValuesAre DEF SameSizes
<1>3. CASE Rehashing(t)
  <2>1. Spot(t, k) = NameOf(t, k)
    BY <1>3 DEF Spot
  <2>2. News(hp, t)[k] = ValuesOn(hp, F[NameOf(t, k)], k)
    BY <1>1, <1>2, <1>3 DEF ValuesShown
  <2>3. NewChange(hp, t, gp, g, k, y)
    BY <1>1, <1>3, <2>1, ChangeShows
  <2> QED BY <1>3, <2>1, <2>2, <2>3 DEF Sets
<1>4. CASE ~Rehashing(t)
  <2>1. Spot(t, k) = Hash(k, t.size)
    BY <1>4 DEF Spot
  <2>2. Olds(hp, t)[k] = ValuesOn(hp, F[Hash(k, t.size)], k)
    BY <1>2 DEF ValuesShown
  <2>3. OldChange(hp, t, gp, g, k, y)
    BY <2>1, ChangeShows
  <2> QED BY <1>4, <2>1, <2>2, <2>3 DEF Sets
<1> QED BY <1>3, <1>4

\* One head changes, and one place of an array.
HeadSet(t, g, b, p) == Hd(g) = [Hd(t) EXCEPT ![b] = p]
ArraySet(u, w, i, p) == w = [u EXCEPT ![i] = p]

LEMMA OldHeadSet ==
  ASSUME NEW t, NEW g, SameSizes(t, g), NEW i \in 0..(t.size - 1), NEW p, ArraySet(t.table, g.table, i, p),
         g.rehashingTbl = t.rehashingTbl
  PROVE  HeadSet(t, g, i, p)
<1>1. HeadsHave(t) /\ HeadsHave(g) /\ Names(g) = Names(t)
  BY HeadsAre DEF SameSizes, Names
<1>2. t.table \in [0..(t.size - 1) -> Pointers]
  BY DEF SameSizes, Shaped
<1>3. \A q \in Names(t) : Hd(g)[q] = IF q = i THEN p ELSE Hd(t)[q]
  <2> SUFFICES ASSUME NEW q \in Names(t) PROVE Hd(g)[q] = IF q = i THEN p ELSE Hd(t)[q]
    OBVIOUS
  <2>1. CASE q \in 0..(t.size - 1)
    <3>1. Hd(g)[q] = g.table[q] /\ Hd(t)[q] = t.table[q]
      BY <1>1, <2>1 DEF HeadsHave, SameSizes
    <3> QED BY <1>2, <2>1, <3>1 DEF ArraySet
  <2>2. CASE q \notin 0..(t.size - 1)
    <3> DEFINE j == q - t.size
    <3>1. j \in 0..(t.rehashingSize - 1) /\ t.size + j = q /\ q # i
      <4>1. q \in Nat /\ t.size \in Nat
        BY <1>1 DEF HeadsHave, Names
      <4> QED BY <1>1, <2>2, <4>1 DEF HeadsHave
    <3> HIDE DEF j
    <3>2. Hd(g)[t.size + j] = g.rehashingTbl[j] /\ Hd(t)[t.size + j] = t.rehashingTbl[j]
      BY <1>1, <3>1 DEF HeadsHave, SameSizes
    <3> QED BY <3>1, <3>2
  <2> QED BY <2>1, <2>2
<1>4. Hd(g) = [q \in Names(t) |-> Hd(g)[q]] /\ Hd(t) = [q \in Names(t) |-> Hd(t)[q]]
  BY <1>1 DEF HeadsHave
<1> QED BY <1>3, <1>4 DEF HeadSet

LEMMA NewHeadSet ==
  ASSUME NEW t, NEW g, SameSizes(t, g), NEW i \in 0..(t.rehashingSize - 1), NEW p,
         ArraySet(t.rehashingTbl, g.rehashingTbl, i, p), g.table = t.table
  PROVE  HeadSet(t, g, t.size + i, p)
<1>1. HeadsHave(t) /\ HeadsHave(g) /\ Names(g) = Names(t)
  BY HeadsAre DEF SameSizes, Names
<1>2. t.rehashingTbl \in [0..(t.rehashingSize - 1) -> Pointers]
  BY DEF SameSizes, Shaped
<1>3. \A q \in Names(t) : Hd(g)[q] = IF q = t.size + i THEN p ELSE Hd(t)[q]
  <2> SUFFICES ASSUME NEW q \in Names(t) PROVE Hd(g)[q] = IF q = t.size + i THEN p ELSE Hd(t)[q]
    OBVIOUS
  <2>1. CASE q \in 0..(t.size - 1)
    <3>1. Hd(g)[q] = g.table[q] /\ Hd(t)[q] = t.table[q]
      BY <1>1, <2>1 DEF HeadsHave, SameSizes
    <3>2. q # t.size + i
      BY <1>1, <2>1 DEF HeadsHave
    <3> QED BY <3>1, <3>2
  <2>2. CASE q \notin 0..(t.size - 1)
    <3> DEFINE j == q - t.size
    <3>1. j \in 0..(t.rehashingSize - 1) /\ t.size + j = q /\ (q = t.size + i <=> j = i)
      <4>1. q \in Nat /\ t.size \in Nat
        BY <1>1 DEF HeadsHave, Names
      <4> QED BY <1>1, <2>2, <4>1 DEF HeadsHave
    <3> HIDE DEF j
    <3>2. Hd(g)[t.size + j] = g.rehashingTbl[j] /\ Hd(t)[t.size + j] = t.rehashingTbl[j]
      BY <1>1, <3>1 DEF HeadsHave, SameSizes
    <3> QED BY <1>2, <3>1, <3>2 DEF ArraySet
  <2> QED BY <2>1, <2>2
<1>4. Hd(g) = [q \in Names(t) |-> Hd(g)[q]] /\ Hd(t) = [q \in Names(t) |-> Hd(t)[q]]
  BY <1>1 DEF HeadsHave
<1> QED BY <1>3, <1>4 DEF HeadSet

LEMMA NoHeadSet ==
  ASSUME NEW t, NEW g, SameSizes(t, g), g.table = t.table, g.rehashingTbl = t.rehashingTbl
  PROVE  Hd(g) = Hd(t)
BY DEF SameSizes, Hd, Names

\* Set's new entry.
LinkedInto(t, g, l) ==
  IF Rehashing(t) THEN g.rehashingTbl = l.tbl /\ g.table = t.table ELSE g.table = l.tbl /\ g.rehashingTbl = t.rehashingTbl

LEMMA LinkedAppends ==
  ASSUME NEW n \in Nat \ {0}, NEW hp, NEW t, Loose(hp, t, n), NEW k \in Keys, NEW hm, NEW F, World(hm, Hd(t), F),
         DOMAIN F = Names(t), NEW a, NEW l, l = Linked(hm, Current(t), Index(t, k), a),
         NEW g, SameSizes(t, g), LinkedInto(t, g, l)
  PROVE  AppendLinks(hm, Hd(t), F, Spot(t, k), a, l.heap, Hd(g))
<1> DEFINE b == Spot(t, k)
           i == Index(t, k)
           u == Current(t)
<1>1. b \in Names(t) /\ Hd(t)[b] = u[i] /\ (Rehashing(t) => t.rehashingSize # 0)
  BY SpotIs
<1>2. Homes(t, k)
  BY HomesAre DEF SameSizes
<1>3. Chain(hm, Hd(t)[b]) = F[b]
  BY <1>1, WorldChain
<1>4. CASE u[i] = Nil
  <2>1. l.heap = hm /\ ArraySet(u, l.tbl, i, a)
    BY <1>4 DEF Linked, ArraySet
  <2>2. HeadSet(t, g, b, a)
    <3>1. CASE Rehashing(t)
      <4>1. u = t.rehashingTbl /\ i = Hash(k, t.rehashingSize) /\ b = t.size + i /\ i \in 0..(t.rehashingSize - 1)
        BY <1>1, <1>2, <3>1 DEF Current, Index, Spot, NameOf, Homes
      <4>2. ArraySet(t.rehashingTbl, g.rehashingTbl, i, a) /\ g.table = t.table
        BY <2>1, <3>1, <4>1 DEF LinkedInto
      <4> HIDE DEF b, i, u
      <4> QED BY <4>1, <4>2, NewHeadSet
    <3>2. CASE ~Rehashing(t)
      <4>1. u = t.table /\ i = Hash(k, t.size) /\ b = i /\ i \in 0..(t.size - 1)
        BY <1>1, <1>2, <3>2 DEF Current, Index, Spot, Homes
      <4>2. ArraySet(t.table, g.table, i, a) /\ g.rehashingTbl = t.rehashingTbl
        BY <2>1, <3>2, <4>1 DEF LinkedInto
      <4> HIDE DEF b, i, u
      <4> QED BY <4>1, <4>2, OldHeadSet
    <3> QED BY <3>1, <3>2
  <2> QED BY <1>1, <1>4, <2>1, <2>2 DEF AppendLinks, HeadSet
<1>5. CASE u[i] # Nil
  <2>1. l.heap = [hm EXCEPT ![Last(Chain(hm, u[i]))].next = a] /\ l.tbl = u
    BY <1>5 DEF Linked
  <2>2. g.table = t.table /\ g.rehashingTbl = t.rehashingTbl
    BY <2>1 DEF LinkedInto, Current
  <2>3. Hd(g) = Hd(t)
    BY <2>2, NoHeadSet
  <2>4. l.heap = [hm EXCEPT ![Last(F[b])].next = a]
    BY <1>1, <1>3, <2>1
  <2> QED BY <1>1, <1>5, <2>3, <2>4 DEF AppendLinks
<1> QED BY <1>4, <1>5

\* The lists before are lists after the new entry has been made.
LEMMA MadeWorld ==
  ASSUME NEW hp, NEW hd, NEW F, World(hp, hd, F), NEW a, NEW k, NEW v, NEW hm, Made(hp, a, k, v, hm)
  PROVE  World(hm, hd, F)
<1>1. hp \in HeapType /\ Lists(hp, F) /\ hm \in HeapType
  BY DEF World, Made
<1>2. Entries(hp) \subseteq Addresses /\ \A b \in DOMAIN F : \A i \in 1..Len(F[b]) : F[b][i] \in Entries(hp)
  BY <1>1, LinksType DEF Lists
<1>3. SameLists(hp, hm, F)
  BY <1>2 DEF SameLists, Made
<1> QED BY <1>1, <1>3, WorldFrame

\* Set, between the step and the resizing.
LEMMA StoredIsInserted ==
  ASSUME NEW n \in Nat \ {0}, NEW s, Loose(s.heap, s.h, n), Between(s.h), ~Full(s.heap), Ordered(s.heap, s.h),
         NEW k \in Keys, NEW v \in Values, NEW r, r = Stored(s, k, v), NEW T, Shows(s.heap, s.h, T)
  PROVE  Ordered(r.heap, r.h) /\ Shows(r.heap, r.h, Table!Inserted(T, k, v)) /\ ~SetHangs(s, k)
<1> DEFINE hp == s.heap
           t  == s.h
           b  == Spot(t, k)
           e  == Find(hp, Current(t)[Index(t, k)], k)
           g  == r.h
<1>1. PICK F : Sorted(hp, t, F)
  BY DEF Ordered
<1>2. Shaped(t) /\ HeadsHave(t) /\ World(hp, Hd(t), F) /\ hp \in HeapType /\ t \in TableType
  BY <1>1, LooseShaped, HeadsAre DEF Sorted, World, Loose
<1>3. DOMAIN F = Names(t)
  BY <1>2 DEF HeadsHave, World
<1>4. b \in Names(t) /\ Belongs(t, b, k) /\ Hd(t)[b] = Current(t)[Index(t, k)] /\ e = Find(hp, Hd(t)[b], k)
  BY SpotIs
<1>5. ~SetHangs(s, k)
  <2>1. ~Hangs(hp, Hd(t)[b], k)
    BY <1>2, <1>3, <1>4, FoundIs
  <2> QED BY <1>4, <2>1 DEF SetHangs
<1>6. Loose(r.heap, g, n)
  BY StoredKeeps DEF Kept
<1>7. Shaped(g)
  BY <1>6, LooseShaped
<1>8. v \in Vs
  BY DEF Vs
<1>9. CASE e # Nil
  <2>1. r.heap = [hp EXCEPT ![e].val = v] /\ g = t
    BY <1>9 DEF Stored
  <2> DEFINE y == Table!Stored(ValuesOn(hp, F[b], k), v)
  <2>2. /\ Sorted(r.heap, t, F) /\ OneChange(hp, t, F, r.heap, F, b, k, y)
        /\ ValuesOn(hp, F[b], k) # <<>>
    <3> DEFINE gp == r.heap
    <3>1. gp = [hp EXCEPT ![e].val = v]
      BY <2>1
    <3> HIDE DEF gp, e, b
    <3> QED BY <1>1, <1>2, <1>4, <1>8, <1>9, <3>1, OverwriteSorts DEF gp
  <2>3. g.count = t.count + Table!Added(ValuesOn(hp, F[b], k))
    BY <1>2, <2>1, <2>2 DEF Table!Added, TableType
  <2>4. SameSizes(t, g) /\ SameNumbers(t, g)
    BY <1>2, <2>1 DEF SameSizes, SameNumbers
  <2>5. Sets(hp, t, r.heap, g, k, v)
    BY <1>1, <2>1, <2>2, <2>3, <2>4, SpotSets
  <2>6. Shows(r.heap, g, Table!Inserted(T, k, v))
    BY <2>4, <2>5, InsertedShows
  <2> QED BY <1>5, <2>1, <2>2, <2>6 DEF Ordered
<1>10. CASE e = Nil
  <2> DEFINE a  == NewAddress(hp)
             hm == [hp EXCEPT ![a] = NewEntry(k, v)]
             l  == Linked(hm, Current(t), Index(t, k), a)
             y  == Table!Stored(ValuesOn(hp, F[b], k), v)
  <2>1. r.heap = l.heap /\ g = IF Rehashing(t) THEN [t EXCEPT !.rehashingTbl = l.tbl, !.count = @ + 1]
                                               ELSE [t EXCEPT !.table = l.tbl, !.count = @ + 1]
    BY <1>10 DEF Stored
  <2>2. Made(hp, a, k, v, hm)
    BY <1>2, NewIsMade
  <2> HIDE DEF a, hm
  <2>3. World(hm, Hd(t), F)
    BY <1>2, <2>2, MadeWorld
  <2>4. LinkedInto(t, g, l) /\ g.count = t.count + 1 /\ SameNumbers(t, g)
    <3> HIDE DEF l, g
    <3>1. CASE Rehashing(t)
      BY <1>2, <2>1, <3>1 DEF LinkedInto, SameNumbers, TableType, g
    <3>2. CASE ~Rehashing(t)
      BY <1>2, <2>1, <3>2 DEF LinkedInto, SameNumbers, TableType, g
    <3> QED BY <3>1, <3>2
  <2>5. SameSizes(t, g)
    BY <1>2, <1>7, <2>4 DEF SameSizes, SameNumbers
  <2>6. AppendLinks(hm, Hd(t), F, b, a, l.heap, Hd(g))
    <3> HIDE DEF g
    <3> QED BY <1>3, <2>3, <2>4, <2>5, LinkedAppends
  <2> DEFINE G == More(F, b, a)
  <2>7. /\ Sorted(l.heap, g, G) /\ OneChange(hp, t, F, l.heap, G, b, k, <<v>>)
        /\ ValuesOn(hp, F[b], k) = <<>>
    <3> HIDE DEF g, b, l
    <3> QED BY <1>1, <1>4, <1>8, <1>10, <2>2, <2>5, <2>6, AppendSorts
  <2>8. y = <<v>> /\ Table!Added(ValuesOn(hp, F[b], k)) = 1
    BY <2>7 DEF Table!Stored, Table!Added
  <2> HIDE DEF y
  <2>9. Sets(hp, t, r.heap, g, k, v)
    <3>1. OneChange(hp, t, F, r.heap, G, Spot(t, k), k, y) /\ Sorted(r.heap, g, G)
      BY <2>1, <2>7, <2>8
    <3>2. y = Table!Stored(ValuesOn(hp, F[Spot(t, k)], k), v) /\ g.count = t.count + Table!Added(ValuesOn(hp, F[Spot(t, k)], k))
      BY <2>4, <2>8 DEF y
    <3> HIDE DEF g, b, l, G
    <3> QED BY <1>1, <2>5, <3>1, <3>2, SpotSets DEF g
  <2>10. Shows(r.heap, g, Table!Inserted(T, k, v))
    BY <2>4, <2>9, InsertedShows
  <2> QED BY <1>5, <2>1, <2>7, <2>10 DEF Ordered
<1> QED BY <1>9, <1>10

-----------------------------------------------------------------------------
(***************************************************************************)
(* Delete.                                                                 *)
(***************************************************************************)
\* Delete takes the first value away.
RestPushed(a, x) == Table!Rest(<<a>> \o x) = x

LEMMA RestOfPushed ==
  ASSUME NEW S, NEW x \in Seq(S), NEW a \in S
  PROVE  RestPushed(a, x)
<1> DEFINE y == <<a>> \o x
<1>1. y \in Seq(S) /\ Len(y) = Len(x) + 1 /\ \A i \in 1..Len(x) : y[i + 1] = x[i]
  OBVIOUS
<1>2. Len(x) \in Nat
  OBVIOUS
<1> HIDE DEF y
<1>3. y # <<>>
  BY <1>1, <1>2
<1>4. Tail(y) \in Seq(S) /\ Len(Tail(y)) = Len(x) /\ \A i \in 1..Len(x) : Tail(y)[i] = y[i + 1]
  BY <1>1, <1>2, <1>3
<1>5. Tail(y) = x
  BY <1>1, <1>4
<1> QED BY <1>3, <1>5 DEF Table!Rest, RestPushed, y

\* What DeleteFromTable does to bucket i of tbl, whose list is c.
Unlinks(hp, tbl, i, c, k, d) ==
  IF Hits(hp, c, k) = {} THEN d.heap = hp /\ d.tbl = tbl
  ELSE LET m == FirstOf(hp, c, k)
       IN IF m = 1 THEN d.heap = hp /\ ArraySet(tbl, d.tbl, i, hp[c[1]].next)
          ELSE d.heap = [hp EXCEPT ![c[m - 1]].next = hp[c[m]].next] /\ d.tbl = tbl

LEMMA DeleteUnlinks ==
  ASSUME NEW hp, NEW hd, NEW F, World(hp, hd, F), NEW b \in DOMAIN F, NEW tbl, NEW i, hd[b] = tbl[i], NEW k,
         NEW d, d = DeleteFromTable(hp, tbl, i, k)
  PROVE  Unlinks(hp, tbl, i, F[b], k, d)
<1>1. Chain(hp, tbl[i]) = F[b]
  BY WorldChain
<1> QED BY <1>1 DEF DeleteFromTable, Unlinks, FirstOf, ArraySet

LEMMA CutData ==
  ASSUME NEW hp, NEW hd, NEW F, World(hp, hd, F), NEW b \in DOMAIN F, NEW m \in 1..Len(F[b]),
         NEW gp, NEW gd, CutLinks(hp, hd, F, b, m, gp, gd)
  PROVE  SameData(hp, gp)
<1>1. hp \in HeapType /\ Lists(hp, F)
  BY DEF World
<1>2. CASE m = 1
  <2>1. gp = hp
    BY <1>2 DEF CutLinks
  <2> QED BY <1>1, <2>1 DEF SameData
<1>3. CASE m # 1
  <2> DEFINE l == F[b][m - 1]
             q == hp[F[b][m]].next
  <2>1. F[b] \in Seq(Entries(hp))
    BY <1>1 DEF Lists
  <2>2. m - 1 \in 1..Len(F[b])
    BY <1>3, <2>1
  <2>3. l \in Entries(hp) /\ F[b][m] \in Entries(hp)
    BY <2>1, <2>2
  <2>4. q \in Pointers
    BY <1>1, <2>3, LinksType DEF EntryType
  <2>5. gp = [hp EXCEPT ![l].next = q]
    BY <1>3 DEF CutLinks
  <2> HIDE DEF l, q
  <2>6. NextSet(hp, l, q, gp)
    BY <1>1, <2>3, <2>4, <2>5, NextIsSet
  <2> QED BY <1>1, <2>6 DEF NextSet, SameKeys, SameData
<1> QED BY <1>2, <1>3

\* The list b loses its entry number m.
Less(F, b, m) == [F EXCEPT ![b] = Cut(F[b], m)]

\* The first entry of k leaves bucket b.
LEMMA CutSorts ==
  ASSUME NEW hp, NEW t, NEW F, Sorted(hp, t, F), NEW b \in Names(t), NEW k \in Keys, NEW m, FirstHit(hp, F[b], k, m),
         NEW gp, NEW g, SameSizes(t, g), CutLinks(hp, Hd(t), F, b, m, gp, Hd(g))
  PROVE  /\ Sorted(gp, g, Less(F, b, m))
         /\ OneChange(hp, t, F, gp, Less(F, b, m), b, k, Table!Rest(ValuesOn(hp, F[b], k)))
<1> DEFINE G == Less(F, b, m)
           c == F[b]
           x == Cut(c, m)
<1>1. HeadsHave(t) /\ World(hp, Hd(t), F) /\ Placed(hp, t, F) /\ hp \in HeapType
  BY HeadsAre DEF Sorted, World, SameSizes
<1>2. DOMAIN F = Names(t) /\ Lists(hp, F) /\ F = [q \in DOMAIN F |-> F[q]]
  BY <1>1 DEF HeadsHave, World, Lists
<1>3. \A q \in Names(t) : F[q] \in Seq(Entries(hp)) /\ \A i \in 1..Len(F[q]) : F[q][i] \in Entries(hp)
  BY <1>2 DEF Lists
<1>4. m \in 1..Len(c) /\ b \in DOMAIN F
  BY <1>2 DEF FirstHit
<1>5. World(gp, Hd(g), G)
  BY <1>1, <1>4, WorldCut DEF Less
<1>6. SameData(hp, gp)
  BY <1>1, <1>4, CutData
<1>7. \A p \in Entries(hp) : gp[p].key = hp[p].key /\ gp[p].val = hp[p].val
  BY <1>6 DEF SameData
<1>8. DOMAIN G = DOMAIN F /\ G[b] = x /\ \A q \in Names(t) : q # b => G[q] = F[q]
  BY <1>2 DEF Less
<1>9. x \in Seq(Entries(hp)) /\ Len(x) = Len(c) - 1 /\ \A i \in 1..(Len(c) - 1) : x[i] = IF i < m THEN c[i] ELSE c[i + 1]
  BY <1>3, <1>4, CutIs
<1>10. Names(g) = Names(t) /\ \A q, j : Belongs(g, q, j) <=> Belongs(t, q, j)
  BY DEF SameSizes, Names, Belongs
<1>11. HitSplit(hp, c, k, m)
  BY <1>1, <1>3, HitSplits
<1> HIDE DEF G, x, c
<1>12. Placed(gp, g, G)
  <2> SUFFICES ASSUME NEW q \in Names(t), NEW i \in 1..Len(G[q]) PROVE Belongs(t, q, gp[G[q][i]].key)
    BY <1>10 DEF Placed
  <2>1. ASSUME NEW j \in 1..Len(F[q]) PROVE Belongs(t, q, gp[F[q][j]].key)
    <3>1. F[q][j] \in Entries(hp) /\ Belongs(t, q, hp[F[q][j]].key)
      BY <1>1, <1>3 DEF Placed
    <3> QED BY <1>7, <3>1
  <2>2. CASE q # b
    BY <1>8, <2>1, <2>2
  <2>3. CASE q = b
    <3>1. i \in 1..(Len(c) - 1) /\ Len(c) \in Nat /\ F[q] = c /\ G[q] = x
      BY <1>3, <1>8, <1>9, <2>3 DEF c
    <3>2. i \in 1..Len(c) /\ i + 1 \in 1..Len(c)
      BY <3>1
    <3>3. x[i] = c[i] \/ x[i] = c[i + 1]
      BY <1>9, <3>1
    <3> QED BY <2>1, <3>1, <3>2, <3>3
  <2> QED BY <2>2, <2>3
<1>13. ASSUME NEW q \in Names(t), NEW j PROVE ValuesOn(gp, F[q], j) = ValuesOn(hp, F[q], j)
  BY <1>3, <1>6, SameValues
<1>14. ASSUME NEW j PROVE ValuesOn(gp, x, j) = ValuesOn(hp, x, j)
  BY <1>6, <1>9, SameValues
<1>15. Table!Rest(ValuesOn(hp, c, k)) = ValuesOn(hp, x, k)
  <2>1. ValuesOn(hp, x, k) \in Seq(Vs)
    BY <1>1, <1>9, ValuesType
  <2>2. c[m] \in Entries(hp)
    BY <1>3, <1>4 DEF c
  <2>3. hp[c[m]].val \in Vs
    BY <1>1, <2>2, LinksType DEF EntryType, Vs
  <2>4. ValuesOn(hp, c, k) = <<hp[c[m]].val>> \o ValuesOn(hp, x, k)
    BY <1>11 DEF HitSplit, x
  <2>5. RestPushed(hp[c[m]].val, ValuesOn(hp, x, k))
    BY <2>1, <2>3, RestOfPushed
  <2> QED BY <2>4, <2>5 DEF RestPushed
<1>16. \A j \in Keys : j # k => ValuesOn(hp, x, j) = ValuesOn(hp, c, j)
  BY <1>11 DEF HitSplit, x
<1>17. OneChange(hp, t, F, gp, G, b, k, Table!Rest(ValuesOn(hp, c, k)))
  BY <1>8, <1>13, <1>14, <1>15, <1>16 DEF OneChange, c
<1>18. Sorted(gp, g, G)
  BY <1>5, <1>12 DEF Sorted
<1> QED BY <1>17, <1>18 DEF G, c

\* What DeleteFromTable does to the array of bucket b is what it does to the table.
Carries(t, g, b, tbl, i, d) ==
  /\ \A p : ArraySet(tbl, d.tbl, i, p) => HeadSet(t, g, b, p)
  /\ d.tbl = tbl => Hd(g) = Hd(t)

\* What Delete does in the bucket b.
Deletion(hp, t, F, gp, g, b, k) ==
  \E G : Sorted(gp, g, G) /\ OneChange(hp, t, F, gp, G, b, k, Table!Rest(ValuesOn(hp, F[b], k)))

LEMMA BucketDeletes ==
  ASSUME NEW hp, NEW t, NEW F, Sorted(hp, t, F), NEW b \in Names(t), NEW k \in Keys,
         NEW tbl, NEW i, Hd(t)[b] = tbl[i], NEW d, d = DeleteFromTable(hp, tbl, i, k),
         NEW g, SameSizes(t, g), Carries(t, g, b, tbl, i, d)
  PROVE  Deletion(hp, t, F, d.heap, g, b, k)
<1>1. World(hp, Hd(t), F) /\ Placed(hp, t, F) /\ HeadsHave(t)
  BY HeadsAre DEF Sorted, SameSizes
<1>2. DOMAIN F = Names(t) /\ Lists(hp, F)
  BY <1>1 DEF World, HeadsHave
<1>3. F[b] \in Seq(Entries(hp))
  BY <1>2 DEF Lists
<1>4. Unlinks(hp, tbl, i, F[b], k, d)
  BY <1>1, <1>2, DeleteUnlinks
<1>5. CASE Hits(hp, F[b], k) = {}
  <2>1. d.heap = hp /\ Hd(g) = Hd(t)
    BY <1>4, <1>5 DEF Unlinks, Carries
  <2>2. Sorted(d.heap, g, F)
    <3>1. Names(g) = Names(t) /\ \A q, j : Belongs(g, q, j) <=> Belongs(t, q, j)
      BY DEF SameSizes, Names, Belongs
    <3>2. Placed(hp, g, F)
      BY <1>1, <3>1 DEF Placed
    <3> QED BY <1>1, <2>1, <3>2 DEF Sorted
  <2>3. \A j \in 1..Len(F[b]) : hp[F[b][j]].key # k
    BY <1>5 DEF Hits
  <2>4. ValuesOn(hp, F[b], k) = <<>>
    BY <1>3, <2>3, NoHits
  <2>5. Table!Rest(ValuesOn(hp, F[b], k)) = <<>>
    BY <2>4 DEF Table!Rest
  <2>6. OneChange(hp, t, F, d.heap, F, b, k, Table!Rest(ValuesOn(hp, F[b], k)))
    BY <2>1, <2>4, <2>5 DEF OneChange
  <2> QED BY <2>2, <2>6 DEF Deletion
<1>6. CASE Hits(hp, F[b], k) # {}
  <2> DEFINE m == FirstOf(hp, F[b], k)
  <2>1. FirstHit(hp, F[b], k, m)
    BY <1>1, <1>2, <1>6, FoundIs
  <2>2. CutLinks(hp, Hd(t), F, b, m, d.heap, Hd(g))
    <3>1. CASE m = 1
      <4>1. d.heap = hp /\ ArraySet(tbl, d.tbl, i, hp[F[b][1]].next)
        BY <1>4, <1>6, <3>1 DEF Unlinks
      <4>2. HeadSet(t, g, b, hp[F[b][1]].next)
        BY <4>1 DEF Carries
      <4> QED BY <3>1, <4>1, <4>2 DEF CutLinks, HeadSet
    <3>2. CASE m # 1
      <4>1. d.heap = [hp EXCEPT ![F[b][m - 1]].next = hp[F[b][m]].next] /\ d.tbl = tbl
        BY <1>4, <1>6, <3>2 DEF Unlinks
      <4>2. Hd(g) = Hd(t)
        BY <4>1 DEF Carries
      <4> QED BY <3>2, <4>1, <4>2 DEF CutLinks
    <3> QED BY <3>1, <3>2
  <2> HIDE DEF m
  <2>3. Sorted(d.heap, g, Less(F, b, m)) /\ OneChange(hp, t, F, d.heap, Less(F, b, m), b, k, Table!Rest(ValuesOn(hp, F[b], k)))
    BY <2>1, <2>2, CutSorts
  <2> QED BY <2>3 DEF Deletion
<1> QED BY <1>5, <1>6

LEMMA OldDeletes ==
  ASSUME NEW hp, NEW t, Ordered(hp, t), NEW k \in Keys, NEW d, d = DeleteFromTable(hp, t.table, Hash(k, t.size), k),
         NEW g, SameSizes(t, g), g.table = d.tbl, g.rehashingTbl = t.rehashingTbl
  PROVE  Ordered(d.heap, g) /\ OldChange(hp, t, d.heap, g, k, Table!Rest(Olds(hp, t)[k]))
<1> DEFINE b == Hash(k, t.size)
<1>1. PICK F : Sorted(hp, t, F)
  BY DEF Ordered
<1>2. Homes(t, k) /\ HeadsHave(t) /\ ValuesShown(hp, t, F, k)
  BY <1>1, HomesAre, HeadsAre, ValuesAre DEF SameSizes
<1>3. b \in Names(t) /\ Hd(t)[b] = t.table[b] /\ b \in 0..(t.size - 1)
  BY <1>2 DEF HeadsHave, Homes
<1>4. Carries(t, g, b, t.table, b, d)
  <2>1. \A p : ArraySet(t.table, d.tbl, b, p) => HeadSet(t, g, b, p)
    <3> HIDE DEF b
    <3> QED BY <1>3, OldHeadSet
  <2>2. d.tbl = t.table => Hd(g) = Hd(t)
    BY NoHeadSet
  <2> QED BY <2>1, <2>2 DEF Carries
<1>5. Deletion(hp, t, F, d.heap, g, b, k)
  <2>1. d = DeleteFromTable(hp, t.table, b, k)
    OBVIOUS
  <2> HIDE DEF b
  <2> QED BY <1>1, <1>3, <1>4, <2>1, BucketDeletes
<1>6. PICK G : Sorted(d.heap, g, G) /\ OneChange(hp, t, F, d.heap, G, b, k, Table!Rest(ValuesOn(hp, F[b], k)))
  BY <1>5 DEF Deletion
<1>7. OldChange(hp, t, d.heap, g, k, Table!Rest(ValuesOn(hp, F[b], k)))
  BY <1>1, <1>6, ChangeShows
<1>8. Olds(hp, t)[k] = ValuesOn(hp, F[b], k)
  BY <1>2 DEF ValuesShown
<1> QED BY <1>6, <1>7, <1>8 DEF Ordered

LEMMA NewDeletes ==
  ASSUME NEW hp, NEW t, Ordered(hp, t), NEW k \in Keys, t.rehashingSize # 0,
         NEW d, d = DeleteFromTable(hp, t.rehashingTbl, Hash(k, t.rehashingSize), k),
         NEW g, SameSizes(t, g), g.table = t.table, g.rehashingTbl = d.tbl
  PROVE  Ordered(d.heap, g) /\ NewChange(hp, t, d.heap, g, k, Table!Rest(News(hp, t)[k]))
<1> DEFINE b == NameOf(t, k)
           i == Hash(k, t.rehashingSize)
<1>1. PICK F : Sorted(hp, t, F)
  BY DEF Ordered
<1>2. Homes(t, k) /\ HeadsHave(t) /\ ValuesShown(hp, t, F, k)
  BY <1>1, HomesAre, HeadsAre, ValuesAre DEF SameSizes
<1>3. b \in Names(t) /\ Hd(t)[b] = t.rehashingTbl[i] /\ i \in 0..(t.rehashingSize - 1) /\ b = t.size + i
  BY <1>2 DEF HeadsHave, Homes, NameOf
<1>4. Carries(t, g, b, t.rehashingTbl, i, d)
  <2>1. \A p : ArraySet(t.rehashingTbl, d.tbl, i, p) => HeadSet(t, g, b, p)
    <3> HIDE DEF b, i
    <3> QED BY <1>3, NewHeadSet
  <2>2. d.tbl = t.rehashingTbl => Hd(g) = Hd(t)
    BY NoHeadSet
  <2> QED BY <2>1, <2>2 DEF Carries
<1>5. Deletion(hp, t, F, d.heap, g, b, k)
  <2>1. d = DeleteFromTable(hp, t.rehashingTbl, i, k)
    OBVIOUS
  <2> HIDE DEF b, i
  <2> QED BY <1>1, <1>3, <1>4, <2>1, BucketDeletes
<1>6. PICK G : Sorted(d.heap, g, G) /\ OneChange(hp, t, F, d.heap, G, b, k, Table!Rest(ValuesOn(hp, F[b], k)))
  BY <1>5 DEF Deletion
<1>7. NewChange(hp, t, d.heap, g, k, Table!Rest(ValuesOn(hp, F[b], k)))
  BY <1>1, <1>6, ChangeShows
<1>8. News(hp, t)[k] = ValuesOn(hp, F[b], k)
  BY <1>2 DEF ValuesShown
<1> QED BY <1>6, <1>7, <1>8 DEF Ordered

LEMMA NoHang ==
  ASSUME NEW hp, NEW t, Shaped(t), Ordered(hp, t), NEW k \in Keys
  PROVE  /\ ~Hangs(hp, Bucket(t, k), k)
         /\ t.rehashingSize # 0 => ~Hangs(hp, NewBucket(t, k), k)
<1>1. PICK F : Sorted(hp, t, F)
  BY DEF Ordered
<1>2. HeadsHave(t) /\ World(hp, Hd(t), F) /\ Homes(t, k)
  BY <1>1, HeadsAre, HomesAre DEF Sorted
<1>3. DOMAIN F = Names(t)
  BY <1>2 DEF HeadsHave, World
<1>4. ~Hangs(hp, Hd(t)[Hash(k, t.size)], k) /\ Hd(t)[Hash(k, t.size)] = Bucket(t, k)
  <2>1. Hash(k, t.size) \in DOMAIN F
    BY <1>2, <1>3 DEF Homes
  <2> QED BY <1>2, <2>1, FoundIs DEF HeadsHave, Homes, Bucket
<1>5. ASSUME t.rehashingSize # 0
      PROVE  ~Hangs(hp, Hd(t)[NameOf(t, k)], k) /\ Hd(t)[NameOf(t, k)] = NewBucket(t, k)
  <2>1. NameOf(t, k) \in DOMAIN F
    BY <1>2, <1>3, <1>5 DEF Homes
  <2>2. Hd(t)[NameOf(t, k)] = NewBucket(t, k)
    BY <1>2, <1>5 DEF HeadsHave, Homes, NameOf, NewBucket
  <2> QED BY <1>2, <2>1, <2>2, FoundIs
<1> QED BY <1>4, <1>5

\* What Delete has made of the values of k.
Unsets(hp, t, gp, g, k) ==
  /\ g.count = t.count
  /\ IF Rehashing(t)
     THEN /\ Olds(gp, g) = [Olds(hp, t) EXCEPT ![k] = Table!Rest(Olds(hp, t)[k])]
          /\ News(gp, g) = [News(hp, t) EXCEPT ![k] = Table!Rest(News(hp, t)[k])]
     ELSE OldChange(hp, t, gp, g, k, Table!Rest(Olds(hp, t)[k]))

LEMMA UnsetsShows ==
  ASSUME NEW hp, NEW t, NEW T, Shows(hp, t, T), NEW gp, NEW g, SameNumbers(t, g), NEW k, Unsets(hp, t, gp, g, k)
  PROVE  Shows(gp, g, Table!AfterDelete(T, k))
<1> DEFINE U == Table!AfterDelete(T, k)
<1>1. /\ T.table = Olds(hp, t) /\ T.rehashingTbl = News(hp, t) /\ T.size = t.size
      /\ T.rehashingIdx = t.rehashingIdx /\ T.rehashingSize = t.rehashingSize /\ T.count = t.count
      /\ T = [table |-> T.table, size |-> T.size, rehashingIdx |-> T.rehashingIdx,
              rehashingSize |-> T.rehashingSize, rehashingTbl |-> T.rehashingTbl, count |-> T.count]
  BY DEF Shows
<1>2. Table!Rehashing(T) <=> Rehashing(t)
  BY <1>1 DEF Table!Rehashing, Rehashing
<1> DEFINE y == Table!Rest(Olds(hp, t)[k])
           z == Table!Rest(News(hp, t)[k])
<1>3. CASE Rehashing(t)
  <2>1. U = [T EXCEPT !.table[k] = y, !.rehashingTbl[k] = z]
    BY <1>1, <1>2, <1>3 DEF Table!AfterDelete
  <2>2. News(gp, g) = [News(hp, t) EXCEPT ![k] = z] /\ Olds(gp, g) = [Olds(hp, t) EXCEPT ![k] = y] /\ g.count = t.count
    BY <1>3 DEF Unsets
  <2> HIDE DEF U, y, z
  <2>3. U = [table |-> [T.table EXCEPT ![k] = y], size |-> T.size, rehashingIdx |-> T.rehashingIdx,
             rehashingSize |-> T.rehashingSize, rehashingTbl |-> [T.rehashingTbl EXCEPT ![k] = z], count |-> T.count]
    BY <1>1, <2>1
  <2>4. Shows(gp, g, U)
    BY <1>1, <2>2, <2>3 DEF Shows, SameNumbers
  <2> QED BY <2>4 DEF U
<1>4. CASE ~Rehashing(t)
  <2>1. U = [T EXCEPT !.table[k] = y]
    BY <1>1, <1>2, <1>4 DEF Table!AfterDelete
  <2>2. Olds(gp, g) = [Olds(hp, t) EXCEPT ![k] = y] /\ News(gp, g) = News(hp, t) /\ g.count = t.count
    BY <1>4 DEF Unsets, OldChange
  <2> HIDE DEF U, y, z
  <2>3. U = [table |-> [T.table EXCEPT ![k] = y], size |-> T.size, rehashingIdx |-> T.rehashingIdx,
             rehashingSize |-> T.rehashingSize, rehashingTbl |-> T.rehashingTbl, count |-> T.count]
    BY <1>1, <2>1
  <2>4. Shows(gp, g, U)
    BY <1>1, <2>2, <2>3 DEF Shows, SameNumbers
  <2> QED BY <2>4 DEF U
<1> QED BY <1>3, <1>4

LEMMA DeletedIsAfter ==
  ASSUME NEW n \in Nat \ {0}, Loose(heap, h, n), Between(h), Ordered(heap, h), NEW k \in Keys, NEW T, Shows(heap, h, T)
  PROVE  LET r == Deleted(k) IN Ordered(r.heap, r.h) /\ Shows(r.heap, r.h, Table!AfterDelete(T, k)) /\ ~DeleteHangs(k)
<1> DEFINE r == Deleted(k)
           d == FromOld(k)
           u == WithOld(h, d.tbl, h.count)
           e == FromNew(k)
           i == Hash(k, h.size)
           j == Hash(k, h.rehashingSize)
<1>1. h \in TableType /\ Shaped(h) /\ Homes(h, k) /\ (Rehashing(h) => h.rehashingSize # 0) /\ h.size \in Nat
  BY LooseShaped, HomesAre DEF Loose, Books, TableType
<1>2. Loose(r.heap, r.h, n) /\ Shaped(r.h)
  BY DeletedKeeps, LooseShaped
<1>3. d = DeleteFromTable(heap, h.table, i, k)
  BY DEF FromOld
<1> HIDE DEF d
<1>4. d.tbl \in Tables /\ d.tbl \in [0..(h.size - 1) -> Pointers]
  <2>1. HeapIn(heap, n) /\ TableIn(heap, h.table, h.size, n) /\ i \in 0..(h.size - 1)
    BY <1>1 DEF Loose, Homes
  <2> HIDE DEF i
  <2>2. TableIn(d.heap, d.tbl, h.size, n) /\ d.tbl \in Tables
    BY <1>1, <1>3, <2>1, DeleteKeeps
  <2> QED BY <2>2 DEF TableIn
<1>5. Changed(h, d.tbl, h.rehashingTbl, h.count, u)
  <2>1. h.count \in Nat
    BY <1>1 DEF TableType
  <2> QED BY <1>1, <1>4, <2>1, OldChanged
<1> HIDE DEF u
<1>6. SameSizes(h, u) /\ u.table = d.tbl /\ u.rehashingTbl = h.rehashingTbl /\ u.count = h.count /\ SameNumbers(h, u)
  BY <1>1, <1>4, <1>5 DEF Changed, SameSizes, Shaped, SameNumbers
<1>7. Ordered(d.heap, u) /\ OldChange(heap, h, d.heap, u, k, Table!Rest(Olds(heap, h)[k]))
  BY <1>3, <1>6, OldDeletes
<1>8. ~Hangs(heap, Bucket(h, k), k) /\ (Rehashing(h) => ~Hangs(d.heap, NewBucket(h, k), k))
  <2>1. Shaped(u)
    BY <1>6 DEF SameSizes
  <2>2. u.rehashingSize # 0 => ~Hangs(d.heap, NewBucket(u, k), k)
    BY <1>7, <2>1, NoHang
  <2>3. NewBucket(u, k) = NewBucket(h, k) /\ u.rehashingSize = h.rehashingSize
    BY <1>6 DEF NewBucket, SameSizes
  <2> QED BY <1>1, <2>2, <2>3, NoHang
<1>9. ~DeleteHangs(k)
  BY <1>8 DEF DeleteHangs, d
<1>10. CASE ~Rehashing(h)
  <2>1. r.heap = d.heap /\ r.h = u
    <3>1. r.heap = d.heap /\ r.h = [h EXCEPT !.table = d.tbl]
      BY <1>10 DEF Deleted, d
    <3>2. u = [h EXCEPT !.table = d.tbl]
      BY <1>1 DEF u, WithOld, TableType
    <3> QED BY <3>1, <3>2
  <2>2. Unsets(heap, h, d.heap, u, k)
    BY <1>6, <1>7, <1>10 DEF Unsets
  <2>3. Shows(d.heap, u, Table!AfterDelete(T, k))
    BY <1>6, <2>2, UnsetsShows
  <2> QED BY <1>7, <1>9, <2>1, <2>3
<1>11. CASE Rehashing(h)
  <2>1. e = DeleteFromTable(d.heap, u.rehashingTbl, Hash(k, u.rehashingSize), k)
    BY <1>6 DEF FromNew, d, SameSizes
  <2> HIDE DEF e
  <2>2. r.heap = e.heap /\ r.h = [h EXCEPT !.table = d.tbl, !.rehashingTbl = e.tbl]
    BY <1>11 DEF Deleted, d, e
  <2> DEFINE g == r.h
  <2>3. g.table = u.table /\ g.rehashingTbl = e.tbl /\ g.count = h.count /\ SameNumbers(h, g)
    BY <1>1, <1>6, <2>2 DEF SameNumbers, TableType
  <2>4. SameSizes(u, g) /\ u.rehashingSize # 0
    BY <1>1, <1>2, <1>6, <1>11, <2>3 DEF SameSizes, SameNumbers
  <2> HIDE DEF g
  <2>5. Ordered(e.heap, g) /\ NewChange(d.heap, u, e.heap, g, k, Table!Rest(News(d.heap, u)[k]))
    BY <1>7, <2>1, <2>3, <2>4, NewDeletes
  <2>6. Unsets(heap, h, e.heap, g, k)
    <3>1. News(d.heap, u) = News(heap, h) /\ Olds(d.heap, u) = [Olds(heap, h) EXCEPT ![k] = Table!Rest(Olds(heap, h)[k])]
      BY <1>7 DEF OldChange
    <3>2. /\ News(e.heap, g) = [News(d.heap, u) EXCEPT ![k] = Table!Rest(News(d.heap, u)[k])]
          /\ Olds(e.heap, g) = Olds(d.heap, u)
      BY <2>5 DEF NewChange
    <3> QED BY <1>11, <2>3, <3>1, <3>2 DEF Unsets
  <2>7. Shows(e.heap, g, Table!AfterDelete(T, k))
    BY <2>3, <2>6, UnsetsShows
  <2> QED BY <1>9, <2>2, <2>5, <2>7 DEF g
<1> QED BY <1>10, <1>11

-----------------------------------------------------------------------------
(***************************************************************************)
(* The garbage collector.                                                  *)
(***************************************************************************)
LEMMA CollectedShows ==
  ASSUME NEW n, NEW hp, NEW t, Loose(hp, t, n), Ordered(hp, t), NEW T, Shows(hp, t, T), NEW gp, gp = Collected(hp, t)
  PROVE  Ordered(gp, t) /\ Shows(gp, t, T)
<1> DEFINE R == Live(hp, t)
<1>1. Swept(hp, t, gp) /\ Shaped(t) /\ HeadsHave(t)
  BY CollectedKeeps, LooseShaped, HeadsAre
<1>2. Frame(hp, gp, R) /\ Heads(t) \subseteq R \cup {Nil} /\ gp \in HeapType /\ Entries(gp) = R /\ \A p \in R : gp[p] = hp[p]
  BY <1>1 DEF Swept
<1>3. PICK F : Sorted(hp, t, F)
  BY DEF Ordered
<1>4. World(hp, Hd(t), F) /\ Placed(hp, t, F) /\ DOMAIN F = Names(t)
  BY <1>1, <1>3 DEF Sorted, World, HeadsHave
<1>5. \A b \in Names(t) : Hd(t)[b] \in Heads(t)
  <2> SUFFICES ASSUME NEW b \in Names(t) PROVE Hd(t)[b] \in Heads(t)
    OBVIOUS
  <2>1. /\ \A i \in 0..(t.size - 1) : t.table[i] \in Heads(t)
        /\ \A i \in 0..(t.rehashingSize - 1) : t.rehashingTbl[i] \in Heads(t)
    BY LooseHeads
  <2>2. CASE b \in 0..(t.size - 1)
    BY <1>1, <2>1, <2>2 DEF HeadsHave
  <2>3. CASE b \notin 0..(t.size - 1)
    <3> DEFINE j == b - t.size
    <3>1. j \in 0..(t.rehashingSize - 1) /\ t.size + j = b
      <4>1. b \in Nat /\ t.size \in Nat
        BY <1>1 DEF HeadsHave, Names
      <4> QED BY <1>1, <2>3, <4>1 DEF HeadsHave
    <3> HIDE DEF j
    <3> QED BY <1>1, <2>1, <3>1 DEF HeadsHave
  <2> QED BY <2>2, <2>3
<1> HIDE DEF R
<1>6. \A b \in Names(t) : F[b] \in Seq(Entries(hp)) /\ \A i \in 1..Len(F[b]) : F[b][i] \in R
  <2> SUFFICES ASSUME NEW b \in Names(t) PROVE F[b] \in Seq(Entries(hp)) /\ \A i \in 1..Len(F[b]) : F[b][i] \in R
    OBVIOUS
  <2>1. Chain(hp, Hd(t)[b]) = F[b] /\ F[b] \in Seq(Entries(hp))
    BY <1>4, WorldChain DEF World, Lists
  <2>2. Hd(t)[b] \in R \cup {Nil}
    BY <1>2, <1>5
  <2>3. \A i \in 1..Len(Chain(hp, Hd(t)[b])) : Chain(hp, Hd(t)[b])[i] \in R
    BY <1>2, <2>2, ChainFrame
  <2> QED BY <2>1, <2>3
<1>7. World(gp, Hd(t), F)
  <2>1. SameLists(hp, gp, F)
    BY <1>2, <1>4, <1>6 DEF SameLists
  <2> QED BY <1>2, <1>4, <2>1, WorldFrame
<1>8. Placed(gp, t, F)
  BY <1>2, <1>4, <1>6 DEF Placed
<1>9. Sorted(gp, t, F)
  BY <1>7, <1>8 DEF Sorted
<1>10. ASSUME NEW b \in Names(t), NEW k \in Keys PROVE ValuesOn(gp, F[b], k) = ValuesOn(hp, F[b], k)
  <2>1. Alike(hp, F[b], gp, F[b], Len(F[b]))
    BY <1>2, <1>6 DEF Alike
  <2> QED BY <1>6, <2>1, ValuesFrame
<1>11. ASSUME NEW k \in Keys PROVE Olds(gp, t)[k] = Olds(hp, t)[k] /\ News(gp, t)[k] = News(hp, t)[k]
  <2>1. ValuesShown(hp, t, F, k) /\ ValuesShown(gp, t, F, k) /\ Homes(t, k)
    BY <1>1, <1>3, <1>9, ValuesAre, HomesAre
  <2> QED BY <1>10, <2>1 DEF ValuesShown, Homes
<1>12. Olds(gp, t) = Olds(hp, t) /\ News(gp, t) = News(hp, t)
  <2>1. /\ Olds(hp, t) = [k \in Keys |-> Olds(hp, t)[k]] /\ News(hp, t) = [k \in Keys |-> News(hp, t)[k]]
        /\ Olds(gp, t) = [k \in Keys |-> Olds(gp, t)[k]] /\ News(gp, t) = [k \in Keys |-> News(gp, t)[k]]
    BY ValueFunctions
  <2> QED BY <1>11, <2>1
<1> QED BY <1>9, <1>12 DEF Ordered, Shows

-----------------------------------------------------------------------------
(***************************************************************************)
(* The calls of the expire table.                                          *)
(***************************************************************************)
\* The expire table never hangs, and its chains are lists.
OrderInv == LooseInv /\ (role = "expire" => ~hung /\ Ordered(heap, h))

\* What HashTable sees of the expire table.
View == IF role = "expire" THEN AsHashTable(heap, h) ELSE Untouched

LEMMA OrderInit == Init => OrderInv /\ View = Table!NewHashTable(InitSize)
<1> SUFFICES ASSUME Init PROVE OrderInv /\ View = Table!NewHashTable(InitSize)
  OBVIOUS
<1>1. LooseInv /\ Loose(heap, h, InitSize)
  BY LooseInit DEF LooseInv
<1>2. Shaped(h) /\ HeadsHave(h) /\ heap \in HeapType
  BY <1>1, LooseShaped, HeadsAre DEF Loose, HeapIn
<1>3. /\ h.table = NewTable(InitSize) /\ h.size = InitSize /\ h.rehashingIdx = -1 /\ h.rehashingSize = 0
      /\ h.rehashingTbl = <<>> /\ h.count = 0 /\ hung = FALSE
  BY DEF Init
<1> DEFINE F == [b \in Names(h) |-> <<>>]
<1>4. \A b \in Names(h) : Hd(h)[b] = Nil
  <2> SUFFICES ASSUME NEW b \in Names(h) PROVE Hd(h)[b] = Nil
    OBVIOUS
  <2>1. b \in 0..(InitSize - 1)
    BY <1>3, SizeAssumption DEF Names
  <2> QED BY <1>2, <1>3, <2>1 DEF HeadsHave, NewTable
<1>5. DOMAIN F = Names(h) /\ F = [b \in DOMAIN F |-> F[b]] /\ \A b \in Names(h) : F[b] = <<>> /\ Len(F[b]) = 0
  OBVIOUS
<1> HIDE DEF F
<1>6. World(heap, Hd(h), F)
  <2>1. Lists(heap, F)
    <3>1. <<>> \in Seq(Entries(heap))
      OBVIOUS
    <3>2. \A b \in DOMAIN F : F[b] \in Seq(Entries(heap))
      BY <1>5, <3>1
    <3> QED BY <1>5, <3>2 DEF Lists
  <2>2. Apart(F) /\ Follows(heap, F)
    BY <1>5 DEF Apart, Follows
  <2>3. \A b \in DOMAIN F : Hd(h)[b] = Item(F[b], 1)
    BY <1>4, <1>5 DEF Item
  <2>4. Hd(h) \in [DOMAIN F -> Pointers]
    BY <1>2, <1>5 DEF HeadsHave
  <2> QED BY <1>2, <2>1, <2>2, <2>3, <2>4 DEF World
<1>7. Sorted(heap, h, F)
  <2>1. Placed(heap, h, F)
    BY <1>5 DEF Placed
  <2> QED BY <1>6, <2>1 DEF Sorted
<1>8. OrderInv
  BY <1>1, <1>3, <1>7 DEF OrderInv, Ordered
<1>9. Untouched = Table!NewHashTable(InitSize)
  BY DEF Untouched, Table!NewHashTable, Table!NoEntries
<1>10. Olds(heap, h) = Table!NoEntries /\ News(heap, h) = Table!NoEntries
  <2>1. ASSUME NEW k \in Keys PROVE Olds(heap, h)[k] = <<>> /\ News(heap, h)[k] = <<>>
    <3>1. ValuesShown(heap, h, F, k) /\ Homes(h, k)
      BY <1>2, <1>7, ValuesAre, HomesAre
    <3> QED BY <1>3, <1>5, <3>1, ValuesEmpty DEF ValuesShown, Homes
  <2>2. Olds(heap, h) = [k \in Keys |-> Olds(heap, h)[k]] /\ News(heap, h) = [k \in Keys |-> News(heap, h)[k]]
    BY ValueFunctions
  <2> QED BY <2>1, <2>2 DEF Table!NoEntries
<1>11. AsHashTable(heap, h) = Table!NewHashTable(InitSize)
  <2>1. Shows(heap, h, Table!NewHashTable(InitSize))
    BY <1>3, <1>10 DEF Shows, Table!NewHashTable
  <2> QED BY <2>1, ShowsAs
<1> QED BY <1>8, <1>9, <1>11 DEF View

\* A call that returns.
LEMMA OrderReturn ==
  ASSUME NEW s, Loose(s.heap, s.h, InitSize), Ordered(s.heap, s.h), NEW T, Shows(s.heap, s.h, T),
         LooseInv', role = "expire", ~hung, Return(s), UNCHANGED role
  PROVE  OrderInv' /\ View' = T
<1>1. heap' = Collected(s.heap, s.h) /\ h' = s.h /\ hung' = hung /\ role' = role
  BY DEF Return
<1> DEFINE gp == heap'
<1>2. Ordered(gp, s.h) /\ Shows(gp, s.h, T)
  <2>1. gp = Collected(s.heap, s.h)
    BY <1>1
  <2> HIDE DEF gp
  <2> QED BY <2>1, CollectedShows
<1>3. Ordered(heap', h') /\ Shows(heap', h', T)
  BY <1>1, <1>2
<1>4. AsHashTable(heap', h') = T
  BY <1>3, ShowsAs
<1>5. OrderInv'
  BY <1>1, <1>3 DEF OrderInv
<1>6. View' = T
  BY <1>1, <1>4 DEF View
<1> QED BY <1>5, <1>6

LEMMA OrderSet ==
  ASSUME OrderInv, role = "expire", ~hung, NEW k \in Keys, NEW v \in Values, Set(k, v), UNCHANGED role
  PROVE  OrderInv' /\ View' = Table!AfterSet(View, k, v)
<1> DEFINE s == Stepped(heap, h)
           a == Stored(s, k, v)
           r == [heap |-> a.heap, h |-> Resized(a.h)]
           T == AsHashTable(heap, h)
<1>1. ~Full(heap) /\ IF s.hangs \/ SetHangs(s, k) THEN Hang ELSE Return(r)
  BY DEF Set, Room, Full
<1>2. LooseInv /\ Loose(heap, h, InitSize) /\ Between(h) /\ InitSize \in Nat \ {0} /\ Ordered(heap, h)
  BY SizeAssumption DEF OrderInv, LooseInv
<1>3. Shows(heap, h, T) /\ View = T
  BY AsShows DEF View
<1> HIDE DEF T
<1>4. Loose(s.heap, s.h, InitSize) /\ Between(s.h) /\ ~Full(s.heap)
  <2> HIDE DEF s
  <2>1. s = Stepped(heap, h)
    BY DEF s
  <2> QED BY <1>1, <1>2, <2>1, LooseStepped
<1>5. Ordered(s.heap, s.h) /\ s.hangs = FALSE /\ Shows(s.heap, s.h, Table!Stepped(T))
  <2> HIDE DEF s
  <2>1. s = Stepped(heap, h)
    BY DEF s
  <2> QED BY <1>2, <1>3, <2>1, SteppedIsStepped
<1> HIDE DEF s
<1>6. Kept(s, InitSize, k, a)
  BY <1>2, <1>4, StoredKeeps
<1>7. Ordered(a.heap, a.h) /\ Shows(a.heap, a.h, Table!Inserted(Table!Stepped(T), k, v)) /\ ~SetHangs(s, k)
  <2> HIDE DEF a
  <2>1. a = Stored(s, k, v)
    BY DEF a
  <2> QED BY <1>2, <1>4, <1>5, <2>1, StoredIsInserted
<1> HIDE DEF a
<1>8. Loose(a.heap, a.h, InitSize) /\ Between(a.h)
  BY <1>6 DEF Kept
<1>9. Loose(a.heap, Resized(a.h), InitSize)
  BY <1>2, <1>8, ResizedKeeps
<1>10. Ordered(a.heap, Resized(a.h)) /\ Shows(a.heap, Resized(a.h), Table!Resized(Table!Inserted(Table!Stepped(T), k, v)))
  BY <1>2, <1>7, <1>8, ResizedIsResized
<1>11. /\ Loose(r.heap, r.h, InitSize) /\ Ordered(r.heap, r.h)
       /\ Shows(r.heap, r.h, Table!AfterSet(T, k, v)) /\ Return(r)
  BY <1>1, <1>5, <1>7, <1>9, <1>10 DEF Table!AfterSet
<1>12. LooseInv'
  BY <1>2, LooseSet
<1> HIDE DEF r
<1> QED BY <1>3, <1>11, <1>12, OrderReturn

LEMMA OrderDelete ==
  ASSUME OrderInv, role = "expire", ~hung, NEW k \in Keys, Delete(k), UNCHANGED role
  PROVE  OrderInv' /\ View' = Table!AfterDelete(View, k)
<1> DEFINE r == Deleted(k)
           T == AsHashTable(heap, h)
<1>1. LooseInv /\ Loose(heap, h, InitSize) /\ Between(h) /\ InitSize \in Nat \ {0} /\ Ordered(heap, h)
  BY SizeAssumption DEF OrderInv, LooseInv
<1>2. Shows(heap, h, T) /\ View = T
  BY AsShows DEF View
<1> HIDE DEF T
<1>3. Ordered(r.heap, r.h) /\ Shows(r.heap, r.h, Table!AfterDelete(T, k)) /\ ~DeleteHangs(k)
  BY <1>1, <1>2, DeletedIsAfter
<1>4. Loose(r.heap, r.h, InitSize)
  BY <1>1, DeletedKeeps
<1>5. Return(r)
  BY <1>3 DEF Delete
<1>6. LooseInv'
  BY <1>1, LooseDelete
<1> HIDE DEF r
<1> QED BY <1>2, <1>3, <1>4, <1>5, <1>6, OrderReturn

\* A step of the expire table is a step of HashTable, and one of the keyspace
\* is none.
LEMMA OrderNext == OrderInv /\ [Next]_vars => OrderInv' /\ (Table!Next \/ UNCHANGED View)
<1> SUFFICES ASSUME OrderInv, [Next]_vars PROVE OrderInv' /\ (Table!Next \/ UNCHANGED View)
  OBVIOUS
<1>1. CASE UNCHANGED vars
  <2>1. heap' = heap /\ h' = h /\ hung' = hung /\ role' = role
    BY <1>1 DEF vars
  <2>2. LooseInv'
    BY LooseNext DEF OrderInv
  <2> QED BY <2>1, <2>2 DEF OrderInv, View
<1>2. CASE Next /\ role # "expire"
  <2>1. LooseInv' /\ role' = role
    BY <1>2, LooseNext DEF OrderInv, Next
  <2> QED BY <1>2, <2>1 DEF OrderInv, View
<1>3. CASE Next /\ role = "expire"
  <2>1. ~hung /\ UNCHANGED role
    BY <1>3 DEF Next
  <2>2. PICK k \in Keys : Delete(k) \/ \E v \in Values : Set(k, v)
    BY <1>3 DEF Next
  <2>3. CASE Delete(k)
    <3>1. OrderInv' /\ View' = Table!AfterDelete(View, k)
      BY <1>3, <2>1, <2>3, OrderDelete
    <3>2. Table!Delete(k)
      BY <3>1 DEF Table!Delete, View
    <3> QED BY <3>1, <3>2 DEF Table!Next
  <2>4. ASSUME NEW v \in Values, Set(k, v) PROVE OrderInv' /\ Table!Next
    <3>1. OrderInv' /\ View' = Table!AfterSet(View, k, v)
      BY <1>3, <2>1, <2>4, OrderSet
    <3>2. View.count < MaxCount
      BY <1>3, <2>4 DEF Set, View, AsHashTable
    <3>3. Table!Set(k, v)
      BY <3>1, <3>2 DEF Table!Set, View
    <3> QED BY <3>1, <3>3 DEF Table!Next
  <2> QED BY <2>2, <2>3, <2>4
<1> QED BY <1>1, <1>2, <1>3 DEF vars

LEMMA OrderAlways == Spec => []OrderInv
<1>1. Init => OrderInv
  BY OrderInit
<1>2. OrderInv /\ [Next]_vars => OrderInv'
  BY OrderNext
<1> QED BY <1>1, <1>2, PTL DEF Spec

\* Under the names that the buckets have in Buckets.
LEMMA SortedBuckets ==
  ASSUME Shaped(h), NEW F, Sorted(heap, h, F), NEW b \in Buckets
  PROVE  \E q \in Names(h) : /\ b[3] = Hd(h)[q] /\ In(b) = Range(F[q]) /\ ~Endless(heap, b[3])
                             /\ IF q < h.size THEN b = <<h.size, q, b[3]>> ELSE b = <<h.rehashingSize, q - h.size, b[3]>>
<1>1. HeadsHave(h) /\ World(heap, Hd(h), F)
  BY HeadsAre DEF Sorted
<1>2. DOMAIN F = Names(h) /\ DOMAIN h.table = 0..(h.size - 1) /\ DOMAIN h.rehashingTbl = 0..(h.rehashingSize - 1)
  BY <1>1 DEF World, HeadsHave, Shaped
<1>3. ASSUME NEW q \in Names(h), b[3] = Hd(h)[q]
      PROVE  In(b) = Range(F[q]) /\ ~Endless(heap, b[3])
  <2>1. Chain(heap, Hd(h)[q]) = F[q] /\ ~Endless(heap, Hd(h)[q])
    BY <1>1, <1>2, WorldChain
  <2> QED BY <1>3, <2>1, InChain
<1>4. (\E i : BucketAt(b, h.size, h.table, i)) \/ (\E i : BucketAt(b, h.rehashingSize, h.rehashingTbl, i))
  BY BucketsAre
<1>5. ASSUME NEW i, BucketAt(b, h.size, h.table, i)
      PROVE  \E q \in Names(h) : /\ b[3] = Hd(h)[q] /\ In(b) = Range(F[q]) /\ ~Endless(heap, b[3])
                                 /\ IF q < h.size THEN b = <<h.size, q, b[3]>> ELSE b = <<h.rehashingSize, q - h.size, b[3]>>
  <2>1. i \in 0..(h.size - 1) /\ b = <<h.size, i, h.table[i]>>
    BY <1>2, <1>5 DEF BucketAt
  <2>2. i \in Names(h) /\ Hd(h)[i] = h.table[i] /\ i < h.size
    BY <1>1, <2>1 DEF HeadsHave
  <2>3. b[3] = Hd(h)[i] /\ b = <<h.size, i, b[3]>>
    BY <2>1, <2>2
  <2>4. In(b) = Range(F[i]) /\ ~Endless(heap, b[3])
    BY <1>3, <2>2, <2>3
  <2> QED BY <2>2, <2>3, <2>4
<1>6. ASSUME NEW i, BucketAt(b, h.rehashingSize, h.rehashingTbl, i)
      PROVE  \E q \in Names(h) : /\ b[3] = Hd(h)[q] /\ In(b) = Range(F[q]) /\ ~Endless(heap, b[3])
                                 /\ IF q < h.size THEN b = <<h.size, q, b[3]>> ELSE b = <<h.rehashingSize, q - h.size, b[3]>>
  <2> DEFINE q == h.size + i
  <2>1. i \in 0..(h.rehashingSize - 1) /\ b = <<h.rehashingSize, i, h.rehashingTbl[i]>>
    BY <1>2, <1>6 DEF BucketAt
  <2>2. q \in Names(h) /\ Hd(h)[q] = h.rehashingTbl[i] /\ ~(q < h.size) /\ q - h.size = i
    BY <1>1, <2>1 DEF HeadsHave
  <2>3. b[3] = Hd(h)[q] /\ b = <<h.rehashingSize, q - h.size, b[3]>>
    BY <2>1, <2>2
  <2> HIDE DEF q
  <2>4. In(b) = Range(F[q]) /\ ~Endless(heap, b[3])
    BY <1>3, <2>2, <2>3
  <2> QED BY <2>2, <2>3, <2>4
<1> QED BY <1>4, <1>5, <1>6

LEMMA OrderedInOrder ==
  ASSUME Shaped(h), Ordered(heap, h)
  PROVE  InOrder
<1>1. PICK F : Sorted(heap, h, F)
  BY DEF Ordered
<1>2. World(heap, Hd(h), F) /\ Placed(heap, h, F) /\ HeadsHave(h)
  BY <1>1, HeadsAre DEF Sorted
<1>3. Apart(F) /\ DOMAIN F = Names(h) /\ heap \in HeapType /\ \A q \in Names(h) : F[q] \in Seq(Entries(heap))
  BY <1>2 DEF World, HeadsHave, Lists
<1>4. ASSUME NEW q \in Names(h), NEW p \in Range(F[q])
      PROVE  \E i \in 1..Len(F[q]) : F[q][i] = p
  <2>1. DOMAIN F[q] = 1..Len(F[q])
    BY <1>3
  <2> QED BY <2>1 DEF Range
<1>5. ASSUME NEW b \in Buckets
      PROVE  ~Endless(heap, b[3]) /\ \A p \in In(b) : Hash(heap[p].key, b[1]) = b[2]
  <2>1. PICK q \in Names(h) :
          /\ b[3] = Hd(h)[q] /\ In(b) = Range(F[q]) /\ ~Endless(heap, b[3])
          /\ IF q < h.size THEN b = <<h.size, q, b[3]>> ELSE b = <<h.rehashingSize, q - h.size, b[3]>>
    BY <1>1, SortedBuckets
  <2>2. ASSUME NEW p \in In(b) PROVE Hash(heap[p].key, b[1]) = b[2]
    <3>1. PICK i \in 1..Len(F[q]) : F[q][i] = p
      BY <1>4, <2>1
    <3>2. Belongs(h, q, heap[p].key) /\ p \in Entries(heap)
      BY <1>2, <1>3, <3>1 DEF Placed
    <3>3. heap[p].key \in Keys
      BY <1>3, <3>2, LinksType DEF EntryType
    <3> DEFINE k == heap[p].key
    <3>4. CASE q < h.size
      <4>1. b[1] = h.size /\ b[2] = q
        BY <2>1, <3>4
      <4> QED BY <3>2, <3>4, <4>1 DEF Belongs
    <3>5. CASE ~(q < h.size)
      <4>1. b[1] = h.rehashingSize /\ b[2] = q - h.size
        BY <2>1, <3>5
      <4>2. h.size + Hash(k, h.rehashingSize) = q
        BY <3>2, <3>5 DEF Belongs
      <4>3. h.size \in Nat /\ h.rehashingSize \in Nat \ {0} /\ q \in Nat
        BY <1>2, <3>5 DEF HeadsHave, Names
      <4> HIDE DEF k
      <4>4. Hash(k, h.rehashingSize) \in Nat
        BY <3>3, <4>3, HashType DEF k
      <4> QED BY <4>1, <4>2, <4>3, <4>4 DEF k
    <3> QED BY <3>4, <3>5
  <2> QED BY <2>1, <2>2
<1>6. ASSUME NEW a \in Buckets, NEW b \in Buckets, a # b
      PROVE  In(a) \cap In(b) = {}
  <2>1. PICK q \in Names(h) :
          /\ a[3] = Hd(h)[q] /\ In(a) = Range(F[q]) /\ ~Endless(heap, a[3])
          /\ IF q < h.size THEN a = <<h.size, q, a[3]>> ELSE a = <<h.rehashingSize, q - h.size, a[3]>>
    BY <1>1, SortedBuckets
  <2>2. PICK r \in Names(h) :
          /\ b[3] = Hd(h)[r] /\ In(b) = Range(F[r]) /\ ~Endless(heap, b[3])
          /\ IF r < h.size THEN b = <<h.size, r, b[3]>> ELSE b = <<h.rehashingSize, r - h.size, b[3]>>
    BY <1>1, SortedBuckets
  <2>3. q # r
    BY <1>6, <2>1, <2>2
  <2> SUFFICES ASSUME NEW p \in In(a), p \in In(b) PROVE FALSE
    OBVIOUS
  <2>4. PICK i \in 1..Len(F[q]) : F[q][i] = p
    BY <1>4, <2>1
  <2>5. PICK j \in 1..Len(F[r]) : F[r][j] = p
    BY <1>4, <2>2
  <2> QED BY <1>3, <2>3, <2>4, <2>5, ApartIs
<1> QED BY <1>5, <1>6 DEF InOrder

\* ChainsAreLists: in the expire table no call of Set, Delete or rehashStep
\* (dict.go:47, 75 and 138) knots a chain, shares an entry between two buckets or leaves
\* one where its key does not hash to, so that none of them hangs.
THEOREM ChainsAreListsOk == Spec => []ChainsAreLists
<1>1. OrderInv => ChainsAreLists
  <2> SUFFICES ASSUME OrderInv PROVE ChainsAreLists
    OBVIOUS
  <2>1. HeapTypeOK /\ InClass(InitSize)
    BY LooseTypeOK DEF OrderInv
  <2>2. Shaped(h)
    BY LooseShaped DEF OrderInv, LooseInv
  <2>3. role = "expire" => ~hung /\ InOrder
    BY <2>2, OrderedInOrder DEF OrderInv
  <2> QED BY <2>1, <2>3 DEF ChainsAreLists
<1> QED BY <1>1, OrderAlways, PTL

\* ImplementsHashTable: Set and Delete (dict.go:47 and 75) of the expire table, on chains
\* of pointers, do to the values of every key what HashTable says, for any number of
\* keys, hash function and number of buckets moved by a step.
THEOREM ImplementsHashTableOk == Spec => ImplementsHashTable
<1>1. Init => Table!Init
  BY OrderInit DEF Table!Init, View
<1>2. OrderInv /\ [Next]_vars => [Table!Next]_(IF role = "expire" THEN AsHashTable(heap, h) ELSE Untouched)
  BY OrderNext DEF View
<1> QED BY <1>1, <1>2, OrderAlways, PTL DEF Spec, ImplementsHashTable, Table!Spec

-----------------------------------------------------------------------------
(***************************************************************************)
(* Count is at least the number of entries.                                *)
(***************************************************************************)
\* The links of R stay in R, and so do the heads.
Keeps(hp, t, R) == Within(hp, R) /\ Heads(t) \subseteq R \cup {Nil}

LEMMA LiveWithin ==
  ASSUME NEW hp, NEW t, NEW R, Keeps(hp, t, R)
  PROVE  Live(hp, t) \subseteq R
<1>1. hp \in HeapType /\ R \subseteq Entries(hp) /\ \A q \in R : hp[q].next \in R \cup {Nil}
  BY DEF Keeps, Within
<1>2. R \cup {Nil} \subseteq Pointers
  BY <1>1, LinksType, PointersAre
<1>3. ASSUME NEW p \in Heads(t) PROVE Range(Chain(hp, p)) \subseteq R
  <2> DEFINE c == Chain(hp, p)
  <2>1. p \in R \cup {Nil} /\ p \in Pointers
    BY <1>2, <1>3 DEF Keeps
  <2>2. ChainIn(hp, p, R, c)
    BY <1>1, <2>1, ChainSteps
  <2> HIDE DEF c
  <2>3. \A i \in 1..Len(c) : c[i] \in R
    BY <2>2 DEF ChainIn
  <2>4. DOMAIN c = 1..Len(c)
    BY <2>2 DEF ChainIn
  <2>5. Range(c) \subseteq R
    BY <2>3, <2>4 DEF Range
  <2> QED BY <2>5 DEF c
<1> QED BY <1>3 DEF Live, Reached

\* What a call has made of a table with the entries E and the count c.
Grown(E, c, gp, g) ==
  /\ g.count \in Nat /\ g.count >= c
  /\ \/ Keeps(gp, g, E)
     \/ /\ g.count >= c + 1 /\ Keeps(gp, g, Entries(gp))
        /\ \E e \in Addresses : Entries(gp) \subseteq E \cup {e}

LEMMA EntriesFinite ==
  ASSUME NEW E, E \subseteq Addresses
  PROVE  IsFiniteSet(E) /\ Cardinality(E) \in Nat
BY AddressesFinite, FS_Subset, FS_CardinalityType

LEMMA GrownCounts ==
  ASSUME NEW E, E \subseteq Addresses, NEW c \in Nat, Cardinality(E) <= c, NEW gp, NEW g, Grown(E, c, gp, g)
  PROVE  Cardinality(Live(gp, g)) <= g.count
<1>1. IsFiniteSet(E) /\ Cardinality(E) \in Nat
  BY EntriesFinite
<1>2. CASE Keeps(gp, g, E)
  <2>1. Live(gp, g) \subseteq E
    BY <1>2, LiveWithin
  <2>2. Cardinality(Live(gp, g)) <= Cardinality(E) /\ Cardinality(Live(gp, g)) \in Nat
    BY <1>1, <2>1, FS_Subset, FS_CardinalityType
  <2> QED BY <1>1, <2>2 DEF Grown
<1>3. CASE g.count >= c + 1 /\ Keeps(gp, g, Entries(gp)) /\ \E e \in Addresses : Entries(gp) \subseteq E \cup {e}
  <2>1. PICK e \in Addresses : Entries(gp) \subseteq E \cup {e}
    BY <1>3
  <2> DEFINE F == E \cup {e}
  <2>2. IsFiniteSet(F) /\ Cardinality(F) \in Nat /\ Cardinality(F) <= Cardinality(E) + 1
    <3>1. IsFiniteSet(F) /\ Cardinality(F) = IF e \in E THEN Cardinality(E) ELSE Cardinality(E) + 1
      BY <1>1, FS_AddElement
    <3> HIDE DEF F
    <3> QED BY <1>1, <3>1
  <2>3. Live(gp, g) \subseteq F
    BY <1>3, <2>1, LiveWithin
  <2> HIDE DEF F
  <2>4. Cardinality(Live(gp, g)) <= Cardinality(F) /\ Cardinality(Live(gp, g)) \in Nat
    BY <2>2, <2>3, FS_Subset, FS_CardinalityType
  <2>5. g.count \in Nat
    BY DEF Grown
  <2> QED BY <1>1, <1>3, <2>2, <2>4, <2>5
<1> QED BY <1>2, <1>3 DEF Grown

\* A call that keeps the classes and adds no entry.
LEMMA SameGrown ==
  ASSUME NEW n \in Nat \ {0}, NEW gp, NEW g, Loose(gp, g, n), NEW E, Entries(gp) = E, NEW c, g.count >= c
  PROVE  Grown(E, c, gp, g)
<1>1. Keeps(gp, g, Entries(gp))
  BY LooseHeads DEF Keeps
<1>2. g.count \in Nat
  BY DEF Loose, TableType
<1> QED BY <1>1, <1>2 DEF Grown

\* One that adds one.
LEMMA MoreGrown ==
  ASSUME NEW n \in Nat \ {0}, NEW gp, NEW g, Loose(gp, g, n), NEW E, NEW e \in Addresses,
         Entries(gp) \subseteq E \cup {e}, NEW c \in Nat, g.count >= c + 1
  PROVE  Grown(E, c, gp, g)
<1>1. Keeps(gp, g, Entries(gp))
  BY LooseHeads DEF Keeps
<1>2. g.count \in Nat
  BY DEF Loose, TableType
<1> QED BY <1>1, <1>2 DEF Grown

\* A loop of findPositionForInsert adds one to the count, or finds the key and changes nothing.
AddsOne(hp, tbl, a) == a.added = 1 \/ (a.added = 0 /\ a.exist /\ a.heap = hp /\ a.tbl = tbl)

LEMMA InsertionAdds ==
  ASSUME NEW hp, NEW tbl, NEW i, NEW k, NEW e
  PROVE  AddsOne(hp, tbl, Insertion(hp, tbl, i, k, e))
BY DEF Insertion, AddsOne

\* AddRaw links the new entry e and adds to the count, or leaves the table as it was.
Adds(s, e, r) ==
  /\ e \in Addresses /\ e \notin Entries(s.heap) /\ Entries(r.heap) = Entries(s.heap) \cup {e}
  /\ \/ r.h.count >= s.h.count + 1
     \/ /\ r.h.count = s.h.count /\ r.h.table = s.h.table /\ r.h.rehashingTbl = s.h.rehashingTbl
        /\ Rehashing(r.h) = Rehashing(s.h) /\ \A q \in Entries(s.heap) : r.heap[q] = s.heap[q]

LEMMA FindPositionForInsertAdds ==
  ASSUME NEW n \in Nat \ {0}, NEW s, Loose(s.heap, s.h, n), Between(s.h), ~Full(s.heap), NEW k \in Keys
  PROVE  Adds(s, NewAddress(s.heap), FindPositionForInsert(s, k))
<1> DEFINE t  == s.h
           e  == NewAddress(s.heap)
           hp == [s.heap EXCEPT ![e] = NewEntry(k, Unset)]
           i  == Hash(k, t.size)
           j  == Hash(k, t.rehashingSize)
           a  == Insertion(hp, t.rehashingTbl, j, k, e)
           b  == Insertion(hp, t.table, i, k, e)
           c  == Insertion(a.heap, t.table, i, k, e)
           r  == FindPositionForInsert(s, k)
<1>0. /\ t.size \in Nat \ {0} /\ t.count \in Nat /\ t.table \in Tables /\ t.rehashingTbl \in Tables
      /\ t.rehashingSize \in Nat /\ HeapIn(s.heap, n) /\ s.heap \in HeapType /\ t \in TableType
      /\ TableIn(s.heap, t.table, t.size, n) /\ TableIn(s.heap, t.rehashingTbl, t.rehashingSize, n)
      /\ i \in 0..(t.size - 1) /\ i % n = Hash(k, n)
      /\ Rehashing(t) => j \in 0..(t.rehashingSize - 1) /\ j % n = Hash(k, n)
  BY LooseSizes
<1>1. Made(s.heap, e, k, Unset, hp)
  BY <1>0, NewIsMade
<1>2. r = IF ~Rehashing(t)
          THEN [heap |-> b.heap, entry |-> b.entry, exist |-> b.exist,
                h |-> [t EXCEPT !.table = b.tbl, !.count = t.count + b.added]]
          ELSE IF a.exist
          THEN [heap |-> a.heap, entry |-> a.entry, exist |-> TRUE,
                h |-> [t EXCEPT !.rehashingTbl = a.tbl, !.count = t.count + a.added]]
          ELSE [heap |-> c.heap, entry |-> c.entry, exist |-> c.exist,
                h |-> [t EXCEPT !.rehashingTbl = a.tbl, !.table = c.tbl,
                                !.count = t.count + a.added + c.added]]
  BY DEF FindPositionForInsert
<1> HIDE DEF e, hp, r
<1>3. /\ HeapIn(hp, n) /\ e \in Belong(hp, n, Hash(k, n)) /\ hp[e].key = k
      /\ TableIn(hp, t.table, t.size, n) /\ TableIn(hp, t.rehashingTbl, t.rehashingSize, n)
  BY <1>0, <1>1, MadeKeeps, TableMade DEF Made
<1>4. /\ e \in Addresses /\ e \notin Entries(s.heap) /\ Entries(hp) = Entries(s.heap) \cup {e}
      /\ \A q \in Entries(s.heap) : hp[q] = s.heap[q]
  BY <1>1, <1>0, LinksType DEF Made
<1>5. t.count \in Nat
  BY <1>0
<1>6. CASE ~Rehashing(t)
  <2>1. Inserts(hp, t.table, t.size, n, k, b)
    <3> HIDE DEF i
    <3> QED BY <1>0, <1>3, InsertionKeeps
  <2>2. AddsOne(hp, t.table, b)
    BY InsertionAdds
  <2>3. r.heap = b.heap /\ r.h = [t EXCEPT !.table = b.tbl, !.count = t.count + b.added]
    BY <1>2, <1>6
  <2> HIDE DEF b, t
  <2>4. Entries(b.heap) = Entries(hp) /\ b.tbl \in Tables /\ b.added \in Nat
    BY <2>1 DEF Inserts, SameKeys
  <2>5. /\ r.h.count = t.count + b.added /\ r.h.table = b.tbl /\ r.h.rehashingTbl = t.rehashingTbl
        /\ r.h.rehashingIdx = t.rehashingIdx
    <3> DEFINE u  == b.tbl
               c0 == t.count + b.added
    <3>1. u \in Tables /\ c0 \in Nat /\ r.h = WithOld(t, u, c0)
      BY <1>5, <2>3, <2>4 DEF WithOld
    <3> HIDE DEF u, c0
    <3>2. Changed(t, u, t.rehashingTbl, c0, WithOld(t, u, c0))
      BY <1>0, <3>1, OldChanged
    <3> QED BY <3>1, <3>2 DEF Changed, u, c0
  <2> QED BY <1>4, <1>5, <2>2, <2>3, <2>4, <2>5 DEF AddsOne, Adds, Rehashing, t, r, e
<1>7. CASE Rehashing(t)
  <2>1. Inserts(hp, t.rehashingTbl, t.rehashingSize, n, k, a)
    <3> HIDE DEF j
    <3> QED BY <1>0, <1>3, <1>7, InsertionKeeps
  <2>2. AddsOne(hp, t.rehashingTbl, a)
    BY InsertionAdds
  <2>3. /\ Entries(a.heap) = Entries(hp) /\ HeapIn(a.heap, n) /\ SameKeys(hp, a.heap)
        /\ a.tbl \in Tables /\ a.added \in Nat
    <3> HIDE DEF a
    <3> QED BY <2>1 DEF Inserts, SameKeys
  <2>4. CASE a.exist
    <3>1. r.heap = a.heap /\ r.h = [t EXCEPT !.rehashingTbl = a.tbl, !.count = t.count + a.added]
      BY <1>2, <1>7, <2>4
    <3> HIDE DEF a, t
    <3>2. /\ r.h.count = t.count + a.added /\ r.h.table = t.table /\ r.h.rehashingTbl = a.tbl
          /\ r.h.rehashingIdx = t.rehashingIdx
      <4> DEFINE w  == a.tbl
                 c0 == t.count + a.added
      <4>1. w \in Tables /\ c0 \in Nat /\ r.h = WithNew(t, w, c0)
        BY <1>5, <2>3, <3>1 DEF WithNew
      <4> HIDE DEF w, c0
      <4>2. Changed(t, t.table, w, c0, WithNew(t, w, c0))
        BY <1>0, <4>1, NewChanged
      <4> QED BY <4>1, <4>2 DEF Changed, w, c0
    <3> QED BY <1>4, <1>5, <2>2, <2>3, <3>1, <3>2 DEF AddsOne, Adds, Rehashing, t, r, e
  <2>5. CASE ~a.exist
    <3>1. /\ r.heap = c.heap
          /\ r.h = [t EXCEPT !.rehashingTbl = a.tbl, !.table = c.tbl, !.count = t.count + a.added + c.added]
      BY <1>2, <1>7, <2>5
    <3>2. AddsOne(a.heap, t.table, c)
      <4> DEFINE gp == a.heap
      <4> HIDE DEF gp
      <4>1. AddsOne(gp, t.table, Insertion(gp, t.table, i, k, e))
        BY InsertionAdds
      <4> QED BY <4>1 DEF gp
    <3>3. Inserts(a.heap, t.table, t.size, n, k, c)
      <4> DEFINE gp == a.heap
      <4>1. c = Insertion(gp, t.table, i, k, e)
        OBVIOUS
      <4>2. HeapIn(gp, n) /\ SameKeys(hp, gp) /\ TableIn(gp, t.table, t.size, n)
        BY <1>3, <2>3, TableKept
      <4> HIDE DEF gp, c, i, a
      <4>3. e \in Belong(gp, n, i % n) /\ gp[e].key = k
        <5>1. i % n = Hash(k, n)
          BY <1>0
        <5>2. Belong(gp, n, i % n) = Belong(hp, n, i % n)
          BY <4>2, SameClasses
        <5>3. e \in Entries(hp)
          BY <1>4
        <5> QED BY <1>3, <4>2, <5>1, <5>2, <5>3 DEF SameKeys
      <4>4. Inserts(gp, t.table, t.size, n, k, Insertion(gp, t.table, i, k, e))
        BY <1>0, <4>2, <4>3, InsertionKeeps
      <4> QED BY <4>1, <4>4 DEF gp
    <3> HIDE DEF c, t
    <3>4. Entries(c.heap) = Entries(a.heap) /\ c.tbl \in Tables /\ c.added \in Nat
      BY <3>3 DEF Inserts, SameKeys
    <3>5. a.added = 1
      BY <2>2, <2>5 DEF AddsOne
    <3> HIDE DEF a
    <3>6. r.h.count = t.count + a.added + c.added
      <4> DEFINE u  == c.tbl
                 w  == a.tbl
                 c0 == t.count + a.added + c.added
      <4>1. u \in Tables /\ w \in Tables /\ c0 \in Nat /\ r.h = WithBoth(t, u, w, c0)
        BY <1>5, <2>3, <3>1, <3>4 DEF WithBoth
      <4> HIDE DEF u, w, c0
      <4>2. Changed(t, u, w, c0, WithBoth(t, u, w, c0))
        BY <1>0, <4>1, BothChanged
      <4> QED BY <4>1, <4>2 DEF Changed, c0
    <3> QED BY <1>4, <1>5, <2>3, <3>1, <3>2, <3>4, <3>5, <3>6 DEF AddsOne, Adds, t, r, e
  <2> QED BY <2>4, <2>5
<1> QED BY <1>6, <1>7

\* Count includes every entry.
Counted == Cardinality(Entries(heap)) <= h.count

LEMMA CountReturn ==
  ASSUME LooseInv, Counted, NEW s, Loose(s.heap, s.h, InitSize), Grown(Entries(heap), h.count, s.heap, s.h), Return(s)
  PROVE  Counted'
<1>1. heap' = Collected(s.heap, s.h) /\ h' = s.h
  BY DEF Return
<1>2. Entries(heap) \subseteq Addresses /\ h.count \in Nat
  BY DEF LooseInv, Loose, TableType, Entries
<1> DEFINE E == Entries(heap)
           c == h.count
<1>3. Grown(E, c, s.heap, s.h) /\ E \subseteq Addresses /\ c \in Nat /\ Cardinality(E) <= c
  BY <1>2 DEF Counted
<1> HIDE DEF E, c
<1>4. Cardinality(Live(s.heap, s.h)) <= s.h.count
  BY <1>3, GrownCounts
<1>5. Swept(s.heap, s.h, Collected(s.heap, s.h))
  BY CollectedKeeps
<1>6. Entries(Collected(s.heap, s.h)) = Live(s.heap, s.h)
  BY <1>5 DEF Swept
<1>7. Cardinality(Entries(heap')) <= h'.count
  BY <1>1, <1>4, <1>6
<1> QED BY <1>7 DEF Counted

LEMMA CountHang ==
  ASSUME Counted, Hang
  PROVE  Counted'
BY DEF Counted, Hang

LEMMA CountDelete ==
  ASSUME LooseInv, Counted, NEW k \in Keys, Delete(k)
  PROVE  Counted'
<1> DEFINE r == Deleted(k)
<1>1. Loose(heap, h, InitSize) /\ Between(h) /\ InitSize \in Nat \ {0} /\ h.count \in Nat
  BY SizeAssumption DEF LooseInv, Loose, TableType
<1>2. Loose(r.heap, r.h, InitSize)
  BY <1>1, DeletedKeeps
<1>3. Entries(r.heap) = Entries(heap) /\ r.h.count = h.count
  <2> DEFINE i == Hash(k, h.size)
             j == Hash(k, h.rehashingSize)
             a == FromOld(k)
             b == FromNew(k)
  <2>1. /\ h.size \in Nat /\ h.rehashingSize \in Nat /\ HeapIn(heap, InitSize) /\ h \in TableType
        /\ TableIn(heap, h.table, h.size, InitSize) /\ TableIn(heap, h.rehashingTbl, h.rehashingSize, InitSize)
        /\ i \in 0..(h.size - 1) /\ (Rehashing(h) => j \in 0..(h.rehashingSize - 1))
    BY <1>1, LooseSizes
  <2>2. a = DeleteFromTable(heap, h.table, i, k) /\ b = DeleteFromTable(a.heap, h.rehashingTbl, j, k)
    BY DEF FromOld, FromNew
  <2>3. r = IF Rehashing(h) THEN [heap |-> b.heap, h |-> [h EXCEPT !.table = a.tbl, !.rehashingTbl = b.tbl]]
            ELSE [heap |-> a.heap, h |-> [h EXCEPT !.table = a.tbl]]
    BY DEF Deleted
  <2>4. r.h.count = h.count
    <3> HIDE DEF a, b, r
    <3> QED BY <2>1, <2>3 DEF TableType
  <2> HIDE DEF i, j, a, b, r
  <2>5. SameKeys(heap, a.heap) /\ HeapIn(a.heap, InitSize)
    BY <1>1, <2>1, <2>2, DeleteKeeps
  <2>6. Rehashing(h) => SameKeys(a.heap, b.heap)
    <3> SUFFICES ASSUME Rehashing(h) PROVE SameKeys(a.heap, b.heap)
      OBVIOUS
    <3> DEFINE gp == a.heap
    <3>1. TableIn(gp, h.rehashingTbl, h.rehashingSize, InitSize) /\ HeapIn(gp, InitSize) /\ j \in 0..(h.rehashingSize - 1)
      BY <2>1, <2>5, TableKept
    <3>2. b = DeleteFromTable(gp, h.rehashingTbl, j, k)
      BY <2>2
    <3> HIDE DEF gp
    <3>3. SameKeys(gp, b.heap)
      BY <1>1, <2>1, <3>1, <3>2, DeleteKeeps
    <3> QED BY <3>3 DEF gp
  <2> QED BY <2>3, <2>4, <2>5, <2>6 DEF SameKeys
<1> HIDE DEF r
<1>4. Grown(Entries(heap), h.count, r.heap, r.h)
  BY <1>1, <1>2, <1>3, SameGrown
<1>5. CASE Hang
  BY <1>5, CountHang
<1>6. CASE Return(r)
  BY <1>2, <1>4, <1>6, CountReturn
<1> QED BY <1>5, <1>6 DEF Delete, r

\* Set overwrites an entry, or adds one and counts it.
Stores(s, r) ==
  \/ Entries(r.heap) = Entries(s.heap) /\ r.h.count = s.h.count
  \/ r.h.count = s.h.count + 1 /\ \E e \in Addresses : Entries(r.heap) \subseteq Entries(s.heap) \cup {e}

LEMMA StoredStores ==
  ASSUME NEW n \in Nat \ {0}, NEW s, Loose(s.heap, s.h, n), Between(s.h), ~Full(s.heap), NEW k \in Keys, NEW v \in Values
  PROVE  Stores(s, Stored(s, k, v))
<1> DEFINE t  == s.h
           x  == IF Rehashing(t) THEN t.rehashingSize ELSE t.size
           i  == Index(t, k)
           f  == Find(s.heap, Current(t)[i], k)
           e  == NewAddress(s.heap)
           hp == [s.heap EXCEPT ![e] = NewEntry(k, v)]
           l  == Linked(hp, Current(t), i, e)
           r  == Stored(s, k, v)
<1>0. /\ t.size \in Nat \ {0} /\ t.count \in Nat /\ t.table \in Tables /\ t.rehashingTbl \in Tables
      /\ t.rehashingSize \in Nat /\ HeapIn(s.heap, n) /\ s.heap \in HeapType /\ t \in TableType
      /\ x \in Nat \ {0} /\ i \in 0..(x - 1) /\ i % n = Hash(k, n)
      /\ TableIn(s.heap, Current(t), x, n)
  BY LooseSizes DEF Index, Current
<1>1. r = IF f # Nil THEN [heap |-> SetVal(s.heap, f, v), h |-> t]
          ELSE IF Rehashing(t) THEN [heap |-> l.heap, h |-> WithNew(t, l.tbl, t.count + 1)]
          ELSE [heap |-> l.heap, h |-> WithOld(t, l.tbl, t.count + 1)]
  BY DEF Stored, SetVal, WithNew, WithOld
<1>2. CASE f # Nil
  <2>1. f \in Entries(s.heap)
    <3> DEFINE R == Belong(s.heap, n, i % n)
               p == Current(t)[i]
    <3>1. R \subseteq Entries(s.heap) /\ p \in R \cup {Nil}
      BY <1>0 DEF TableIn, Belong
    <3>2. Within(s.heap, R)
      BY <1>0 DEF HeapIn, Belong, Within
    <3> HIDE DEF R, p
    <3>3. FoundIn(s.heap, p, R, k, Find(s.heap, p, k))
      BY <3>1, <3>2, FindIn
    <3> QED BY <1>2, <3>1, <3>3 DEF FoundIn, p
  <2>2. r.heap = SetVal(s.heap, f, v) /\ r.h = t
    BY <1>1, <1>2
  <2> HIDE DEF f, r
  <2>3. ValueSet(s.heap, f, v, SetVal(s.heap, f, v))
    BY <2>1, ValueKeeps
  <2> QED BY <2>2, <2>3 DEF ValueSet, SameKeys, Stores, r
<1>3. CASE f = Nil
  <2>1. Made(s.heap, e, k, v, hp)
    BY <1>0, NewIsMade
  <2> HIDE DEF e, hp, f, x, i
  <2>2. HeapIn(hp, n) /\ e \in Belong(hp, n, i % n) /\ TableIn(hp, Current(t), x, n)
    BY <1>0, <2>1, MadeKeeps, TableMade
  <2>3. SameKeys(hp, l.heap) /\ l.tbl \in Tables
    <3> DEFINE tbl == Current(t)
    <3>1. TableIn(hp, tbl, x, n) /\ l = Linked(hp, tbl, i, e)
      BY <2>2
    <3> HIDE DEF tbl, l
    <3> QED BY <1>0, <2>2, <3>1, LinkedKeeps
  <2> HIDE DEF l, r
  <2>4. r.heap = l.heap /\ (r.h = WithNew(t, l.tbl, t.count + 1) \/ r.h = WithOld(t, l.tbl, t.count + 1))
    BY <1>1, <1>3
  <2>5. r.h.count = t.count + 1
    BY <1>0, <2>4 DEF TableType, WithNew, WithOld
  <2>6. e \in Addresses /\ Entries(r.heap) \subseteq Entries(s.heap) \cup {e}
    BY <2>1, <2>3, <2>4 DEF Made, SameKeys
  <2> QED BY <2>5, <2>6 DEF Stores, r
<1> QED BY <1>2, <1>3

LEMMA CountSet ==
  ASSUME LooseInv, Counted, NEW k \in Keys, NEW v \in Values, Set(k, v)
  PROVE  Counted'
<1> DEFINE s == Stepped(heap, h)
           a == Stored(s, k, v)
           r == [heap |-> a.heap, h |-> Resized(a.h)]
<1>1. ~Full(heap) /\ IF s.hangs \/ SetHangs(s, k) THEN Hang ELSE Return(r)
  BY DEF Set, Room, Full
<1>2. Loose(heap, h, InitSize) /\ Between(h) /\ InitSize \in Nat \ {0} /\ h.count \in Nat
  BY SizeAssumption DEF LooseInv, Loose, TableType
<1>3. /\ Loose(s.heap, s.h, InitSize) /\ Between(s.h) /\ ~Full(s.heap)
      /\ Entries(s.heap) = Entries(heap) /\ s.h.count = h.count
  <2> HIDE DEF s
  <2>1. s = Stepped(heap, h)
    BY DEF s
  <2>2. SameKeys(heap, s.heap) /\ s.h.count = h.count
    BY <1>2, <2>1, SteppedKeeps
  <2> QED BY <1>1, <1>2, <2>1, <2>2, LooseStepped DEF SameKeys
<1> HIDE DEF s
<1>4. Kept(s, InitSize, k, a) /\ Stores(s, a)
  BY <1>2, <1>3, StoredKeeps, StoredStores
<1> HIDE DEF a
<1>5. Loose(a.heap, Resized(a.h), InitSize) /\ Resized(a.h).count = a.h.count
  BY <1>2, <1>4, ResizedKeeps DEF Kept
<1>6. Loose(r.heap, r.h, InitSize) /\ r.h.count = a.h.count /\ r.heap = a.heap
  BY <1>5
<1> HIDE DEF r
<1>7. ASSUME Entries(a.heap) = Entries(s.heap), a.h.count = s.h.count
      PROVE  Grown(Entries(heap), h.count, r.heap, r.h)
  <2>1. Entries(r.heap) = Entries(heap) /\ r.h.count >= h.count
    BY <1>2, <1>3, <1>6, <1>7
  <2> QED BY <1>2, <1>6, <2>1, SameGrown
<1>8. ASSUME a.h.count = s.h.count + 1, \E e \in Addresses : Entries(a.heap) \subseteq Entries(s.heap) \cup {e}
      PROVE  Grown(Entries(heap), h.count, r.heap, r.h)
  <2>1. PICK e \in Addresses : Entries(r.heap) \subseteq Entries(heap) \cup {e}
    BY <1>3, <1>6, <1>8
  <2>2. r.h.count >= h.count + 1
    BY <1>2, <1>3, <1>6, <1>8
  <2> QED BY <1>2, <1>6, <2>1, <2>2, MoreGrown
<1>9. Grown(Entries(heap), h.count, r.heap, r.h)
  BY <1>4, <1>7, <1>8 DEF Stores
<1>10. CASE Hang
  BY <1>10, CountHang
<1>11. CASE Return(r)
  BY <1>6, <1>9, <1>11, CountReturn
<1> QED BY <1>1, <1>10, <1>11

\* The heads of a table that StartRehashing has given a second array.
LEMMA ResizedHeads ==
  ASSUME NEW n \in Nat \ {0}, NEW hp, NEW t, Loose(hp, t, n), Between(t)
  PROVE  Heads(Resized(t)) \subseteq Heads(t) \cup {Nil}
<1> DEFINE g == Resized(t)
<1>1. /\ g.table = t.table
      /\ g = t \/ (~Rehashing(t) /\ g.rehashingTbl = NewTable(2 * t.size))
  BY ResizedKeeps
<1> HIDE DEF g
<1>2. Range(NewTable(2 * t.size)) \subseteq {Nil}
  BY DEF NewTable, Range
<1>3. Heads(g) \subseteq Heads(t) \cup {Nil}
  BY <1>1, <1>2 DEF Heads
<1> QED BY <1>3 DEF g

LEMMA CountAdd ==
  ASSUME LooseInv, Counted, NEW k \in Keys, NEW v \in Values, Add(k, v)
  PROVE  Counted'
<1> DEFINE s == Stepped(heap, h)
           a == FindPositionForInsert(s, k)
           r == [heap |-> SetVal(a.heap, a.entry, v), h |-> Resized(a.h)]
           e == NewAddress(s.heap)
<1>1. ~Full(heap) /\ IF s.hangs \/ AddRawHangs(s, k) THEN Hang ELSE Return(r)
  BY DEF Add, Room, Full
<1>2. Loose(heap, h, InitSize) /\ Between(h) /\ InitSize \in Nat \ {0} /\ h.count \in Nat /\ v \in Values \cup {Unset}
  BY SizeAssumption DEF LooseInv, Loose, TableType
<1>3. /\ Loose(s.heap, s.h, InitSize) /\ Between(s.h) /\ ~Full(s.heap)
      /\ Entries(s.heap) = Entries(heap) /\ s.h.count = h.count
  <2> HIDE DEF s
  <2>1. s = Stepped(heap, h)
    BY DEF s
  <2>2. SameKeys(heap, s.heap) /\ s.h.count = h.count
    BY <1>2, <2>1, SteppedKeeps
  <2> QED BY <1>1, <1>2, <2>1, <2>2, LooseStepped DEF SameKeys
<1> HIDE DEF s
<1>4. Kept(s, InitSize, k, a) /\ a.entry \in Entries(a.heap) /\ Adds(s, e, a)
  BY <1>2, <1>3, FindPositionForInsertKeeps, FindPositionForInsertAdds
<1> HIDE DEF a, e
<1>5. Loose(a.heap, a.h, InitSize) /\ Between(a.h)
  BY <1>4 DEF Kept
<1> DEFINE gp == SetVal(a.heap, a.entry, v)
<1>6. Loose(gp, a.h, InitSize) /\ ValueSet(a.heap, a.entry, v, gp)
  BY <1>2, <1>4, <1>5, ValueKeeps
<1>7. r.heap = gp /\ r.h = Resized(a.h)
  OBVIOUS
<1> HIDE DEF gp, r
<1>8. Loose(r.heap, r.h, InitSize) /\ r.h.count = a.h.count /\ Heads(r.h) \subseteq Heads(a.h) \cup {Nil}
  BY <1>2, <1>5, <1>6, <1>7, ResizedKeeps, ResizedHeads
<1>9. Entries(r.heap) = Entries(heap) \cup {e} /\ e \in Addresses
  BY <1>3, <1>4, <1>6, <1>7 DEF Adds, ValueSet, SameKeys
<1>10. ASSUME a.h.count >= s.h.count + 1
      PROVE  Grown(Entries(heap), h.count, r.heap, r.h)
  <2>1. r.h.count >= h.count + 1
    BY <1>2, <1>3, <1>8, <1>10
  <2> QED BY <1>2, <1>8, <1>9, <2>1, MoreGrown
<1>11. ASSUME a.h.count = s.h.count, a.h.table = s.h.table, a.h.rehashingTbl = s.h.rehashingTbl,
              \A q \in Entries(s.heap) : a.heap[q] = s.heap[q]
      PROVE  Grown(Entries(heap), h.count, r.heap, r.h)
  <2> DEFINE E == Entries(heap)
  <2>1. Within(s.heap, E) /\ Heads(s.h) \subseteq E \cup {Nil}
    BY <1>3, LooseHeads
  <2>2. Heads(r.h) \subseteq E \cup {Nil}
    BY <1>8, <1>11, <2>1 DEF Heads
  <2>3. \A q \in E : gp[q].next = s.heap[q].next
    BY <1>3, <1>4, <1>6, <1>11 DEF ValueSet, Adds
  <2>4. gp \in HeapType
    BY <1>6 DEF ValueSet, SameKeys
  <2>5. Within(r.heap, E)
    BY <1>7, <1>9, <2>1, <2>3, <2>4 DEF Within
  <2>6. r.h.count \in Nat /\ r.h.count >= h.count
    BY <1>2, <1>3, <1>8, <1>11
  <2> QED BY <2>2, <2>5, <2>6 DEF Grown, Keeps
<1>12. Grown(Entries(heap), h.count, r.heap, r.h)
  BY <1>4, <1>10, <1>11 DEF Adds
<1>13. CASE Hang
  BY <1>13, CountHang
<1>14. CASE Return(r)
  BY <1>8, <1>12, <1>14, CountReturn
<1> QED BY <1>1, <1>13, <1>14

LEMMA CountOverwrite ==
  ASSUME LooseInv, Counted, NEW k \in Keys, NEW v \in Values, Overwrite(k, v)
  PROVE  Counted'
<1> DEFINE e == GetEntry(heap, h, k)
<1>1. e # Nil /\ heap' = SetVal(heap, e, v) /\ h' = h
  BY DEF Overwrite
<1>2. Loose(heap, h, InitSize) /\ InitSize \in Nat \ {0} /\ v \in Values \cup {Unset}
  BY SizeAssumption DEF LooseInv
<1>3. e \in Entries(heap)
  BY <1>1, <1>2, GetEntryIs DEF Belong
<1> HIDE DEF e
<1>4. ValueSet(heap, e, v, SetVal(heap, e, v))
  BY <1>2, <1>3, ValueKeeps
<1>5. Entries(heap') = Entries(heap)
  BY <1>1, <1>4 DEF ValueSet, SameKeys
<1> QED BY <1>1, <1>5 DEF Counted

CountInv == LooseInv /\ Counted

LEMMA CountNext == CountInv /\ [Next]_vars => CountInv'
<1> SUFFICES ASSUME CountInv, [Next]_vars PROVE CountInv'
  OBVIOUS
<1>1. LooseInv' /\ LooseInv /\ Counted
  BY LooseNext DEF CountInv
<1>2. CASE UNCHANGED vars
  BY <1>1, <1>2 DEF vars, CountInv, Counted
<1>3. CASE Next
  <2>1. PICK k \in Keys :
          \/ Delete(k)
          \/ role = "expire" /\ \E v \in Values : Set(k, v)
          \/ role = "keyspace" /\ LookupHangs(k)
          \/ role = "keyspace" /\ \E v \in Values : Add(k, v) \/ Overwrite(k, v)
    BY <1>3 DEF Next
  <2>2. CASE Delete(k)
    BY <1>1, <2>2, CountDelete DEF CountInv
  <2>3. CASE \E v \in Values : Set(k, v)
    BY <1>1, <2>3, CountSet DEF CountInv
  <2>4. CASE LookupHangs(k)
    BY <1>1, <2>4, CountHang DEF CountInv, LookupHangs
  <2>5. CASE \E v \in Values : Add(k, v) \/ Overwrite(k, v)
    BY <1>1, <2>5, CountAdd, CountOverwrite DEF CountInv
  <2> QED BY <2>1, <2>2, <2>3, <2>4, <2>5
<1> QED BY <1>2, <1>3

LEMMA CountAlways == Spec => []CountInv
<1>1. Init => CountInv
  <2> SUFFICES ASSUME Init PROVE CountInv
    OBVIOUS
  <2>1. Entries(heap) = {} /\ h.count = 0
    BY DEF Init, Entries
  <2>2. Cardinality({}) = 0
    BY FS_EmptySet
  <2> QED BY <2>1, <2>2, LooseInit DEF CountInv, Counted
<1> QED BY <1>1, CountNext, PTL DEF Spec

-----------------------------------------------------------------------------
(***************************************************************************)
(* Samples.                                                                *)
(***************************************************************************)
\* A walk that has come to the end of a chain meets no more.
LEMMA PathEnds ==
  ASSUME NEW lk, NEW p, NEW n \in Nat, NEW c, Path(lk, p, n, c), Len(c) < n,
         NEW m \in Nat, NEW d, Path(lk, p, m, d), Len(c) <= m
  PROVE  d = c
<1>1. Path(lk, p, m, c)
  BY DEF Path
<1> QED BY <1>1, PathUnique

\* A chain that ends has no entry twice.
LEMMA PathInjective ==
  ASSUME NEW lk, Links0(lk), NEW p, NEW n \in Nat, NEW c, Path(lk, p, n, c), Len(c) < n
  PROVE  \A i, j \in 1..Len(c) : c[i] = c[j] => i = j
<1>1. /\ c \in Seq(Addresses) /\ Len(c) \in Nat /\ Step(lk, p, c, Len(c) + 1) = Nil
      /\ \A i \in 1..Len(c) : c[i] = Step(lk, p, c, i) /\ c[i] # Nil
  BY PointersAre DEF Path
<1> DEFINE B == {j \in 1..Len(c) : \E i \in 1..Len(c) : i < j /\ c[i] = c[j]}
<1>2. B = {}
  <2> SUFFICES ASSUME B # {} PROVE FALSE
    OBVIOUS
  <2>1. B \subseteq Nat /\ \A j \in B : j <= Len(c)
    BY <1>1
  <2>2. PICK j \in B : \A m \in B : m <= j
    <3> HIDE DEF B
    <3> QED BY <1>1, <2>1, GreatestNumber
  <2>3. PICK i \in 1..Len(c) : i < j /\ c[i] = c[j]
    BY <2>2
  <2>4. i \in Nat /\ j \in Nat /\ j <= Len(c) /\ i + 1 \in 1..Len(c) /\ i >= 1 /\ j >= 1
    BY <1>1, <2>1, <2>2, <2>3
  <2>5. c[i + 1] = lk[c[i]] /\ c[i + 1] # Nil
    BY <1>1, <2>4, SMTT(30) DEF Step
  <2>6. CASE j = Len(c)
    BY <1>1, <2>3, <2>4, <2>5, <2>6 DEF Step
  <2>7. CASE j # Len(c)
    <3>1. j + 1 \in 1..Len(c) /\ i + 1 < j + 1
      BY <1>1, <2>3, <2>4, <2>7
    <3>2. c[j + 1] = lk[c[j]]
      BY <1>1, <2>4, <3>1 DEF Step
    <3>3. j + 1 \in B
      BY <2>3, <2>4, <2>5, <3>1, <3>2
    <3> HIDE DEF B
    <3> QED BY <2>2, <2>4, <3>3
  <2> QED BY <2>6, <2>7
<1> QED BY <1>1, <1>2

LEMMA RangeSize ==
  ASSUME NEW c \in Seq(Addresses), \A i, j \in 1..Len(c) : c[i] = c[j] => i = j
  PROVE  IsFiniteSet(Range(c)) /\ Cardinality(Range(c)) = Len(c)
<1> DEFINE I == 1..Len(c)
           R == Range(c)
<1>1. Len(c) \in Nat /\ DOMAIN c = I
  OBVIOUS
<1>2. IsFiniteSet(I) /\ Cardinality(I) = Len(c)
  BY <1>1, Interval
<1>3. c \in [I -> R] /\ (\A i, j \in I : c[i] = c[j] => i = j) /\ \A r \in R : \E i \in I : c[i] = r
  BY DEF Range
<1> HIDE DEF I, R
<1>4. c \in Bijection(I, R)
  BY <1>3 DEF Bijection, Injection, Surjection, IsInjective
<1>5. ExistsBijection(I, R)
  BY <1>4 DEF ExistsBijection
<1>6. IsFiniteSet(R) /\ Cardinality(R) = Cardinality(I)
  BY <1>2, <1>5, FS_Bijection
<1> QED BY <1>2, <1>6 DEF R

\* The loop of GetSomeKeys, which wants w keys.
IsSample(o, w, n, f) ==
  f = [j \in 0..n |-> IF j = 0 THEN <<>> ELSE f[j - 1] \o ChainKeys(h.table[o[j]], w - Len(f[j - 1]))]

LEMMA SampleExists ==
  ASSUME NEW o, NEW w, NEW n \in Nat
  PROVE  \E f : IsSample(o, w, n, f)
<1> DEFINE S == {i \in Nat : ~ \E f : IsSample(o, w, i, f)}
           OneMore(ks, j) == ks \o ChainKeys(h.table[o[j]], w - Len(ks))
<1> SUFFICES ASSUME S # {} PROVE FALSE
  OBVIOUS
<1>1. PICK i \in S : \A j \in S : i <= j
  BY LeastNumber
<1>2. i # 0
  <2>1. IsSample(o, w, 0, [j \in 0..0 |-> <<>>])
    BY DEF IsSample
  <2> QED BY <2>1
<1>3. i - 1 \in Nat /\ i - 1 \notin S
  BY <1>1, <1>2
<1>4. PICK f : IsSample(o, w, i - 1, f)
  BY <1>3
<1>5. \A j \in 0..(i - 1) : f[j] = IF j = 0 THEN <<>> ELSE OneMore(f[j - 1], j)
  BY <1>4 DEF IsSample
<1>6. ASSUME NEW g, g = [j \in 0..i |-> IF j = 0 THEN <<>> ELSE OneMore(g[j - 1], j)]
      PROVE  IsSample(o, w, i, g)
  BY <1>6 DEF IsSample
<1> HIDE DEF OneMore
<1> DEFINE g == [j \in 0..i |-> IF j = i THEN OneMore(f[i - 1], i) ELSE f[j]]
<1>7. \A j \in 0..i : g[j] = IF j = 0 THEN <<>> ELSE OneMore(g[j - 1], j)
  <2> SUFFICES ASSUME NEW j \in 0..i PROVE g[j] = IF j = 0 THEN <<>> ELSE OneMore(g[j - 1], j)
    OBVIOUS
  <2>1. CASE j = i
    <3>1. g[i] = OneMore(f[i - 1], i) /\ g[i - 1] = f[i - 1]
      BY <1>3, <1>2
    <3> QED BY <3>1, <2>1, <1>2
  <2>2. CASE j # i
    <3>1. j \in 0..(i - 1) /\ g[j] = f[j] /\ (j # 0 => g[j - 1] = f[j - 1])
      BY <2>2, <1>3
    <3> QED BY <3>1, <1>5
  <2> QED BY <2>1, <2>2
<1>8. g = [j \in 0..i |-> g[j]]
  OBVIOUS
<1> HIDE DEF g
<1>9. g = [j \in 0..i |-> IF j = 0 THEN <<>> ELSE OneMore(g[j - 1], j)]
  BY <1>7, <1>8
<1>10. IsSample(o, w, i, g)
  BY <1>6, <1>9
<1> QED BY <1>1, <1>10

\* A sample is the last of the sequences f[0], f[1] ... of its loop.
LEMMA SampleUnfolds ==
  ASSUME NEW o, Len(o) \in Nat, h.count \in Nat
  PROVE  \E f : /\ GetSomeKeys(h.count, o) = f[Len(o)] /\ f[0] = <<>>
                /\ \A j \in 1..Len(o) : f[j] = f[j - 1] \o ChainKeys(h.table[o[j]], h.count - Len(f[j - 1]))
<1> DEFINE w == h.count
           N == Len(o)
           f == CHOOSE g : IsSample(o, w, N, g)
<1>1. IsSample(o, w, N, f)
  BY SampleExists
<1>2. (IF w > h.count THEN h.count ELSE w) = w
  OBVIOUS
<1>3. GetSomeKeys(w, o) = f[N]
  BY <1>2, SMTT(30) DEF GetSomeKeys, IsSample
<1> HIDE DEF f, w, N
<1>4. f[0] = <<>> /\ \A j \in 1..N : f[j] = f[j - 1] \o ChainKeys(h.table[o[j]], w - Len(f[j - 1]))
  <2>1. N \in Nat
    BY DEF N
  <2> QED BY <1>1, <2>1 DEF IsSample
<1> QED BY <1>3, <1>4 DEF w, N

\* An order that goes round visits every bucket once.
Round(o, n) ==
  /\ Len(o) = n /\ n \in Nat \ {0} /\ \A j \in 1..n : o[j] \in 0..(n - 1)
  /\ \A i, j \in 1..n : o[i] = o[j] => i = j
  /\ \A b \in 0..(n - 1) : \E j \in 1..n : o[j] = b

LEMMA RoundIs ==
  ASSUME NEW n \in Nat \ {0}, NEW a \in 0..(n - 1), NEW o, o = [j \in 1..n |-> (a + j) % n]
  PROVE  Round(o, n)
<1>1. ASSUME NEW j \in 1..n PROVE o[j] = IF a + j < n THEN a + j ELSE a + j - n
  <2>1. CASE a + j < n
    <3> DEFINE r == a + j
    <3>1. r \in Nat /\ r < n /\ 0 * n + r = r
      BY <2>1
    <3>2. (0 * n + r) % n = r
      <4> HIDE DEF r
      <4> QED BY <3>1, ModIs
    <3>3. r % n = r
      BY <3>1, <3>2
    <3> QED BY <2>1, <3>3
  <2>2. CASE ~(a + j < n)
    <3> DEFINE r == a + j - n
    <3>1. r \in Nat /\ r < n /\ 1 * n + r = a + j
      BY <2>2
    <3>2. (1 * n + r) % n = r
      <4> HIDE DEF r
      <4> QED BY <3>1, ModIs
    <3>3. (a + j) % n = r
      BY <3>1, <3>2
    <3> QED BY <2>2, <3>3
  <2> QED BY <2>1, <2>2
<1>2. DOMAIN o = 1..n /\ Len(o) = n
  <2>1. \A j \in 1..n : (a + j) % n \in Int
    OBVIOUS
  <2>2. o \in Seq(Int)
    BY <2>1
  <2> QED BY <2>2
<1> DEFINE At(j) == IF a + j < n THEN a + j ELSE a + j - n
<1>3. \A j \in 1..n : o[j] \in 0..(n - 1)
  BY <1>1
<1>4. \A i, j \in 1..n : o[i] = o[j] => i = j
  <2> SUFFICES ASSUME NEW i \in 1..n, NEW j \in 1..n, o[i] = o[j] PROVE i = j
    OBVIOUS
  <2>1. At(i) = At(j)
    BY <1>1
  <2> QED BY <2>1
<1>5. ASSUME NEW b \in 0..(n - 1) PROVE \E j \in 1..n : o[j] = b
  <2> DEFINE j == IF b > a THEN b - a ELSE b - a + n
  <2>1. j \in 1..n /\ At(j) = b
    OBVIOUS
  <2> QED BY <1>1, <2>1
<1> QED BY <1>2, <1>3, <1>4, <1>5 DEF Round

\* The chain in bucket b of the main table.
OldChain(b) == Chain(heap, h.table[b])

\* What InOrder says of the main table.
OldsInOrder ==
  /\ heap \in HeapType /\ h.size \in Nat \ {0} /\ h.count \in Nat
  /\ \A k \in Keys : Hash(k, h.size) \in 0..(h.size - 1)
  /\ \A b \in 0..(h.size - 1) :
       /\ h.table[b] \in Pointers /\ OldChain(b) \in Seq(Addresses)
       /\ Path(Links(heap), h.table[b], MaxEntries + 1, OldChain(b))
       /\ Len(OldChain(b)) <= MaxEntries
       /\ \A i \in 1..Len(OldChain(b)) :
            /\ OldChain(b)[i] \in Entries(heap) /\ heap[OldChain(b)[i]].key \in Keys
            /\ Hash(heap[OldChain(b)[i]].key, h.size) = b

LEMMA OldsAre ==
  ASSUME LooseInv, InOrder
  PROVE  OldsInOrder
<1>1. Loose(heap, h, InitSize) /\ InitSize \in Nat \ {0}
  BY SizeAssumption DEF LooseInv
<1>2. heap \in HeapType /\ h.size \in Nat \ {0} /\ h.count \in Nat /\ DOMAIN h.table = 0..(h.size - 1)
  BY <1>1 DEF Loose, TableType, HeapIn, TableIn
<1>3. \A k \in Keys : Hash(k, h.size) \in 0..(h.size - 1)
  BY <1>2, HashType
<1>4. Within(heap, Entries(heap)) /\ \A b \in 0..(h.size - 1) : h.table[b] \in Entries(heap) \cup {Nil}
  BY <1>1, LooseHeads
<1>5. ASSUME NEW b \in 0..(h.size - 1)
      PROVE  /\ h.table[b] \in Pointers /\ OldChain(b) \in Seq(Addresses)
             /\ Path(Links(heap), h.table[b], MaxEntries + 1, OldChain(b))
             /\ Len(OldChain(b)) <= MaxEntries
             /\ \A i \in 1..Len(OldChain(b)) :
                  /\ OldChain(b)[i] \in Entries(heap) /\ heap[OldChain(b)[i]].key \in Keys
                  /\ Hash(heap[OldChain(b)[i]].key, h.size) = b
  <2> DEFINE p == h.table[b]
             c == OldChain(b)
  <2>1. p \in Entries(heap) \cup {Nil} /\ p \in Pointers /\ c = Chain(heap, p)
    BY <1>2, <1>4, LinksType, PointersAre DEF OldChain
  <2>2. Path(Links(heap), p, MaxEntries + 1, c)
    BY <1>2, <2>1, ChainIsPath
  <2>3. ChainIn(heap, p, Entries(heap), c)
    <3> HIDE DEF p, c
    <3> QED BY <1>2, <1>4, <2>1, ChainSteps DEF Within
  <2>4. \A i \in 1..Len(c) : c[i] \in Entries(heap) /\ heap[c[i]].key \in Keys
    <3> HIDE DEF c, p
    <3> QED BY <1>2, <2>3, LinksType DEF ChainIn, EntryType
  <2>5. CASE p = Nil
    <3>1. c = <<>> /\ Len(c) = 0
      <4> HIDE DEF c, p
      <4> QED BY <2>3, <2>5 DEF ChainIn
    <3>2. 0 <= MaxEntries
      BY BoundAssumption
    <3> HIDE DEF c
    <3>3. /\ p \in Pointers /\ c \in Seq(Addresses) /\ Path(Links(heap), p, MaxEntries + 1, c) /\ Len(c) <= MaxEntries
          /\ \A i \in 1..Len(c) : c[i] \in Entries(heap) /\ heap[c[i]].key \in Keys /\ Hash(heap[c[i]].key, h.size) = b
      BY <2>1, <2>2, <3>1, <3>2
    <3> QED BY <3>3 DEF c
  <2>6. CASE p # Nil
    <3> DEFINE B == <<h.size, b, p>>
    <3>1. BucketAt(B, h.size, h.table, b)
      BY <1>2, <2>6 DEF BucketAt
    <3>2. B \in Buckets
      BY <3>1, BucketsAre
    <3>3. ~Endless(heap, p) /\ \A q \in In(B) : Hash(heap[q].key, h.size) = b
      <4>1. B[1] = h.size /\ B[2] = b /\ B[3] = p
        OBVIOUS
      <4> HIDE DEF B, p
      <4> QED BY <3>2, <4>1 DEF InOrder
    <3>4. In(B) = Range(c)
      <4>1. B[3] = p
        OBVIOUS
      <4> HIDE DEF B, p, c
      <4> QED BY <2>1, <4>1, InChain
    <3> HIDE DEF c, p, B
    <3>5. Len(c) <= MaxEntries /\ c \in Seq(Addresses) /\ DOMAIN c = 1..Len(c)
      BY <2>1, <2>3, <3>3, BoundAssumption DEF Endless, ChainIn
    <3>6. \A i \in 1..Len(c) : c[i] \in In(B)
      BY <3>4, <3>5 DEF Range
    <3>7. /\ p \in Pointers /\ c \in Seq(Addresses) /\ Path(Links(heap), p, MaxEntries + 1, c) /\ Len(c) <= MaxEntries
          /\ \A i \in 1..Len(c) : c[i] \in Entries(heap) /\ heap[c[i]].key \in Keys /\ Hash(heap[c[i]].key, h.size) = b
      BY <2>1, <2>2, <2>4, <3>3, <3>5, <3>6
    <3> QED BY <3>7 DEF c, p
  <2> QED BY <2>5, <2>6
<1> QED BY <1>2, <1>3, <1>5 DEF OldsInOrder

\* The entries in the first j buckets of the order o.
Met(o, j) == {p \in Entries(heap) : \E i \in 1..j : p \in Range(OldChain(o[i]))}

\* What OldsInOrder says of the bucket of o that comes j-th.
LEMMA OldAt ==
  ASSUME OldsInOrder, NEW o, Round(o, h.size), NEW j \in 1..h.size, NEW c, c = OldChain(o[j])
  PROVE  /\ c \in Seq(Addresses) /\ Len(c) \in Nat /\ Len(c) <= MaxEntries /\ o[j] \in 0..(h.size - 1)
         /\ h.table[o[j]] \in Pointers /\ Path(Links(heap), h.table[o[j]], MaxEntries + 1, c)
         /\ \A i \in 1..Len(c) : c[i] \in Entries(heap) /\ heap[c[i]].key \in Keys /\ Hash(heap[c[i]].key, h.size) = o[j]
         /\ IsFiniteSet(Range(c)) /\ Cardinality(Range(c)) = Len(c)
         /\ \A p \in Range(c) : p \in Entries(heap) /\ Hash(heap[p].key, h.size) = o[j]
<1> DEFINE b == o[j]
<1>1. b \in 0..(h.size - 1)
  BY DEF Round
<1>2. /\ c \in Seq(Addresses) /\ Len(c) <= MaxEntries /\ h.table[b] \in Pointers
      /\ Path(Links(heap), h.table[b], MaxEntries + 1, c)
      /\ \A i \in 1..Len(c) : c[i] \in Entries(heap) /\ heap[c[i]].key \in Keys /\ Hash(heap[c[i]].key, h.size) = b
  BY <1>1 DEF OldsInOrder
<1> HIDE DEF b
<1>3. Len(c) \in Nat /\ MaxEntries + 1 \in Nat /\ Len(c) < MaxEntries + 1 /\ DOMAIN c = 1..Len(c)
  BY <1>2, BoundAssumption
<1>4. Links0(Links(heap))
  BY LinksType DEF OldsInOrder
<1>5. \A x, y \in 1..Len(c) : c[x] = c[y] => x = y
  BY <1>2, <1>3, <1>4, PathInjective
<1>6. IsFiniteSet(Range(c)) /\ Cardinality(Range(c)) = Len(c)
  BY <1>2, <1>5, RangeSize
<1>7. \A p \in Range(c) : p \in Entries(heap) /\ Hash(heap[p].key, h.size) = b
  BY <1>2, <1>3 DEF Range
<1> QED BY <1>1, <1>2, <1>3, <1>6, <1>7 DEF b

LEMMA MetGrows ==
  ASSUME OldsInOrder, NEW o, Round(o, h.size), NEW j \in 1..h.size
  PROVE  /\ Cardinality(Met(o, j - 1)) \in Nat
         /\ Cardinality(Met(o, j)) = Cardinality(Met(o, j - 1)) + Len(OldChain(o[j]))
         /\ Cardinality(Met(o, j)) <= Cardinality(Entries(heap))
<1> DEFINE c == OldChain(o[j])
           M == Met(o, j - 1)
           R == Range(c)
<1>0. h.size \in Nat /\ j \in Nat /\ Entries(heap) \subseteq Addresses
  BY DEF OldsInOrder, Entries
<1>1. /\ Len(c) \in Nat /\ IsFiniteSet(R) /\ Cardinality(R) = Len(c)
      /\ \A p \in R : p \in Entries(heap) /\ Hash(heap[p].key, h.size) = o[j]
  <2> HIDE DEF c
  <2>1. c = OldChain(o[j])
    BY DEF c
  <2> QED BY <2>1, OldAt
<1>2. M \subseteq Entries(heap) /\ Met(o, j) \subseteq Entries(heap)
  BY DEF Met
<1>3. IsFiniteSet(M) /\ Cardinality(M) \in Nat /\ IsFiniteSet(Entries(heap))
  BY <1>0, <1>2, EntriesFinite
<1>4. Met(o, j) = M \cup R
  <2>1. \A i : i \in 1..j <=> i \in 1..(j - 1) \/ i = j
    BY <1>0
  <2> QED BY <1>1, <2>1 DEF Met
<1>5. M \cap R = {}
  <2> SUFFICES ASSUME NEW p \in M, p \in R PROVE FALSE
    OBVIOUS
  <2>1. PICK i \in 1..(j - 1) : p \in Range(OldChain(o[i]))
    BY DEF Met
  <2>2. i \in 1..h.size /\ i # j
    BY <1>0, <2>1
  <2>3. Hash(heap[p].key, h.size) = o[i]
    BY <2>1, <2>2, OldAt
  <2>4. o[i] = o[j]
    BY <1>1, <2>3
  <2> QED BY <2>2, <2>4 DEF Round
<1> HIDE DEF M, R, c
<1>6. Cardinality(M \cup R) = Cardinality(M) + Cardinality(R) - Cardinality(M \cap R)
  BY <1>1, <1>3, FS_Union
<1>7. Cardinality(M \cap R) = 0
  BY <1>5, FS_EmptySet
<1>8. Cardinality(Met(o, j)) = Cardinality(M) + Len(c)
  BY <1>1, <1>3, <1>4, <1>6, <1>7
<1>9. Cardinality(Met(o, j)) <= Cardinality(Entries(heap))
  BY <1>2, <1>3, FS_Subset
<1> QED BY <1>3, <1>8, <1>9 DEF M, c

\* A lookup in the main table finds k.
InOld(k) == Find(heap, Bucket(h, k), k) # Nil

\* The keys ks after j buckets.
Sampled(o, j, ks) ==
  /\ ks \in Seq(Keys) /\ Len(ks) <= Cardinality(Met(o, j))
  /\ \A x \in 1..Len(ks) : InOld(ks[x])
  /\ \A i \in 1..j : \A y \in 1..Len(OldChain(o[i])) : \E x \in 1..Len(ks) : ks[x] = heap[OldChain(o[i])[y]].key

\* InOld, by the chain.
LEMMA InOldIs ==
  ASSUME OldsInOrder, Within(heap, Entries(heap)), \A b \in 0..(h.size - 1) : h.table[b] \in Entries(heap) \cup {Nil},
         NEW k \in Keys
  PROVE  InOld(k) <=> \E y \in 1..Len(OldChain(Hash(k, h.size))) : heap[OldChain(Hash(k, h.size))[y]].key = k
<1> DEFINE b == Hash(k, h.size)
           p == h.table[b]
<1>1. b \in 0..(h.size - 1)
  BY DEF OldsInOrder
<1>2. p \in Entries(heap) \cup {Nil} /\ p = Bucket(h, k)
  BY <1>1 DEF Bucket
<1>3. FoundIn(heap, p, Entries(heap), k, Find(heap, p, k))
  <2> HIDE DEF p
  <2> QED BY <1>2, FindIn
<1>4. InOld(k) <=> Hits(heap, Chain(heap, p), k) # {}
  BY <1>2, <1>3 DEF FoundIn, InOld
<1>5. InOld(k) <=> \E y \in 1..Len(Chain(heap, p)) : heap[Chain(heap, p)[y]].key = k
  BY <1>4 DEF Hits
<1> QED BY <1>5 DEF OldChain

KeysOf(c) == [i \in 1..Len(c) |-> heap[c[i]].key]

\* ChainKeys takes a whole chain if there are enough keys to take.
LEMMA ChainKeysAre ==
  ASSUME OldsInOrder, NEW o, Round(o, h.size), NEW j \in 1..h.size, NEW c, c = OldChain(o[j]),
         NEW n \in Nat, Len(c) <= n
  PROVE  ChainKeys(h.table[o[j]], n) = KeysOf(c)
<1> DEFINE p == h.table[o[j]]
<1>1. /\ Len(c) \in Nat /\ Len(c) <= MaxEntries /\ p \in Pointers
      /\ Path(Links(heap), p, MaxEntries + 1, c)
  BY OldAt
<1>2. MaxEntries + 1 \in Nat /\ Len(c) < MaxEntries + 1 /\ heap \in HeapType
  BY <1>1, BoundAssumption DEF OldsInOrder
<1> HIDE DEF p
<1>3. Path(Links(heap), p, n, Walk(heap, p, n))
  BY <1>1, <1>2, WalkIsPath
<1>4. Walk(heap, p, n) = c
  BY <1>1, <1>2, <1>3, PathEnds
<1>5. ChainKeys(p, n) = KeysOf(c)
  BY <1>4 DEF ChainKeys, KeysOf
<1> QED BY <1>5 DEF p

\* The chain in the bucket of k is where InOld looks.
OldsFound ==
  \A k \in Keys :
    InOld(k) <=> \E y \in 1..Len(OldChain(Hash(k, h.size))) : heap[OldChain(Hash(k, h.size))[y]].key = k

LEMMA SampledMore ==
  ASSUME OldsInOrder, OldsFound, Cardinality(Entries(heap)) <= h.count, NEW o, Round(o, h.size),
         NEW j \in 1..h.size, NEW ks, Sampled(o, j - 1, ks),
         NEW gs, gs = ks \o ChainKeys(h.table[o[j]], h.count - Len(ks))
  PROVE  Sampled(o, j, gs)
<1> DEFINE c == OldChain(o[j])
           d == KeysOf(c)
           n == h.count - Len(ks)
<1>1. /\ c \in Seq(Addresses) /\ Len(c) \in Nat
      /\ \A i \in 1..Len(c) : c[i] \in Entries(heap) /\ heap[c[i]].key \in Keys /\ Hash(heap[c[i]].key, h.size) = o[j]
  <2> HIDE DEF c
  <2>1. c = OldChain(o[j])
    BY DEF c
  <2> QED BY <2>1, OldAt
<1>2. /\ Cardinality(Met(o, j - 1)) \in Nat /\ Cardinality(Met(o, j)) = Cardinality(Met(o, j - 1)) + Len(c)
      /\ Cardinality(Met(o, j)) <= Cardinality(Entries(heap))
  BY MetGrows
<1>3. h.count \in Nat /\ Entries(heap) \subseteq Addresses /\ Cardinality(Entries(heap)) \in Nat /\ j \in Nat
  <2>1. Entries(heap) \subseteq Addresses
    BY DEF Entries
  <2> QED BY <2>1, EntriesFinite DEF OldsInOrder
<1>4. ks \in Seq(Keys) /\ Len(ks) \in Nat /\ Len(ks) <= Cardinality(Met(o, j - 1))
  BY DEF Sampled
<1>5. n \in Nat /\ Len(c) <= n
  BY <1>1, <1>2, <1>3, <1>4
<1>6. gs = ks \o d
  <2> HIDE DEF n, c
  <2>1. c = OldChain(o[j])
    BY DEF c
  <2>2. ChainKeys(h.table[o[j]], n) = KeysOf(c)
    BY <1>5, <2>1, ChainKeysAre
  <2> QED BY <2>2 DEF n
<1>7. d \in Seq(Keys) /\ Len(d) = Len(c) /\ \A i \in 1..Len(c) : d[i] = heap[c[i]].key
  <2> HIDE DEF c
  <2> QED BY <1>1 DEF KeysOf
<1> HIDE DEF c, d, n
<1>8. /\ gs \in Seq(Keys) /\ Len(gs) = Len(ks) + Len(c)
      /\ \A x \in 1..Len(ks) : x \in 1..Len(gs) /\ gs[x] = ks[x]
      /\ \A i \in 1..Len(c) : Len(ks) + i \in 1..Len(gs) /\ gs[Len(ks) + i] = heap[c[i]].key
      /\ \A x \in 1..Len(gs) : x \in 1..Len(ks) \/ (x - Len(ks) \in 1..Len(c) /\ x = Len(ks) + (x - Len(ks)))
  <2>1. gs \in Seq(Keys) /\ Len(gs) = Len(ks) + Len(c)
    <3>1. ks \o d \in Seq(Keys) /\ Len(ks \o d) = Len(ks) + Len(d)
      BY <1>4, <1>7, ConcatProperties
    <3> QED BY <1>6, <1>7, <3>1
  <2>2. \A x \in 1..Len(ks) : x \in 1..Len(gs) /\ gs[x] = ks[x]
    BY <1>1, <1>4, <1>6, <1>7
  <2>3. \A i \in 1..Len(c) : Len(ks) + i \in 1..Len(gs) /\ gs[Len(ks) + i] = d[i]
    BY <1>1, <1>4, <1>6, <1>7
  <2>4. \A x \in 1..Len(gs) : x \in 1..Len(ks) \/ (x - Len(ks) \in 1..Len(c) /\ x = Len(ks) + (x - Len(ks)))
    BY <1>1, <1>4, <2>1
  <2> QED BY <1>7, <2>1, <2>2, <2>3, <2>4
<1>9. Len(gs) <= Cardinality(Met(o, j))
  BY <1>1, <1>2, <1>4, <1>8
<1>10. ASSUME NEW i \in 1..Len(c) PROVE InOld(heap[c[i]].key)
  <2> DEFINE k == heap[c[i]].key
  <2>1. k \in Keys /\ Hash(k, h.size) = o[j] /\ c = OldChain(o[j])
    BY <1>1 DEF c
  <2>2. \E y \in 1..Len(c) : heap[c[y]].key = k
    OBVIOUS
  <2> HIDE DEF k
  <2>3. InOld(k)
    BY <2>1, <2>2 DEF OldsFound
  <2> QED BY <2>3 DEF k
<1>11. ASSUME NEW x \in 1..Len(gs) PROVE InOld(gs[x])
  <2>1. CASE x \in 1..Len(ks)
    BY <1>8, <2>1 DEF Sampled
  <2>2. CASE x - Len(ks) \in 1..Len(c) /\ x = Len(ks) + (x - Len(ks))
    <3> DEFINE i == x - Len(ks)
    <3>1. i \in 1..Len(c) /\ x = Len(ks) + i
      BY <2>2
    <3> HIDE DEF i
    <3>2. gs[x] = heap[c[i]].key
      BY <1>8, <3>1
    <3> QED BY <1>10, <3>1, <3>2
  <2> QED BY <1>8, <2>1, <2>2
<1>12. ASSUME NEW i \in 1..j, NEW y \in 1..Len(OldChain(o[i]))
       PROVE  \E x \in 1..Len(gs) : gs[x] = heap[OldChain(o[i])[y]].key
  <2>1. CASE i = j
    <3>1. y \in 1..Len(c) /\ OldChain(o[i]) = c
      BY <2>1 DEF c
    <3> QED BY <1>8, <3>1
  <2>2. CASE i # j
    <3>1. i \in 1..(j - 1)
      BY <1>3, <2>2
    <3>2. PICK x \in 1..Len(ks) : ks[x] = heap[OldChain(o[i])[y]].key
      BY <3>1 DEF Sampled
    <3> QED BY <1>8, <3>2
  <2> QED BY <2>1, <2>2
<1> QED BY <1>8, <1>9, <1>11, <1>12 DEF Sampled

\* Round all buckets the sample is what the main table has.
LEMMA SampleIs ==
  ASSUME OldsInOrder, OldsFound, Cardinality(Entries(heap)) <= h.count, NEW o, Round(o, h.size)
  PROVE  \A k \in Keys : k \in ToSet(GetSomeKeys(h.count, o)) <=> InOld(k)
<1>0. Len(o) = h.size /\ h.size \in Nat \ {0} /\ h.count \in Nat
  BY DEF Round, OldsInOrder
<1>1. PICK f : /\ GetSomeKeys(h.count, o) = f[Len(o)] /\ f[0] = <<>>
               /\ \A j \in 1..Len(o) : f[j] = f[j - 1] \o ChainKeys(h.table[o[j]], h.count - Len(f[j - 1]))
  BY <1>0, SampleUnfolds
<1> DEFINE B == {j \in 0..h.size : ~Sampled(o, j, f[j])}
<1>2. B = {}
  <2> SUFFICES ASSUME B # {} PROVE FALSE
    OBVIOUS
  <2>1. B \subseteq Nat
    BY <1>0
  <2>2. PICK j \in B : \A m \in B : j <= m
    <3> HIDE DEF B
    <3> QED BY <2>1, LeastNumber
  <2>3. j \in 0..h.size /\ ~Sampled(o, j, f[j])
    BY <2>2
  <2>4. Sampled(o, 0, f[0])
    <3>1. Cardinality(Met(o, 0)) = 0
      <4>1. Met(o, 0) = {}
        BY DEF Met
      <4> QED BY <4>1, FS_EmptySet
    <3>2. f[0] \in Seq(Keys) /\ Len(f[0]) = 0
      BY <1>1
    <3>3. (\A x \in 1..Len(f[0]) : FALSE) /\ \A i \in 1..0 : FALSE
      BY <3>2
    <3> QED BY <3>1, <3>2, <3>3 DEF Sampled
  <2>5. j \in 1..h.size /\ j - 1 \in 0..h.size /\ ~(j <= j - 1)
    <3>1. j # 0
      BY <2>3, <2>4
    <3> QED BY <1>0, <2>3, <3>1
  <2>6. Sampled(o, j - 1, f[j - 1])
    BY <2>2, <2>5
  <2>7. f[j] = f[j - 1] \o ChainKeys(h.table[o[j]], h.count - Len(f[j - 1]))
    BY <1>0, <1>1, <2>5
  <2>8. Sampled(o, j, f[j])
    BY <2>5, <2>6, <2>7, SampledMore
  <2> QED BY <2>3, <2>8
<1> DEFINE ks == GetSomeKeys(h.count, o)
<1>3. Sampled(o, h.size, ks)
  BY <1>0, <1>1, <1>2
<1> HIDE DEF ks
<1>4. ks \in Seq(Keys) /\ ToSet(ks) = {ks[x] : x \in 1..Len(ks)}
  <2>1. DOMAIN ks = 1..Len(ks)
    BY <1>3 DEF Sampled
  <2> QED BY <1>3, <2>1 DEF Sampled, ToSet
<1>5. ASSUME NEW k \in Keys, k \in ToSet(ks) PROVE InOld(k)
  BY <1>3, <1>4, <1>5 DEF Sampled
<1>6. ASSUME NEW k \in Keys, InOld(k) PROVE k \in ToSet(ks)
  <2> DEFINE b == Hash(k, h.size)
  <2>1. b \in 0..(h.size - 1)
    BY DEF OldsInOrder
  <2>2. PICK y \in 1..Len(OldChain(b)) : heap[OldChain(b)[y]].key = k
    BY <1>6 DEF OldsFound
  <2> HIDE DEF b
  <2>3. PICK i \in 1..h.size : o[i] = b
    BY <2>1 DEF Round
  <2>4. PICK x \in 1..Len(ks) : ks[x] = heap[OldChain(o[i])[y]].key
    BY <1>3, <2>2, <2>3 DEF Sampled
  <2> QED BY <1>4, <2>2, <2>3, <2>4
<1> QED BY <1>5, <1>6 DEF ks

\* SamplesAreUsable: in a table in order, also in the middle of a rehash, eviction's sample
\* (dict.go:358) has a key only if a lookup (dict.go:224) finds it, and
\* leaves a key out only if its entry is in RehashingTbl.
THEOREM SamplesAreUsableOk == Spec => []SamplesAreUsable
<1>1. CountInv => SamplesAreUsable
  <2> SUFFICES ASSUME CountInv, InOrder, NEW o \in Rounds, NEW k \in Keys
               PROVE  IF k \in ToSet(GetSomeKeys(h.count, o)) THEN GetEntry(heap, h, k) # Nil
                      ELSE GetEntry(heap, h, k) # Nil => Rehashing(h) /\ Find(heap, NewBucket(h, k), k) # Nil
    BY DEF SamplesAreUsable
  <2>1. LooseInv /\ Cardinality(Entries(heap)) <= h.count
    BY DEF CountInv, Counted
  <2>2. OldsInOrder
    BY <2>1, OldsAre
  <2>3. OldsFound
    <3>1. Within(heap, Entries(heap)) /\ \A b \in 0..(h.size - 1) : h.table[b] \in Entries(heap) \cup {Nil}
      BY <2>1, SizeAssumption, LooseHeads DEF LooseInv
    <3> QED BY <2>2, <3>1, InOldIs DEF OldsFound
  <2>4. Round(o, h.size)
    <3>1. PICK a \in 0..(h.size - 1) : o = [j \in 1..h.size |-> (a + j) % h.size]
      BY DEF Rounds
    <3>2. h.size \in Nat \ {0}
      BY <2>2 DEF OldsInOrder
    <3> QED BY <3>1, <3>2, RoundIs
  <2>5. k \in ToSet(GetSomeKeys(h.count, o)) <=> InOld(k)
    BY <2>1, <2>2, <2>3, <2>4, SampleIs
  <2> QED BY <2>5 DEF InOld, GetEntry
<1> QED BY <1>1, CountAlways, PTL
=============================================================================
