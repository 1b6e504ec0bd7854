---------------------------- MODULE DListProofs ----------------------------
(***************************************************************************)
(* Proofs about DList, for any finite set of nodes.                        *)
(***************************************************************************)
EXTENDS DList, NumberLemmas, FiniteSetTheorems, SequenceTheorems, TLAPS

\* What stands at a position, and beyond both ends nil.
Item(s, i) == IF i \in 1..Len(s) THEN s[i] ELSE Nil

Distinct(s) == \A i, j \in 1..Len(s) : s[i] = s[j] => i = j

\* From n, the links lead through s and to nil.
Chain(s, link, n) ==
  /\ s \in Seq(Nodes) /\ Distinct(s)
  /\ n = Item(s, 1) /\ \A i \in 1..Len(s) : link[s[i]] = Item(s, i + 1)

\* The same from the other end.
BackChain(s, link, n) ==
  /\ n = Item(s, Len(s)) /\ \A i \in 1..Len(s) : link[s[i]] = Item(s, i - 1)

-----------------------------------------------------------------------------
(***************************************************************************)
(* The walk along a chain is the chain.                                    *)
(***************************************************************************)
IsWalk(link, n, f) ==
  f = [i \in 1..(Cardinality(Nodes) + 1) |->
         IF i = 1 THEN n ELSE IF f[i - 1] = Nil THEN Nil ELSE link[f[i - 1]]]

LEMMA Interval ==
  ASSUME NEW n \in Nat
  PROVE  IsFiniteSet(1..n) /\ Cardinality(1..n) = n
<1>1. IsFiniteSet(1..n) /\ Cardinality(1..n) = IF 1 > n THEN 0 ELSE n - 1 + 1
  BY FS_Interval
<1>2. (IF 1 > n THEN 0 ELSE n - 1 + 1) = n
  OBVIOUS
<1> QED BY <1>1, <1>2

LEMMA DistinctLength ==
  ASSUME NEW s \in Seq(Nodes), Distinct(s)
  PROVE  Cardinality(Nodes) \in Nat /\ Len(s) \in Nat /\ Len(s) <= Cardinality(Nodes)
<1>0. Cardinality(Nodes) \in Nat /\ Len(s) \in Nat
  BY NodesAssumption, FS_CardinalityType
<1> DEFINE I == 1..Len(s)
<1>1. IsFiniteSet(I) /\ Cardinality(I) = Len(s)
  BY <1>0, Interval
<1>2. s \in [I -> Nodes] /\ \A a, b \in I : s[a] = s[b] => a = b
  BY DEF Distinct
<1> HIDE DEF I
<1>3. s \in Injection(I, Nodes)
  BY <1>2 DEF Injection, IsInjective
<1>4. Cardinality(I) <= Cardinality(Nodes)
  BY <1>3, NodesAssumption, FS_Injection
<1> QED BY <1>0, <1>1, <1>4

LEMMA WalkIs ==
  ASSUME NEW link, NEW n, NEW s, Chain(s, link, n)
  PROVE  Walk(link, n) = s
<1> DEFINE N == Cardinality(Nodes)
           D == 1..(N + 1)
           g == [i \in D |-> Item(s, i)]
           at == CHOOSE f : IsWalk(link, n, f)
<1>0. s \in Seq(Nodes) /\ N \in Nat /\ Len(s) \in Nat /\ Len(s) <= N
  BY DistinctLength DEF Chain
<1>1. \A i \in 1..Len(s) : Item(s, i) = s[i] /\ s[i] \in Nodes /\ s[i] # Nil
  BY <1>0, NilAssumption DEF Item
<1>2. \A i \in Nat : i > Len(s) => Item(s, i) = Nil
  BY <1>0 DEF Item
<1>3. \A i \in D : i # 1 =>
        Item(s, i) = IF Item(s, i - 1) = Nil THEN Nil ELSE link[Item(s, i - 1)]
  <2> SUFFICES ASSUME NEW i \in D, i # 1
               PROVE  Item(s, i) = IF Item(s, i - 1) = Nil THEN Nil ELSE link[Item(s, i - 1)]
    OBVIOUS
  <2>0. i \in Nat /\ i - 1 \in Nat /\ i > 1 /\ (i - 1) + 1 = i
    BY <1>0
  <2>1. CASE i - 1 \in 1..Len(s)
    <3> DEFINE k == i - 1
    <3>1. k \in 1..Len(s) /\ k + 1 = i
      BY <2>0, <2>1
    <3> HIDE DEF k
    <3>2. Item(s, k) = s[k] /\ s[k] # Nil /\ link[s[k]] = Item(s, k + 1)
      BY <1>1, <3>1 DEF Chain
    <3>3. Item(s, i) = IF Item(s, k) = Nil THEN Nil ELSE link[Item(s, k)]
      BY <3>1, <3>2
    <3> QED BY <3>3 DEF k
  <2>2. CASE i - 1 \notin 1..Len(s)
    <3>1. i - 1 > Len(s) /\ i > Len(s)
      BY <1>0, <2>0, <2>2
    <3>2. Item(s, i) = Nil /\ Item(s, i - 1) = Nil
      BY <1>2, <2>0, <3>1
    <3> QED BY <3>2
  <2> QED BY <2>1, <2>2
<1>4. IsWalk(link, n, g)
  <2> DEFINE h == [i \in D |-> IF i = 1 THEN n ELSE IF g[i - 1] = Nil THEN Nil ELSE link[g[i - 1]]]
  <2> SUFFICES g = h
    BY DEF IsWalk
  <2> SUFFICES ASSUME NEW i \in D PROVE Item(s, i) = h[i]
    OBVIOUS
  <2>1. CASE i = 1
    BY <2>1 DEF Chain
  <2>2. CASE i # 1
    <3>1. i - 1 \in D
      BY <1>0, <2>2
    <3>2. g[i - 1] = Item(s, i - 1)
      BY <3>1
    <3> QED BY <1>3, <2>2, <3>2
  <2> QED BY <2>1, <2>2
<1>5. IsWalk(link, n, at)
  <2> HIDE DEF g
  <2> QED BY <1>4
<1> HIDE DEF g
<1>6. DOMAIN at = D /\ \A i \in D :
        at[i] = IF i = 1 THEN n ELSE IF at[i - 1] = Nil THEN Nil ELSE link[at[i - 1]]
  <2> DEFINE a == at
  <2>1. IsWalk(link, n, a)
    BY <1>5
  <2> HIDE DEF a
  <2>2. DOMAIN a = D /\ \A i \in D :
          a[i] = IF i = 1 THEN n ELSE IF a[i - 1] = Nil THEN Nil ELSE link[a[i - 1]]
    BY <2>1 DEF IsWalk
  <2> QED BY <2>2 DEF a
<1>7. Walk(link, n) = [i \in 1..Cardinality({j \in DOMAIN at : at[j] # Nil}) |-> at[i]]
  BY DEF Walk, IsWalk
<1> HIDE DEF at
<1>8. \A i \in D : at[i] = Item(s, i)
  <2> DEFINE B == {i \in D : at[i] # Item(s, i)}
  <2> SUFFICES ASSUME B # {} PROVE FALSE
    OBVIOUS
  <2>1. B \subseteq Nat
    BY <1>0
  <2>2. PICK b \in B : \A m \in B : b <= m
    <3> HIDE DEF B
    <3> QED BY <2>1, LeastNumber
  <2>3. b \in D /\ at[b] # Item(s, b)
    BY <2>2
  <2>4. b # 1
    BY <1>6, <2>3 DEF Chain
  <2>5. b - 1 \in D /\ ~(b <= b - 1)
    BY <1>0, <2>3, <2>4
  <2>6. at[b - 1] = Item(s, b - 1)
    BY <2>2, <2>5
  <2> QED BY <1>3, <1>6, <2>3, <2>4, <2>6
<1>9. {j \in DOMAIN at : at[j] # Nil} = 1..Len(s)
  <2> SUFFICES ASSUME NEW j PROVE j \in D /\ at[j] # Nil <=> j \in 1..Len(s)
    BY <1>6
  <2>1. j \in 1..Len(s) => j \in D
    BY <1>0
  <2>2. j \in D /\ j \notin 1..Len(s) => j \in Nat /\ j > Len(s)
    BY <1>0
  <2> QED BY <1>1, <1>2, <1>8, <2>1, <2>2
<1>10. Cardinality(1..Len(s)) = Len(s)
  BY <1>0, Interval
<1>11. Walk(link, n) = [i \in 1..Len(s) |-> at[i]]
  BY <1>7, <1>9, <1>10
<1>12. \A i \in 1..Len(s) : at[i] = s[i]
  <2>1. \A i \in 1..Len(s) : i \in D
    BY <1>0
  <2> QED BY <1>1, <1>8, <2>1
<1>13. s = [i \in 1..Len(s) |-> s[i]]
  BY <1>0
<1> QED BY <1>11, <1>12, <1>13

-----------------------------------------------------------------------------
(***************************************************************************)
(* Insertion and removal, on sequences and on links.                       *)
(***************************************************************************)
Inserted(s, k, n, t) ==
  /\ t \in Seq(Nodes) /\ Len(t) = Len(s) + 1
  /\ \A i \in 1..Len(t) : t[i] = IF i < k THEN s[i] ELSE IF i = k THEN n ELSE s[i - 1]

Removed(s, k, t) ==
  /\ t \in Seq(Nodes) /\ Len(t) = Len(s) - 1
  /\ \A i \in 1..Len(t) : t[i] = IF i < k THEN s[i] ELSE s[i + 1]

LEMMA CutNodes ==
  ASSUME NEW s \in Seq(Nodes), NEW a \in Nat, NEW b \in Int, 1 <= a, b <= Len(s), a <= b + 1
  PROVE  /\ SubSeq(s, a, b) \in Seq(Nodes) /\ Len(SubSeq(s, a, b)) = b - a + 1
         /\ \A i \in 1..(b - a + 1) : SubSeq(s, a, b)[i] = s[a + i - 1]
<1>1. \A i \in a..b : s[i] \in Nodes
  <2>1. \A i \in a..b : i \in 1..Len(s)
    OBVIOUS
  <2> QED BY <2>1, ElementOfSeq
<1>2. /\ SubSeq(s, a, b) \in Seq(Nodes)
      /\ Len(SubSeq(s, a, b)) = IF a <= b THEN b - a + 1 ELSE 0
      /\ \A i \in 1..(b - a + 1) : SubSeq(s, a, b)[i] = s[a + i - 1]
  BY <1>1, SubSeqProperties
<1>3. (IF a <= b THEN b - a + 1 ELSE 0) = b - a + 1
  OBVIOUS
<1> QED BY <1>2, <1>3

LEMMA InsertAtInserts ==
  ASSUME NEW s \in Seq(Nodes), NEW k \in 1..(Len(s) + 1), NEW n \in Nodes
  PROVE  Inserted(s, k, n, InsertAt(s, k, n))
<1> DEFINE a == SubSeq(s, 1, k - 1)
           b == SubSeq(s, k, Len(s))
           u == a \o <<n>>
           t == u \o b
<1>0. Len(s) \in Nat /\ k \in Nat /\ 1 <= k /\ k <= Len(s) + 1
  OBVIOUS
<1>1. /\ a \in Seq(Nodes) /\ Len(a) = k - 1
      /\ \A i \in 1..(k - 1) : a[i] = s[i]
  <2> DEFINE e == k - 1
  <2>1. e \in Int /\ e <= Len(s) /\ 1 <= e + 1
    BY <1>0
  <2> HIDE DEF e
  <2>2. /\ SubSeq(s, 1, e) \in Seq(Nodes) /\ Len(SubSeq(s, 1, e)) = e - 1 + 1
        /\ \A i \in 1..(e - 1 + 1) : SubSeq(s, 1, e)[i] = s[1 + i - 1]
    BY <2>1, CutNodes
  <2>3. e - 1 + 1 = e /\ \A i \in 1..e : 1 + i - 1 = i
    BY <2>1
  <2>4. /\ SubSeq(s, 1, e) \in Seq(Nodes) /\ Len(SubSeq(s, 1, e)) = e
        /\ \A i \in 1..e : SubSeq(s, 1, e)[i] = s[i]
    BY <2>2, <2>3
  <2> QED BY <2>4 DEF e
<1>2. /\ b \in Seq(Nodes) /\ Len(b) = Len(s) - k + 1
      /\ \A i \in 1..(Len(s) - k + 1) : b[i] = s[k + i - 1]
  <2> DEFINE e == Len(s)
  <2>1. k \in Nat /\ 1 <= k /\ k <= e + 1 /\ e \in Int /\ e <= Len(s)
    BY <1>0
  <2> HIDE DEF e
  <2>2. /\ SubSeq(s, k, e) \in Seq(Nodes) /\ Len(SubSeq(s, k, e)) = e - k + 1
        /\ \A i \in 1..(e - k + 1) : SubSeq(s, k, e)[i] = s[k + i - 1]
    BY <2>1, CutNodes
  <2>3. b = SubSeq(s, k, e)
    BY DEF e
  <2> HIDE DEF b
  <2>4. /\ b \in Seq(Nodes) /\ Len(b) = e - k + 1
        /\ \A i \in 1..(e - k + 1) : b[i] = s[k + i - 1]
    BY <2>2, <2>3
  <2> QED BY <2>4 DEF e
<1> HIDE DEF a, b
<1>3. <<n>> \in Seq(Nodes) /\ Len(<<n>>) = 1 /\ <<n>>[1] = n
  OBVIOUS
<1> DEFINE o == <<n>>
<1>4. o \in Seq(Nodes) /\ Len(o) = 1 /\ o[1] = n
  BY <1>3
<1> HIDE DEF o
<1>5. /\ u \in Seq(Nodes) /\ Len(u) = Len(a) + Len(o)
      /\ \A i \in 1..Len(a) + Len(o) : u[i] = IF i <= Len(a) THEN a[i] ELSE o[i - Len(a)]
  <2>1. u = a \o o
    BY DEF o
  <2> HIDE DEF u
  <2> QED BY <1>1, <1>4, <2>1, ConcatProperties
<1> HIDE DEF u
<1>6. /\ t \in Seq(Nodes) /\ Len(t) = Len(u) + Len(b)
      /\ \A i \in 1..Len(u) + Len(b) : t[i] = IF i <= Len(u) THEN u[i] ELSE b[i - Len(u)]
  <2>1. t = u \o b /\ u \in Seq(Nodes) /\ b \in Seq(Nodes)
    BY <1>2, <1>5
  <2> HIDE DEF t
  <2> QED BY <2>1, ConcatProperties
<1> HIDE DEF t
<1>7. Len(u) = k /\ Len(t) = Len(s) + 1
  BY <1>0, <1>1, <1>2, <1>4, <1>5, <1>6
<1>8. ASSUME NEW i \in 1..Len(t)
      PROVE  t[i] = IF i < k THEN s[i] ELSE IF i = k THEN n ELSE s[i - 1]
  <2>0. i \in Nat /\ 1 <= i /\ i <= Len(s) + 1
    BY <1>0, <1>7
  <2>1. CASE i < k
    <3>1. i \in 1..Len(u) + Len(b) /\ i <= Len(u) /\ i \in 1..Len(a) + Len(o) /\ i <= Len(a)
          /\ i \in 1..(k - 1)
      BY <1>0, <1>1, <1>2, <1>4, <1>7, <2>0, <2>1
    <3> QED BY <1>1, <1>5, <1>6, <2>1, <3>1
  <2>2. CASE i = k
    <3>1. i \in 1..Len(u) + Len(b) /\ i <= Len(u) /\ i \in 1..Len(a) + Len(o) /\ ~(i <= Len(a))
          /\ i - Len(a) = 1
      BY <1>0, <1>1, <1>2, <1>4, <1>7, <2>0, <2>2
    <3>2. t[i] = u[i] /\ u[i] = o[i - Len(a)]
      BY <1>5, <1>6, <3>1
    <3>3. o[i - Len(a)] = n
      BY <1>4, <3>1
    <3>4. ~(i < k)
      BY <1>0, <2>2
    <3> QED BY <2>2, <3>2, <3>3, <3>4
  <2>3. CASE i > k
    <3> DEFINE j == i - k
    <3>1. i \in 1..Len(u) + Len(b) /\ ~(i <= Len(u)) /\ i - Len(u) = j
          /\ j \in 1..(Len(s) - k + 1) /\ k + j - 1 = i - 1 /\ ~(i < k) /\ i # k
      BY <1>0, <1>2, <1>7, <2>0, <2>3
    <3> HIDE DEF j
    <3>2. t[i] = b[j]
      BY <1>6, <3>1
    <3>3. b[j] = s[k + j - 1]
      BY <1>2, <3>1
    <3>4. s[k + j - 1] = s[i - 1]
      BY <3>1
    <3> QED BY <3>1, <3>2, <3>3, <3>4
  <2> QED BY <1>0, <2>0, <2>1, <2>2, <2>3
<1>9. Inserted(s, k, n, t)
  BY <1>6, <1>7, <1>8 DEF Inserted
<1> QED BY <1>9 DEF InsertAt, a, b, u, t

LEMMA RemoveAtRemoves ==
  ASSUME NEW s \in Seq(Nodes), NEW k \in 1..Len(s)
  PROVE  Removed(s, k, RemoveAt(s, k))
<1> DEFINE a == SubSeq(s, 1, k - 1)
           b == SubSeq(s, k + 1, Len(s))
           t == a \o b
<1>0. Len(s) \in Nat /\ k \in Nat /\ 1 <= k /\ k <= Len(s)
  OBVIOUS
<1>1. /\ a \in Seq(Nodes) /\ Len(a) = k - 1
      /\ \A i \in 1..(k - 1) : a[i] = s[i]
  <2> DEFINE e == k - 1
  <2>1. e \in Int /\ e <= Len(s) /\ 1 <= e + 1
    BY <1>0
  <2> HIDE DEF e
  <2>2. /\ SubSeq(s, 1, e) \in Seq(Nodes) /\ Len(SubSeq(s, 1, e)) = e - 1 + 1
        /\ \A i \in 1..(e - 1 + 1) : SubSeq(s, 1, e)[i] = s[1 + i - 1]
    BY <2>1, CutNodes
  <2>3. e - 1 + 1 = e /\ \A i \in 1..e : 1 + i - 1 = i
    BY <2>1
  <2>4. /\ SubSeq(s, 1, e) \in Seq(Nodes) /\ Len(SubSeq(s, 1, e)) = e
        /\ \A i \in 1..e : SubSeq(s, 1, e)[i] = s[i]
    BY <2>2, <2>3
  <2> QED BY <2>4 DEF e
<1>2. /\ b \in Seq(Nodes) /\ Len(b) = Len(s) - k
      /\ \A i \in 1..(Len(s) - k) : b[i] = s[k + i]
  <2> DEFINE e == k + 1
  <2>1. e \in Nat /\ 1 <= e /\ e <= Len(s) + 1 /\ Len(s) \in Int /\ Len(s) <= Len(s)
    BY <1>0
  <2> HIDE DEF e
  <2>2. /\ SubSeq(s, e, Len(s)) \in Seq(Nodes) /\ Len(SubSeq(s, e, Len(s))) = Len(s) - e + 1
        /\ \A i \in 1..(Len(s) - e + 1) : SubSeq(s, e, Len(s))[i] = s[e + i - 1]
    BY <2>1, CutNodes
  <2>3. Len(s) - e + 1 = Len(s) - k /\ \A i \in 1..(Len(s) - k) : e + i - 1 = k + i
    BY <1>0 DEF e
  <2>4. /\ SubSeq(s, e, Len(s)) \in Seq(Nodes) /\ Len(SubSeq(s, e, Len(s))) = Len(s) - k
        /\ \A i \in 1..(Len(s) - k) : SubSeq(s, e, Len(s))[i] = s[k + i]
    BY <2>2, <2>3
  <2> QED BY <2>4 DEF e
<1> HIDE DEF a, b
<1>3. /\ t \in Seq(Nodes) /\ Len(t) = Len(a) + Len(b)
      /\ \A i \in 1..Len(a) + Len(b) : t[i] = IF i <= Len(a) THEN a[i] ELSE b[i - Len(a)]
  BY <1>1, <1>2, ConcatProperties
<1> HIDE DEF t
<1>4. Len(t) = Len(s) - 1
  BY <1>0, <1>1, <1>2, <1>3
<1>5. ASSUME NEW i \in 1..Len(t) PROVE t[i] = IF i < k THEN s[i] ELSE s[i + 1]
  <2>0. i \in Nat /\ 1 <= i /\ i <= Len(s) - 1 /\ i \in 1..Len(a) + Len(b)
    BY <1>0, <1>1, <1>2, <1>4
  <2>1. CASE i < k
    <3>1. i <= Len(a) /\ i \in 1..(k - 1)
      BY <1>0, <1>1, <2>0, <2>1
    <3> QED BY <1>1, <1>3, <2>0, <2>1, <3>1
  <2>2. CASE ~(i < k)
    <3> DEFINE j == i - (k - 1)
    <3>1. ~(i <= Len(a)) /\ i - Len(a) = j /\ j \in 1..(Len(s) - k) /\ k + j = i + 1
      BY <1>0, <1>1, <2>0, <2>2
    <3> HIDE DEF j
    <3>2. t[i] = b[j]
      BY <1>3, <2>0, <3>1
    <3>3. b[j] = s[k + j]
      BY <1>2, <3>1
    <3>4. s[k + j] = s[i + 1]
      BY <3>1
    <3> QED BY <2>2, <3>2, <3>3, <3>4
  <2> QED BY <2>1, <2>2
<1>6. Removed(s, k, t)
  BY <1>3, <1>4, <1>5 DEF Removed
<1> QED BY <1>6 DEF RemoveAt, a, b, t

-----------------------------------------------------------------------------
Links == [Nodes -> Nodes \cup {Nil}]

\* A link function into which n is put between a and b.
Spliced(new, old, n, a, b) ==
  /\ new \in Links
  /\ \A m \in Nodes : new[m] = IF m = n THEN b ELSE IF m = a THEN n ELSE old[m]

\* A link function from which n, between a and b, is taken.
Unspliced(new, old, n, a, b) ==
  /\ new \in Links
  /\ \A m \in Nodes : new[m] = IF m = n THEN Nil ELSE IF m = a THEN b ELSE old[m]

LEMMA ItemFacts ==
  ASSUME NEW s \in Seq(Nodes), Distinct(s)
  PROVE  /\ Len(s) \in Nat
         /\ \A i \in Nat : /\ i \in 1..Len(s) => Item(s, i) = s[i] /\ s[i] \in Nodes /\ s[i] # Nil
                           /\ i \notin 1..Len(s) => Item(s, i) = Nil
         /\ \A i \in 1..Len(s), j \in Nat : s[i] = Item(s, j) => i = j
<1>1. Len(s) \in Nat
  OBVIOUS
<1>2. \A i \in Nat : /\ i \in 1..Len(s) => Item(s, i) = s[i] /\ s[i] \in Nodes /\ s[i] # Nil
                     /\ i \notin 1..Len(s) => Item(s, i) = Nil
  BY NilAssumption DEF Item
<1>3. \A i \in 1..Len(s), j \in Nat : s[i] = Item(s, j) => i = j
  <2> SUFFICES ASSUME NEW i \in 1..Len(s), NEW j \in Nat, s[i] = Item(s, j) PROVE i = j
    OBVIOUS
  <2>1. j \in 1..Len(s)
    BY <1>2
  <2>2. Item(s, j) = s[j]
    BY <1>2, <2>1
  <2> QED BY <2>1, <2>2 DEF Distinct
<1> QED BY <1>1, <1>2, <1>3

LEMMA InsertedItems ==
  ASSUME NEW s \in Seq(Nodes), Distinct(s), NEW k \in 1..(Len(s) + 1), NEW n \in Nodes,
         \A i \in 1..Len(s) : s[i] # n, NEW t, Inserted(s, k, n, t)
  PROVE  /\ Distinct(t) /\ k \in 1..Len(t) /\ t[k] = n
         /\ \A i \in Nat : Item(t, i) = IF i < k THEN Item(s, i) ELSE IF i = k THEN n ELSE Item(s, i - 1)
<1>0. /\ Len(s) \in Nat /\ k \in Nat /\ 1 <= k /\ k <= Len(s) + 1
      /\ t \in Seq(Nodes) /\ Len(t) = Len(s) + 1
      /\ \A i \in 1..Len(t) : t[i] = IF i < k THEN s[i] ELSE IF i = k THEN n ELSE s[i - 1]
  BY DEF Inserted
<1>1. k \in 1..Len(t) /\ t[k] = n
  <2>1. k \in 1..Len(t) /\ ~(k < k)
    BY <1>0
  <2> QED BY <1>0, <2>1
<1>2. ASSUME NEW i \in 1..Len(t)
      PROVE  \/ i = k /\ t[i] = n
             \/ i < k /\ i \in 1..Len(s) /\ t[i] = s[i]
             \/ i > k /\ i - 1 \in 1..Len(s) /\ t[i] = s[i - 1]
  <2>1. i \in Nat /\ 1 <= i /\ i <= Len(s) + 1
    BY <1>0
  <2>2. CASE i < k
    <3>1. i \in 1..Len(s)
      BY <1>0, <2>1, <2>2
    <3> QED BY <1>0, <2>2, <3>1
  <2>3. CASE i = k
    BY <1>1, <2>3
  <2>4. CASE i > k
    <3>1. i - 1 \in 1..Len(s) /\ ~(i < k) /\ i # k
      BY <1>0, <2>1, <2>4
    <3> QED BY <1>0, <2>4, <3>1
  <2> QED BY <1>0, <2>1, <2>2, <2>3, <2>4
<1>3. Distinct(t)
  <2> SUFFICES ASSUME NEW i \in 1..Len(t), NEW j \in 1..Len(t), t[i] = t[j] PROVE i = j
    BY DEF Distinct
  <2>0. i \in Nat /\ j \in Nat
    BY <1>0
  <2>1. CASE i = k
    <3>1. ~(j < k) /\ ~(j > k)
      BY <1>2, <2>1, <1>1
    <3> QED BY <1>0, <2>0, <2>1, <3>1
  <2>2. CASE j = k
    <3>1. ~(i < k) /\ ~(i > k)
      BY <1>2, <2>2, <1>1
    <3> QED BY <1>0, <2>0, <2>2, <3>1
  <2>3. CASE i < k /\ j < k
    <3>1. i \in 1..Len(s) /\ j \in 1..Len(s) /\ s[i] = s[j]
      BY <1>0, <1>2, <2>0, <2>3
    <3> QED BY <3>1 DEF Distinct
  <2>4. CASE i < k /\ j > k
    <3>1. i \in 1..Len(s) /\ j - 1 \in 1..Len(s) /\ s[i] = s[j - 1]
      BY <1>0, <1>2, <2>0, <2>4
    <3>2. i = j - 1
      BY <3>1 DEF Distinct
    <3> QED BY <1>0, <2>0, <2>4, <3>2
  <2>5. CASE i > k /\ j < k
    <3>1. i - 1 \in 1..Len(s) /\ j \in 1..Len(s) /\ s[i - 1] = s[j]
      BY <1>0, <1>2, <2>0, <2>5
    <3>2. i - 1 = j
      BY <3>1 DEF Distinct
    <3> QED BY <1>0, <2>0, <2>5, <3>2
  <2>6. CASE i > k /\ j > k
    <3>1. i - 1 \in 1..Len(s) /\ j - 1 \in 1..Len(s) /\ s[i - 1] = s[j - 1]
      BY <1>0, <1>2, <2>0, <2>6
    <3>2. i - 1 = j - 1
      BY <3>1 DEF Distinct
    <3> QED BY <2>0, <3>2
  <2> QED BY <1>0, <2>0, <2>1, <2>2, <2>3, <2>4, <2>5, <2>6
<1>4. ASSUME NEW i \in Nat
      PROVE  Item(t, i) = IF i < k THEN Item(s, i) ELSE IF i = k THEN n ELSE Item(s, i - 1)
  <2>1. CASE i \in 1..Len(t)
    <3>1. Item(t, i) = t[i]
      BY <2>1 DEF Item
    <3>2. CASE i = k
      BY <1>0, <1>1, <3>1, <3>2
    <3>3. CASE i < k
      <4>1. i \in 1..Len(s) /\ t[i] = s[i]
        BY <1>0, <1>2, <2>1, <3>3
      <4> QED BY <3>1, <3>3, <4>1 DEF Item
    <3>4. CASE i > k
      <4>1. i - 1 \in 1..Len(s) /\ t[i] = s[i - 1] /\ ~(i < k) /\ i # k
        BY <1>0, <1>2, <2>1, <3>4
      <4> QED BY <3>1, <4>1 DEF Item
    <3> QED BY <1>0, <3>2, <3>3, <3>4
  <2>2. CASE i \notin 1..Len(t)
    <3>1. Item(t, i) = Nil
      BY <2>2 DEF Item
    <3>2. CASE i = 0
      <4>1. i < k /\ i \notin 1..Len(s)
        BY <1>0, <3>2
      <4> QED BY <3>1, <4>1 DEF Item
    <3>3. CASE i # 0
      <4>1. i > Len(s) + 1 /\ ~(i < k) /\ i # k /\ i - 1 \notin 1..Len(s)
        BY <1>0, <2>2, <3>3
      <4> QED BY <3>1, <4>1 DEF Item
    <3> QED BY <3>2, <3>3
  <2> QED BY <2>1, <2>2
<1> QED BY <1>1, <1>3, <1>4

\* What an insertion does to the links, it does to the chain.
LEMMA InsertLinks ==
  ASSUME NEW s, NEW nx, NEW pv, NEW hd, NEW tl, Chain(s, nx, hd), BackChain(s, pv, tl),
         NEW k \in 1..(Len(s) + 1), NEW n \in Nodes, \A i \in 1..Len(s) : s[i] # n,
         NEW t, Inserted(s, k, n, t), NEW nx2, NEW pv2,
         Spliced(nx2, nx, n, Item(s, k - 1), Item(s, k)),
         Spliced(pv2, pv, n, Item(s, k), Item(s, k - 1))
  PROVE  /\ Chain(t, nx2, IF k = 1 THEN n ELSE hd)
         /\ BackChain(t, pv2, IF k = Len(s) + 1 THEN n ELSE tl)
<1>0. /\ s \in Seq(Nodes) /\ Distinct(s) /\ hd = Item(s, 1) /\ tl = Item(s, Len(s))
      /\ \A i \in 1..Len(s) : nx[s[i]] = Item(s, i + 1) /\ pv[s[i]] = Item(s, i - 1)
  BY DEF Chain, BackChain
<1>1. /\ Len(s) \in Nat
      /\ \A i \in Nat : /\ i \in 1..Len(s) => Item(s, i) = s[i] /\ s[i] \in Nodes /\ s[i] # Nil
                        /\ i \notin 1..Len(s) => Item(s, i) = Nil
      /\ \A i \in 1..Len(s), j \in Nat : s[i] = Item(s, j) => i = j
  BY <1>0, ItemFacts
<1>2. t \in Seq(Nodes) /\ Len(t) = Len(s) + 1
  BY DEF Inserted
<1>3. /\ Distinct(t) /\ k \in 1..Len(t) /\ t[k] = n
      /\ \A i \in Nat : Item(t, i) = IF i < k THEN Item(s, i) ELSE IF i = k THEN n ELSE Item(s, i - 1)
  BY <1>0, InsertedItems
<1>k. k \in Nat /\ 1 <= k /\ k <= Len(s) + 1 /\ k - 1 \in Nat
  BY <1>1
<1>4. /\ \A m \in Nodes : nx2[m] = IF m = n THEN Item(s, k) ELSE IF m = Item(s, k - 1) THEN n ELSE nx[m]
      /\ \A m \in Nodes : pv2[m] = IF m = n THEN Item(s, k - 1) ELSE IF m = Item(s, k) THEN n ELSE pv[m]
  BY DEF Spliced
<1>5. ASSUME NEW i \in 1..Len(t) PROVE nx2[t[i]] = Item(t, i + 1) /\ pv2[t[i]] = Item(t, i - 1)
  <2>0. i \in Nat /\ i + 1 \in Nat /\ i - 1 \in Nat /\ 1 <= i /\ i <= Len(s) + 1 /\ (i + 1) - 1 = i
    BY <1>1, <1>2
  <2>t. t[i] = Item(t, i)
    BY DEF Item
  <2>1. CASE i = k
    <3>1. t[i] = n /\ nx2[n] = Item(s, k) /\ pv2[n] = Item(s, k - 1)
      BY <1>3, <1>4, <2>1
    <3>2. ~(i + 1 < k) /\ i + 1 # k /\ i - 1 < k /\ (i + 1) - 1 = k
      BY <1>k, <2>1
    <3>3. Item(t, i + 1) = Item(s, k) /\ Item(t, i - 1) = Item(s, k - 1)
      BY <1>3, <2>0, <2>1, <3>2
    <3> QED BY <3>1, <3>3
  <2>2. CASE i < k
    <3>1. i \in 1..Len(s) /\ i - 1 < k /\ ~(i = k)
      BY <1>1, <1>k, <2>0, <2>2
    <3>2. t[i] = s[i] /\ s[i] \in Nodes /\ s[i] # n /\ s[i] # Item(s, k)
      BY <1>1, <1>3, <1>k, <2>0, <2>t, <2>2, <3>1
    <3>3. pv2[t[i]] = pv[s[i]] /\ pv[s[i]] = Item(s, i - 1)
      BY <1>0, <1>4, <3>1, <3>2
    <3>4. Item(t, i - 1) = Item(s, i - 1)
      BY <1>3, <2>0, <3>1
    <3>5. CASE i = k - 1
      <4>1. s[i] = Item(s, k - 1) /\ i + 1 = k
        BY <1>1, <1>k, <3>1, <3>5
      <4>2. nx2[t[i]] = n /\ Item(t, i + 1) = n
        BY <1>3, <1>4, <2>0, <3>2, <4>1, <1>k
      <4> QED BY <3>3, <3>4, <4>2
    <3>6. CASE i # k - 1
      <4>1. i + 1 < k /\ s[i] # Item(s, k - 1)
        BY <1>1, <1>k, <2>0, <2>2, <3>1, <3>6
      <4>2. nx2[t[i]] = nx[s[i]] /\ nx[s[i]] = Item(s, i + 1)
        BY <1>0, <1>4, <3>1, <3>2, <4>1
      <4>3. Item(t, i + 1) = Item(s, i + 1)
        BY <1>3, <2>0, <4>1
      <4> QED BY <3>3, <3>4, <4>2, <4>3
    <3> QED BY <3>5, <3>6
  <2>3. CASE i > k
    <3> DEFINE j == i - 1
    <3>1. j \in 1..Len(s) /\ j \in Nat /\ j + 1 = i /\ j - 1 \in Nat /\ ~(i < k) /\ i # k /\ j >= k
          /\ ~(i + 1 < k) /\ i + 1 # k
      BY <1>1, <1>k, <2>0, <2>3
    <3>2. Item(t, i) = Item(s, j) /\ Item(t, i + 1) = Item(s, i)
      BY <1>3, <2>0, <3>1
    <3>m. Item(t, i - 1) = IF j = k THEN n ELSE Item(s, j - 1)
      <4>1. ~(j < k)
        BY <1>k, <3>1
      <4> QED BY <1>3, <2>0, <3>1, <4>1
    <3> HIDE DEF j
    <3>3. t[i] = s[j] /\ s[j] \in Nodes /\ s[j] # n
      BY <1>1, <2>t, <3>1, <3>2
    <3>4. s[j] # Item(s, k - 1)
      <4>1. j # k - 1
        BY <1>k, <3>1
      <4> QED BY <1>1, <1>k, <3>1, <4>1
    <3>5. nx2[t[i]] = nx[s[j]] /\ nx[s[j]] = Item(s, j + 1)
      BY <1>0, <1>4, <3>1, <3>3, <3>4
    <3>6. CASE j = k
      <4>1. s[j] = Item(s, k)
        BY <1>1, <3>1, <3>6
      <4>2. pv2[t[i]] = n
        BY <1>4, <3>3, <4>1
      <4> QED BY <3>1, <3>2, <3>5, <3>6, <3>m, <4>2
    <3>7. CASE j # k
      <4>1. s[j] # Item(s, k)
        BY <1>1, <1>k, <3>1, <3>7
      <4>2. pv2[t[i]] = pv[s[j]] /\ pv[s[j]] = Item(s, j - 1)
        BY <1>0, <1>4, <3>1, <3>3, <4>1
      <4> QED BY <3>1, <3>2, <3>5, <3>7, <3>m, <4>2
    <3> QED BY <3>6, <3>7
  <2> QED BY <1>k, <2>0, <2>1, <2>2, <2>3
<1>6. Item(t, 1) = IF k = 1 THEN n ELSE hd
  <2>1. CASE k = 1
    BY <1>3, <2>1
  <2>2. CASE k # 1
    <3>1. 1 < k
      BY <1>k, <2>2
    <3> QED BY <1>0, <1>3, <2>2, <3>1
  <2> QED BY <2>1, <2>2
<1>7. Item(t, Len(t)) = IF k = Len(s) + 1 THEN n ELSE tl
  <2> DEFINE e == Len(t)
  <2>0. e \in Nat /\ e = Len(s) + 1 /\ e - 1 = Len(s)
    BY <1>1, <1>2
  <2> HIDE DEF e
  <2>1. CASE k = e
    <3>1. ~(e < k)
      BY <2>0, <2>1
    <3>2. Item(t, e) = n
      BY <1>3, <2>0, <2>1, <3>1
    <3> QED BY <2>0, <2>1, <3>2 DEF e
  <2>2. CASE k # e
    <3>1. ~(e < k) /\ e # k
      BY <1>k, <2>0, <2>2
    <3>2. Item(t, e) = Item(s, e - 1)
      BY <1>3, <2>0, <3>1
    <3>3. Item(t, e) = tl
      BY <1>0, <2>0, <3>2
    <3> QED BY <2>0, <2>2, <3>3 DEF e
  <2> QED BY <2>1, <2>2
<1> QED BY <1>2, <1>3, <1>5, <1>6, <1>7 DEF Chain, BackChain

LEMMA RemovedItems ==
  ASSUME NEW s \in Seq(Nodes), Distinct(s), NEW k \in 1..Len(s), NEW t, Removed(s, k, t)
  PROVE  /\ Distinct(t)
         /\ \A i \in Nat : Item(t, i) = IF i < k THEN Item(s, i) ELSE Item(s, i + 1)
<1>0. /\ Len(s) \in Nat /\ k \in Nat /\ 1 <= k /\ k <= Len(s)
      /\ t \in Seq(Nodes) /\ Len(t) = Len(s) - 1
      /\ \A i \in 1..Len(t) : t[i] = IF i < k THEN s[i] ELSE s[i + 1]
  BY DEF Removed
<1>2. ASSUME NEW i \in 1..Len(t)
      PROVE  \/ i < k /\ i \in 1..Len(s) /\ t[i] = s[i]
             \/ ~(i < k) /\ i + 1 \in 1..Len(s) /\ t[i] = s[i + 1]
  <2>1. i \in Nat /\ 1 <= i /\ i <= Len(s) - 1
    BY <1>0
  <2>2. i \in 1..Len(s) /\ i + 1 \in 1..Len(s)
    BY <1>0, <2>1
  <2> QED BY <1>0, <2>2
<1>3. Distinct(t)
  <2> SUFFICES ASSUME NEW i \in 1..Len(t), NEW j \in 1..Len(t), t[i] = t[j] PROVE i = j
    BY DEF Distinct
  <2>0. i \in Nat /\ j \in Nat
    BY <1>0
  <2>3. CASE i < k /\ j < k
    <3>1. i \in 1..Len(s) /\ j \in 1..Len(s) /\ s[i] = s[j]
      BY <1>2, <2>3
    <3> QED BY <3>1 DEF Distinct
  <2>4. CASE i < k /\ ~(j < k)
    <3>1. i \in 1..Len(s) /\ j + 1 \in 1..Len(s) /\ s[i] = s[j + 1]
      BY <1>2, <2>4
    <3>2. i = j + 1
      BY <3>1 DEF Distinct
    <3> QED BY <1>0, <2>0, <2>4, <3>2
  <2>5. CASE ~(i < k) /\ j < k
    <3>1. i + 1 \in 1..Len(s) /\ j \in 1..Len(s) /\ s[i + 1] = s[j]
      BY <1>2, <2>5
    <3>2. i + 1 = j
      BY <3>1 DEF Distinct
    <3> QED BY <1>0, <2>0, <2>5, <3>2
  <2>6. CASE ~(i < k) /\ ~(j < k)
    <3>1. i + 1 \in 1..Len(s) /\ j + 1 \in 1..Len(s) /\ s[i + 1] = s[j + 1]
      BY <1>2, <2>6
    <3>2. i + 1 = j + 1
      BY <3>1 DEF Distinct
    <3> QED BY <2>0, <3>2
  <2> QED BY <2>3, <2>4, <2>5, <2>6
<1>4. ASSUME NEW i \in Nat
      PROVE  Item(t, i) = IF i < k THEN Item(s, i) ELSE Item(s, i + 1)
  <2>1. CASE i \in 1..Len(t)
    <3>1. Item(t, i) = t[i]
      BY <2>1 DEF Item
    <3>2. CASE i < k
      <4>1. i \in 1..Len(s) /\ t[i] = s[i]
        BY <1>2, <2>1, <3>2
      <4> QED BY <3>1, <3>2, <4>1 DEF Item
    <3>3. CASE ~(i < k)
      <4>1. i + 1 \in 1..Len(s) /\ t[i] = s[i + 1]
        BY <1>2, <2>1, <3>3
      <4> QED BY <3>1, <3>3, <4>1 DEF Item
    <3> QED BY <3>2, <3>3
  <2>2. CASE i \notin 1..Len(t)
    <3>1. Item(t, i) = Nil
      BY <2>2 DEF Item
    <3>2. CASE i = 0
      <4>1. i < k /\ i \notin 1..Len(s)
        BY <1>0, <3>2
      <4> QED BY <3>1, <4>1 DEF Item
    <3>3. CASE i # 0
      <4>1. ~(i < k) /\ i + 1 \notin 1..Len(s)
        BY <1>0, <2>2, <3>3
      <4> QED BY <3>1, <4>1 DEF Item
    <3> QED BY <3>2, <3>3
  <2> QED BY <2>1, <2>2
<1> QED BY <1>3, <1>4

\* What a removal does to the links, it does to the chain.
LEMMA RemoveLinks ==
  ASSUME NEW s, NEW nx, NEW pv, NEW hd, NEW tl, Chain(s, nx, hd), BackChain(s, pv, tl),
         NEW k \in 1..Len(s), NEW t, Removed(s, k, t), NEW nx2, NEW pv2,
         Unspliced(nx2, nx, s[k], Item(s, k - 1), Item(s, k + 1)),
         Unspliced(pv2, pv, s[k], Item(s, k + 1), Item(s, k - 1))
  PROVE  /\ Chain(t, nx2, IF k = 1 THEN Item(s, k + 1) ELSE hd)
         /\ BackChain(t, pv2, IF k = Len(s) THEN Item(s, k - 1) ELSE tl)
<1>0. /\ s \in Seq(Nodes) /\ Distinct(s) /\ hd = Item(s, 1) /\ tl = Item(s, Len(s))
      /\ \A i \in 1..Len(s) : nx[s[i]] = Item(s, i + 1) /\ pv[s[i]] = Item(s, i - 1)
  BY DEF Chain, BackChain
<1>1. /\ Len(s) \in Nat
      /\ \A i \in Nat : /\ i \in 1..Len(s) => Item(s, i) = s[i] /\ s[i] \in Nodes /\ s[i] # Nil
                        /\ i \notin 1..Len(s) => Item(s, i) = Nil
      /\ \A i \in 1..Len(s), j \in Nat : s[i] = Item(s, j) => i = j
  BY <1>0, ItemFacts
<1>2. t \in Seq(Nodes) /\ Len(t) = Len(s) - 1
  BY DEF Removed
<1>3. /\ Distinct(t)
      /\ \A i \in Nat : Item(t, i) = IF i < k THEN Item(s, i) ELSE Item(s, i + 1)
  BY <1>0, RemovedItems
<1>k. k \in Nat /\ 1 <= k /\ k <= Len(s) /\ k - 1 \in Nat /\ k + 1 \in Nat
  BY <1>1
<1> DEFINE n == s[k]
<1>n. n = Item(s, k)
  BY <1>1, <1>k
<1>4. /\ \A m \in Nodes :
           nx2[m] = IF m = n THEN Nil ELSE IF m = Item(s, k - 1) THEN Item(s, k + 1) ELSE nx[m]
      /\ \A m \in Nodes :
           pv2[m] = IF m = n THEN Nil ELSE IF m = Item(s, k + 1) THEN Item(s, k - 1) ELSE pv[m]
  BY DEF Unspliced
<1> HIDE DEF n
<1>5. ASSUME NEW i \in 1..Len(t) PROVE nx2[t[i]] = Item(t, i + 1) /\ pv2[t[i]] = Item(t, i - 1)
  <2>0. i \in Nat /\ i + 1 \in Nat /\ i - 1 \in Nat /\ 1 <= i /\ i <= Len(s) - 1 /\ (i - 1) + 1 = i
    BY <1>1, <1>2
  <2>t. t[i] = Item(t, i)
    BY DEF Item
  <2>2. CASE i < k
    <3>1. i \in 1..Len(s) /\ i - 1 < k /\ i # k /\ i # k + 1
      BY <1>1, <1>k, <2>0, <2>2
    <3>2. t[i] = s[i] /\ s[i] \in Nodes /\ s[i] # n /\ s[i] # Item(s, k + 1)
      <4>1. t[i] = s[i] /\ s[i] \in Nodes
        BY <1>1, <1>3, <2>0, <2>t, <2>2, <3>1
      <4>2. s[i] # n
        BY <1>1, <1>k, <1>n, <3>1
      <4>3. s[i] # Item(s, k + 1)
        BY <1>1, <1>k, <3>1
      <4> QED BY <4>1, <4>2, <4>3
    <3>3. pv2[t[i]] = pv[s[i]] /\ pv[s[i]] = Item(s, i - 1)
      BY <1>0, <1>4, <3>1, <3>2
    <3>4. Item(t, i - 1) = Item(s, i - 1)
      BY <1>3, <2>0, <3>1
    <3>5. CASE i = k - 1
      <4>1. s[i] = Item(s, k - 1) /\ ~(i + 1 < k) /\ (i + 1) + 1 = k + 1
        BY <1>1, <1>k, <3>1, <3>5
      <4>2. nx2[t[i]] = Item(s, k + 1) /\ Item(t, i + 1) = Item(s, (i + 1) + 1)
        BY <1>3, <1>4, <2>0, <3>2, <4>1
      <4> QED BY <3>3, <3>4, <4>1, <4>2
    <3>6. CASE i # k - 1
      <4>1. i + 1 < k /\ s[i] # Item(s, k - 1)
        BY <1>1, <1>k, <2>0, <2>2, <3>1, <3>6
      <4>2. nx2[t[i]] = nx[s[i]] /\ nx[s[i]] = Item(s, i + 1)
        BY <1>0, <1>4, <3>1, <3>2, <4>1
      <4>3. Item(t, i + 1) = Item(s, i + 1)
        BY <1>3, <2>0, <4>1
      <4> QED BY <3>3, <3>4, <4>2, <4>3
    <3> QED BY <3>5, <3>6
  <2>3. CASE ~(i < k)
    <3> DEFINE j == i + 1
    <3>1. j \in 1..Len(s) /\ j \in Nat /\ j - 1 = i /\ j # k /\ j # k - 1 /\ j > k
          /\ ~(i + 1 < k) /\ j + 1 = (i + 1) + 1
      BY <1>1, <1>k, <2>0, <2>3
    <3>2. Item(t, i) = Item(s, j) /\ Item(t, i + 1) = Item(s, j + 1)
      BY <1>3, <2>0, <2>3, <3>1
    <3>m. Item(t, i - 1) = IF i = k THEN Item(s, k - 1) ELSE Item(s, i)
      <4>1. CASE i = k
        <5>1. i - 1 < k
          BY <1>k, <4>1
        <5> QED BY <1>3, <2>0, <4>1, <5>1
      <4>2. CASE i # k
        <5>1. ~(i - 1 < k)
          BY <1>k, <2>0, <2>3, <4>2
        <5>2. Item(t, i - 1) = Item(s, (i - 1) + 1)
          BY <1>3, <2>0, <5>1
        <5> QED BY <2>0, <4>2, <5>2
      <4> QED BY <4>1, <4>2
    <3> HIDE DEF j
    <3>3. t[i] = s[j] /\ s[j] \in Nodes /\ s[j] # n /\ s[j] # Item(s, k - 1)
      BY <1>1, <1>k, <1>n, <2>t, <3>1, <3>2
    <3>5. nx2[t[i]] = nx[s[j]] /\ nx[s[j]] = Item(s, j + 1)
      BY <1>0, <1>4, <3>1, <3>3
    <3>6. CASE i = k
      <4>1. s[j] = Item(s, k + 1)
        <5>1. j = k + 1
          BY <1>k, <2>0, <3>1, <3>6
        <5> QED BY <1>1, <3>1, <5>1
      <4>2. pv2[t[i]] = Item(s, k - 1)
        BY <1>4, <3>3, <4>1
      <4> QED BY <3>2, <3>5, <3>6, <3>m, <4>2
    <3>7. CASE i # k
      <4>1. j # k + 1
        BY <1>k, <2>0, <3>1, <3>7
      <4>2. s[j] # Item(s, k + 1)
        BY <1>1, <1>k, <3>1, <4>1
      <4>3. pv2[t[i]] = pv[s[j]] /\ pv[s[j]] = Item(s, j - 1)
        BY <1>0, <1>4, <3>1, <3>3, <4>2
      <4> QED BY <3>1, <3>2, <3>5, <3>7, <3>m, <4>3
    <3> QED BY <3>6, <3>7
  <2> QED BY <2>2, <2>3
<1>6. Item(t, 1) = IF k = 1 THEN Item(s, k + 1) ELSE hd
  <2>1. CASE k = 1
    <3>1. ~(1 < k) /\ 1 + 1 = k + 1
      BY <2>1
    <3>2. Item(t, 1) = Item(s, 1 + 1)
      BY <1>3, <3>1
    <3> QED BY <2>1, <3>1, <3>2
  <2>2. CASE k # 1
    <3>1. 1 < k
      BY <1>k, <2>2
    <3> QED BY <1>0, <1>3, <2>2, <3>1
  <2> QED BY <2>1, <2>2
<1>7. Item(t, Len(t)) = IF k = Len(s) THEN Item(s, k - 1) ELSE tl
  <2> DEFINE e == Len(t)
  <2>0. e \in Nat /\ e = Len(s) - 1 /\ e + 1 = Len(s)
    BY <1>1, <1>2
  <2> HIDE DEF e
  <2>1. CASE k = Len(s)
    <3>1. e < k /\ e = k - 1
      BY <1>1, <1>k, <2>0, <2>1
    <3>2. Item(t, e) = Item(s, e)
      BY <1>3, <2>0, <3>1
    <3> QED BY <2>1, <3>1, <3>2 DEF e
  <2>2. CASE k # Len(s)
    <3>1. ~(e < k)
      BY <1>1, <1>k, <2>0, <2>2
    <3>2. Item(t, e) = Item(s, e + 1)
      BY <1>3, <2>0, <3>1
    <3>3. Item(t, e) = tl
      BY <1>0, <2>0, <3>2
    <3> QED BY <2>2, <3>3 DEF e
  <2> QED BY <2>1, <2>2
<1> QED BY <1>2, <1>3, <1>5, <1>6, <1>7 DEF Chain, BackChain

-----------------------------------------------------------------------------
(***************************************************************************)
(* The list.  s is what Forward is before the step.                        *)
(***************************************************************************)
\* A node that was never allocated has nil links.
Shape ==
  /\ next \in Links /\ prev \in Links /\ used \subseteq Nodes /\ panicked \in BOOLEAN
  /\ \A m \in Nodes \ used : next[m] = Nil /\ prev[m] = Nil

Holds(s) ==
  /\ Chain(s, next, head) /\ \A i \in 1..Len(s) : s[i] \in used
  /\ ~panicked => BackChain(s, prev, tail) /\ length = Len(s)

ListInv == Shape /\ Holds(Forward)

\* n comes to stand at position k.
Grow(s, k, n) ==
  /\ ~panicked /\ n \in Nodes /\ n \notin used /\ k \in 1..(Len(s) + 1)
  /\ Spliced(next', next, n, Item(s, k - 1), Item(s, k))
  /\ Spliced(prev', prev, n, Item(s, k), Item(s, k - 1))
  /\ head' = IF k = 1 THEN n ELSE head
  /\ tail' = IF k = Len(s) + 1 THEN n ELSE tail
  /\ length' = length + 1 /\ used' = used \cup {n}
  /\ UNCHANGED <<iter, panicked, visited>>

\* What stands at position k is taken out.
Shrink(s, k) ==
  /\ ~panicked /\ k \in 1..Len(s)
  /\ Unspliced(next', next, s[k], Item(s, k - 1), Item(s, k + 1))
  /\ Unspliced(prev', prev, s[k], Item(s, k + 1), Item(s, k - 1))
  /\ head' = IF k = 1 THEN Item(s, k + 1) ELSE head
  /\ tail' = IF k = Len(s) THEN Item(s, k - 1) ELSE tail
  /\ length' = length - 1 /\ UNCHANGED <<iter, panicked, used, visited>>

LEMMA HeldFacts ==
  ASSUME Shape, NEW s, Holds(s), ~panicked
  PROVE  /\ s \in Seq(Nodes) /\ Distinct(s) /\ Len(s) \in Nat /\ length = Len(s)
         /\ head = Item(s, 1) /\ tail = Item(s, Len(s))
         /\ \A i \in 1..Len(s) : /\ next[s[i]] = Item(s, i + 1) /\ prev[s[i]] = Item(s, i - 1)
                                 /\ s[i] \in Nodes /\ s[i] # Nil /\ s[i] \in used
         /\ \A i \in Nat : /\ i \in 1..Len(s) => Item(s, i) = s[i]
                           /\ i \notin 1..Len(s) => Item(s, i) = Nil
         /\ \A i \in 1..Len(s), j \in Nat : s[i] = Item(s, j) => i = j
<1>1. s \in Seq(Nodes) /\ Distinct(s) /\ head = Item(s, 1) /\ tail = Item(s, Len(s)) /\ length = Len(s)
      /\ \A i \in 1..Len(s) : next[s[i]] = Item(s, i + 1) /\ prev[s[i]] = Item(s, i - 1)
                              /\ s[i] \in used
  BY DEF Holds, Chain, BackChain
<1>2. /\ Len(s) \in Nat
      /\ \A i \in Nat : /\ i \in 1..Len(s) => Item(s, i) = s[i] /\ s[i] \in Nodes /\ s[i] # Nil
                        /\ i \notin 1..Len(s) => Item(s, i) = Nil
      /\ \A i \in 1..Len(s), j \in Nat : s[i] = Item(s, j) => i = j
  BY <1>1, ItemFacts
<1>3. \A i \in 1..Len(s) : i \in Nat
  BY <1>2
<1> QED BY <1>1, <1>2, <1>3

LEMMA HeadGrows ==
  ASSUME Shape, NEW s, Holds(s), NEW n \in Nodes, New(n), LinkHead(n), UNCHANGED panicked
  PROVE  Grow(s, 1, n)
<1>0. ~panicked /\ n \notin used
  BY DEF New
<1>1. /\ s \in Seq(Nodes) /\ Distinct(s) /\ Len(s) \in Nat /\ length = Len(s)
      /\ head = Item(s, 1) /\ tail = Item(s, Len(s))
      /\ \A i \in 1..Len(s) : /\ next[s[i]] = Item(s, i + 1) /\ prev[s[i]] = Item(s, i - 1)
                              /\ s[i] \in Nodes /\ s[i] # Nil /\ s[i] \in used
      /\ \A i \in Nat : /\ i \in 1..Len(s) => Item(s, i) = s[i]
                        /\ i \notin 1..Len(s) => Item(s, i) = Nil
      /\ \A i \in 1..Len(s), j \in Nat : s[i] = Item(s, j) => i = j
  BY <1>0, HeldFacts
<1>2. Item(s, 0) = Nil /\ 1 - 1 = 0 /\ 1 \in 1..(Len(s) + 1)
  BY <1>1
<1>3. next \in Links /\ prev \in Links /\ next[n] = Nil /\ prev[n] = Nil
  BY <1>0 DEF Shape
<1>4. Nil \notin Nodes
  BY NilAssumption
<1>5. CASE head = Nil
  <2>1. Len(s) = 0
    BY <1>1, <1>5
  <2>2. head' = n /\ tail' = n /\ next' = next /\ prev' = prev
    BY <1>5 DEF LinkHead
  <2>3. Spliced(next', next, n, Nil, Nil) /\ Spliced(prev', prev, n, Nil, Nil)
    BY <1>3, <1>4, <2>2 DEF Spliced
  <2>4. Item(s, 1) = Nil /\ 1 = Len(s) + 1
    BY <1>1, <1>5, <2>1
  <2> QED BY <1>0, <1>2, <2>2, <2>3, <2>4 DEF Grow, New, LinkHead
<1>6. CASE head # Nil
  <2>1. 1 \in 1..Len(s) /\ 1 # Len(s) + 1 /\ head \in Nodes /\ head # n
    <3>1. 1 \in 1..Len(s)
      BY <1>1, <1>6
    <3>2. head = s[1]
      BY <1>1, <3>1
    <3> QED BY <1>0, <1>1, <3>1, <3>2
  <2>2. head' = n /\ tail' = tail /\ next' = [next EXCEPT ![n] = head] /\ prev' = [prev EXCEPT ![head] = n]
    BY <1>6 DEF LinkHead
  <2>3. Spliced(next', next, n, Nil, head)
    BY <1>3, <1>4, <2>1, <2>2 DEF Spliced, Links
  <2>4. Spliced(prev', prev, n, head, Nil)
    BY <1>3, <1>4, <2>1, <2>2 DEF Spliced, Links
  <2> QED BY <1>0, <1>1, <1>2, <2>1, <2>2, <2>3, <2>4 DEF Grow, New, LinkHead
<1> QED BY <1>5, <1>6

LEMMA TailGrows ==
  ASSUME Shape, NEW s, Holds(s), NEW n \in Nodes, New(n), LinkTail(n), UNCHANGED panicked
  PROVE  Grow(s, Len(s) + 1, n)
<1>0. ~panicked /\ n \notin used
  BY DEF New
<1>1. /\ s \in Seq(Nodes) /\ Distinct(s) /\ Len(s) \in Nat /\ length = Len(s)
      /\ head = Item(s, 1) /\ tail = Item(s, Len(s))
      /\ \A i \in 1..Len(s) : /\ next[s[i]] = Item(s, i + 1) /\ prev[s[i]] = Item(s, i - 1)
                              /\ s[i] \in Nodes /\ s[i] # Nil /\ s[i] \in used
      /\ \A i \in Nat : /\ i \in 1..Len(s) => Item(s, i) = s[i]
                        /\ i \notin 1..Len(s) => Item(s, i) = Nil
      /\ \A i \in 1..Len(s), j \in Nat : s[i] = Item(s, j) => i = j
  BY <1>0, HeldFacts
<1> DEFINE e == Len(s) + 1
<1>2. Item(s, e) = Nil /\ e - 1 = Len(s) /\ e \in 1..(Len(s) + 1) /\ e \in Nat
  BY <1>1
<1>3. next \in Links /\ prev \in Links /\ next[n] = Nil /\ prev[n] = Nil
  BY <1>0 DEF Shape
<1>4. Nil \notin Nodes
  BY NilAssumption
<1>5. CASE tail = Nil
  <2>1. Len(s) = 0
    <3> SUFFICES ASSUME Len(s) # 0 PROVE FALSE
      OBVIOUS
    <3>1. Len(s) \in 1..Len(s)
      BY <1>1
    <3>2. tail = s[Len(s)]
      BY <1>1, <3>1
    <3> QED BY <1>1, <1>5, <3>1, <3>2
  <2>2. head' = n /\ tail' = n /\ next' = next /\ prev' = prev
    BY <1>5 DEF LinkTail
  <2>3. Spliced(next', next, n, Nil, Nil) /\ Spliced(prev', prev, n, Nil, Nil)
    BY <1>3, <1>4, <2>2 DEF Spliced
  <2>4. Item(s, e - 1) = Nil /\ e = 1
    BY <1>1, <1>2, <1>5, <2>1
  <2>5. e = Len(s) + 1
    OBVIOUS
  <2> HIDE DEF e
  <2>6. Grow(s, e, n)
    BY <1>0, <1>2, <2>2, <2>3, <2>4, <2>5 DEF Grow, New, LinkTail
  <2> QED BY <2>6 DEF e
<1>6. CASE tail # Nil
  <2>1. e # 1 /\ tail \in Nodes /\ tail # n
    <3>1. Len(s) \in 1..Len(s)
      BY <1>1, <1>6
    <3>2. tail = s[Len(s)]
      BY <1>1, <3>1
    <3> QED BY <1>0, <1>1, <3>1, <3>2
  <2>2. tail' = n /\ head' = head /\ prev' = [prev EXCEPT ![n] = tail] /\ next' = [next EXCEPT ![tail] = n]
    BY <1>6 DEF LinkTail
  <2>3. Spliced(next', next, n, tail, Nil)
    BY <1>3, <1>4, <2>1, <2>2 DEF Spliced, Links
  <2>4. Spliced(prev', prev, n, Nil, tail)
    BY <1>3, <1>4, <2>1, <2>2 DEF Spliced, Links
  <2>5. e = Len(s) + 1 /\ tail = Item(s, e - 1)
    BY <1>1, <1>2
  <2> HIDE DEF e
  <2>6. Grow(s, e, n)
    BY <1>0, <1>2, <2>1, <2>2, <2>3, <2>4, <2>5 DEF Grow, New, LinkTail
  <2> QED BY <2>6 DEF e
<1> QED BY <1>5, <1>6

LEMMA InsertAfterGrows ==
  ASSUME Shape, NEW s, Holds(s), s = Forward, NEW n \in Nodes, NEW old \in Nodes, InsertAfter(n, old)
  PROVE  \E k \in 1..(Len(s) + 1) : Grow(s, k, n)
<1>0. New(n) /\ ~panicked /\ n \notin used /\ old \in InList /\ UNCHANGED panicked
  BY DEF InsertAfter, New
<1>1. /\ s \in Seq(Nodes) /\ Distinct(s) /\ Len(s) \in Nat /\ length = Len(s)
      /\ head = Item(s, 1) /\ tail = Item(s, Len(s))
      /\ \A i \in 1..Len(s) : /\ next[s[i]] = Item(s, i + 1) /\ prev[s[i]] = Item(s, i - 1)
                              /\ s[i] \in Nodes /\ s[i] # Nil /\ s[i] \in used
      /\ \A i \in Nat : /\ i \in 1..Len(s) => Item(s, i) = s[i]
                        /\ i \notin 1..Len(s) => Item(s, i) = Nil
      /\ \A i \in 1..Len(s), j \in Nat : s[i] = Item(s, j) => i = j
  BY <1>0, HeldFacts
<1>2. PICK j \in 1..Len(s) : s[j] = old
  <2>1. InList = {s[i] : i \in DOMAIN s}
    BY DEF InList, Range
  <2>2. DOMAIN s = 1..Len(s)
    BY <1>1
  <2> QED BY <1>0, <2>1, <2>2
<1>3. CASE next[old] = Nil
  <2>1. LinkTail(n)
    BY <1>3 DEF InsertAfter
  <2>2. Grow(s, Len(s) + 1, n)
    BY <1>0, <2>1, TailGrows
  <2>3. Len(s) + 1 \in 1..(Len(s) + 1)
    BY <1>1
  <2> QED BY <2>2, <2>3
<1>4. CASE next[old] # Nil
  <2> DEFINE k == j + 1
  <2>1. j \in Nat /\ k \in Nat /\ k \in 1..(Len(s) + 1) /\ k - 1 = j /\ k # 1
    BY <1>1
  <2>2. next[old] = Item(s, k)
    BY <1>1, <1>2
  <2> HIDE DEF k
  <2>3. k \in 1..Len(s) /\ next[old] = s[k]
    BY <1>1, <1>4, <2>1, <2>2
  <2>4. next[old] \in Nodes /\ next[old] # n /\ old # n
    BY <1>0, <1>1, <1>2, <2>3
  <2>5. Item(s, k - 1) = old /\ k # Len(s) + 1
    BY <1>1, <1>2, <2>1, <2>3
  <2>6. /\ next' = [next EXCEPT ![old] = n, ![n] = next[old]]
        /\ prev' = [prev EXCEPT ![n] = old, ![next[old]] = n]
        /\ length' = length + 1 /\ head' = head /\ tail' = tail
    BY <1>4 DEF InsertAfter
  <2>7. next \in Links /\ prev \in Links
    BY DEF Shape
  <2> DEFINE q == next[old]
  <2> HIDE DEF q
  <2>8. Spliced(next', next, n, old, q)
    <3>1. next' = [next EXCEPT ![old] = n, ![n] = q] /\ q \in Nodes /\ q # n
      BY <2>4, <2>6 DEF q
    <3> QED BY <2>4, <2>7, <3>1 DEF Spliced, Links
  <2>9. Spliced(prev', prev, n, q, old)
    <3>1. prev' = [prev EXCEPT ![n] = old, ![q] = n] /\ q \in Nodes /\ q # n
      BY <2>4, <2>6 DEF q
    <3> QED BY <2>4, <2>7, <3>1 DEF Spliced, Links
  <2>10. Grow(s, k, n)
    BY <1>0, <2>1, <2>2, <2>5, <2>6, <2>8, <2>9 DEF Grow, New, q
  <2> QED BY <2>1, <2>10
<1> QED BY <1>3, <1>4

\* The step that ends in a panic leaves the way from the head as it was.
Stumble(s) ==
  /\ Chain(s, next', head') /\ \A i \in 1..Len(s) : s[i] \in used'
  /\ Shape' /\ panicked'

LEMMA InsertBeforeGrows ==
  ASSUME Shape, NEW s, Holds(s), s = Forward, NEW n \in Nodes, NEW old \in Nodes, InsertBefore(n, old)
  PROVE  (\E k \in 1..(Len(s) + 1) : Grow(s, k, n)) \/ Stumble(s)
<1>0. New(n) /\ ~panicked /\ n \notin used /\ used' = used \cup {n} /\ old \in InList
  BY DEF InsertBefore, New
<1>1. /\ s \in Seq(Nodes) /\ Distinct(s) /\ Len(s) \in Nat /\ length = Len(s)
      /\ head = Item(s, 1) /\ tail = Item(s, Len(s))
      /\ \A i \in 1..Len(s) : /\ next[s[i]] = Item(s, i + 1) /\ prev[s[i]] = Item(s, i - 1)
                              /\ s[i] \in Nodes /\ s[i] # Nil /\ s[i] \in used
      /\ \A i \in Nat : /\ i \in 1..Len(s) => Item(s, i) = s[i]
                        /\ i \notin 1..Len(s) => Item(s, i) = Nil
      /\ \A i \in 1..Len(s), j \in Nat : s[i] = Item(s, j) => i = j
  BY <1>0, HeldFacts
<1>2. PICK j \in 1..Len(s) : s[j] = old
  <2>1. InList = {s[i] : i \in DOMAIN s}
    BY DEF InList, Range
  <2>2. DOMAIN s = 1..Len(s)
    BY <1>1
  <2> QED BY <1>0, <2>1, <2>2
<1>3. CASE prev[old] = Nil
  <2>1. LinkHead(n) /\ UNCHANGED panicked
    BY <1>3 DEF InsertBefore
  <2>2. Grow(s, 1, n)
    BY <1>0, <2>1, HeadGrows
  <2>3. 1 \in 1..(Len(s) + 1)
    BY <1>1
  <2> QED BY <2>2, <2>3
<1>4. CASE prev[old] # Nil
  <2>1. /\ prev' = [prev EXCEPT ![n] = prev[old], ![old] = n]
        /\ next' = [next EXCEPT ![n] = old]
        /\ panicked' = TRUE /\ head' = head
    BY <1>4 DEF InsertBefore
  <2>2. next \in Links /\ prev \in Links /\ used \subseteq Nodes
        /\ \A m \in Nodes \ used : next[m] = Nil /\ prev[m] = Nil
    BY DEF Shape
  <2>3. \A i \in 1..Len(s) : next'[s[i]] = next[s[i]]
    BY <1>0, <1>1, <2>1, <2>2 DEF Links
  <2>4. Chain(s, next', head')
    BY <1>1, <2>1, <2>3 DEF Chain
  <2>5. old \in used
    BY <1>1, <1>2
  <2>6. next' \in Links
    BY <2>1, <2>2 DEF Links
  <2>7. prev' \in Links
    BY <2>1, <2>2 DEF Links
  <2>8. \A m \in Nodes \ used' : next'[m] = Nil /\ prev'[m] = Nil
    BY <1>0, <2>1, <2>2, <2>5 DEF Links
  <2>9. used' \subseteq Nodes /\ panicked' \in BOOLEAN /\ panicked'
    BY <1>0, <2>1, <2>2
  <2>10. \A i \in 1..Len(s) : s[i] \in used'
    BY <1>0, <1>1
  <2> QED BY <2>4, <2>6, <2>7, <2>8, <2>9, <2>10 DEF Stumble, Shape
<1> QED BY <1>3, <1>4

LEMMA RemoveNodeShrinks ==
  ASSUME Shape, NEW s, Holds(s), s = Forward, NEW n \in Nodes, RemoveNode(n)
  PROVE  \E k \in 1..Len(s) : Shrink(s, k)
<1>0. ~panicked /\ n \in InList
  BY DEF RemoveNode
<1>1. /\ s \in Seq(Nodes) /\ Distinct(s) /\ Len(s) \in Nat /\ length = Len(s)
      /\ head = Item(s, 1) /\ tail = Item(s, Len(s))
      /\ \A i \in 1..Len(s) : /\ next[s[i]] = Item(s, i + 1) /\ prev[s[i]] = Item(s, i - 1)
                              /\ s[i] \in Nodes /\ s[i] # Nil /\ s[i] \in used
      /\ \A i \in Nat : /\ i \in 1..Len(s) => Item(s, i) = s[i]
                        /\ i \notin 1..Len(s) => Item(s, i) = Nil
      /\ \A i \in 1..Len(s), j \in Nat : s[i] = Item(s, j) => i = j
  BY <1>0, HeldFacts
<1>2. PICK k \in 1..Len(s) : s[k] = n
  <2>1. InList = {s[i] : i \in DOMAIN s}
    BY DEF InList, Range
  <2>2. DOMAIN s = 1..Len(s)
    BY <1>1
  <2> QED BY <1>0, <2>1, <2>2
<1> DEFINE a == Item(s, k - 1)
           b == Item(s, k + 1)
<1>3. prev[n] = a /\ next[n] = b /\ k \in Nat /\ k - 1 \in Nat /\ k + 1 \in Nat
  BY <1>1, <1>2
<1>4. a = Nil <=> k = 1
  <2>1. k - 1 \notin 1..Len(s) <=> k = 1
    BY <1>1
  <2> QED BY <1>1, <1>3, <2>1
<1>5. b = Nil <=> k = Len(s)
  <2>1. k + 1 \notin 1..Len(s) <=> k = Len(s)
    BY <1>1
  <2> QED BY <1>1, <1>3, <2>1
<1>6. a \in Nodes \cup {Nil} /\ b \in Nodes \cup {Nil}
  BY <1>1, <1>3
<1> HIDE DEF a, b
<1>7. next \in Links /\ prev \in Links
  BY DEF Shape
<1>8. /\ next' = [[m \in Nodes |-> IF m = a THEN b ELSE next[m]] EXCEPT ![n] = Nil]
      /\ prev' = [[m \in Nodes |-> IF m = b THEN a ELSE prev[m]] EXCEPT ![n] = Nil]
      /\ head' = IF k = 1 THEN b ELSE head
      /\ tail' = IF k = Len(s) THEN a ELSE tail
      /\ length' = length - 1
      /\ UNCHANGED <<iter, panicked, used, visited>>
  BY <1>3, <1>4, <1>5 DEF RemoveNode
<1>9. Unspliced(next', next, n, a, b)
  BY <1>6, <1>7, <1>8 DEF Unspliced, Links
<1>10. Unspliced(prev', prev, n, b, a)
  BY <1>6, <1>7, <1>8 DEF Unspliced, Links
<1>11. Shrink(s, k)
  BY <1>0, <1>2, <1>8, <1>9, <1>10 DEF Shrink, a, b
<1> QED BY <1>11

LEMMA GrowKeeps ==
  ASSUME Shape, NEW s, Holds(s), NEW k, NEW n, Grow(s, k, n)
  PROVE  /\ ListInv' /\ Forward' = InsertAt(s, k, n)
         /\ Inserted(s, k, n, Forward')
<1> DEFINE t == InsertAt(s, k, n)
<1>0. /\ ~panicked /\ n \in Nodes /\ n \notin used /\ k \in 1..(Len(s) + 1)
      /\ head' = (IF k = 1 THEN n ELSE head) /\ tail' = (IF k = Len(s) + 1 THEN n ELSE tail)
      /\ length' = length + 1 /\ used' = used \cup {n} /\ panicked' = panicked
  BY DEF Grow
<1>1. /\ s \in Seq(Nodes) /\ Chain(s, next, head) /\ BackChain(s, prev, tail) /\ length = Len(s)
      /\ \A i \in 1..Len(s) : s[i] \in used
  BY <1>0 DEF Holds, Chain
<1>2. Inserted(s, k, n, t)
  BY <1>0, <1>1, InsertAtInserts
<1> HIDE DEF t
<1>3. \A i \in 1..Len(s) : s[i] # n
  BY <1>0, <1>1
<1>4. /\ Spliced(next', next, n, Item(s, k - 1), Item(s, k))
      /\ Spliced(prev', prev, n, Item(s, k), Item(s, k - 1))
  BY DEF Grow
<1>5. Chain(t, next', IF k = 1 THEN n ELSE head) /\ BackChain(t, prev', IF k = Len(s) + 1 THEN n ELSE tail)
  BY <1>0, <1>1, <1>2, <1>3, <1>4, InsertLinks
<1>6. Chain(t, next', head') /\ BackChain(t, prev', tail')
  BY <1>0, <1>5
<1>7. Forward' = t
  <2>1. Walk(next', head') = t
    BY <1>6, WalkIs
  <2> QED BY <2>1 DEF Forward
<1>8. \A i \in 1..Len(t) : t[i] \in used'
  <2> SUFFICES ASSUME NEW i \in 1..Len(t) PROVE t[i] \in used'
    OBVIOUS
  <2>1. t[i] = (IF i < k THEN s[i] ELSE IF i = k THEN n ELSE s[i - 1]) /\ Len(t) = Len(s) + 1
    BY <1>2 DEF Inserted
  <2>2. i < k => i \in 1..Len(s)
    BY <1>0, <1>1, <2>1
  <2>3. ~(i < k) /\ i # k => i - 1 \in 1..Len(s)
    BY <1>0, <1>1, <2>1
  <2> QED BY <1>0, <1>1, <2>1, <2>2, <2>3
<1>9. length' = Len(t)
  BY <1>0, <1>1, <1>2 DEF Inserted
<1>10. Holds(Forward)'
  BY <1>6, <1>7, <1>8, <1>9 DEF Holds
<1>11. Shape'
  <2>1. next' \in Links /\ prev' \in Links
    BY <1>4 DEF Spliced
  <2>2. used \subseteq Nodes /\ panicked \in BOOLEAN /\ \A m \in Nodes \ used : next[m] = Nil /\ prev[m] = Nil
    BY DEF Shape
  <2>3. ASSUME NEW m \in Nodes \ used' PROVE next'[m] = Nil /\ prev'[m] = Nil
    <3>1. m # n /\ m \notin used
      BY <1>0, <2>3
    <3>2. m # Item(s, k) /\ m # Item(s, k - 1)
      <4>1. \A x : Item(s, x) \in used \/ Item(s, x) = Nil
        BY <1>1 DEF Item
      <4> QED BY <3>1, <4>1, NilAssumption
    <3>3. next'[m] = next[m] /\ prev'[m] = prev[m]
      BY <1>4, <3>1, <3>2 DEF Spliced
    <3> QED BY <2>2, <3>1, <3>3
  <2> QED BY <1>0, <2>1, <2>2, <2>3 DEF Shape
<1> QED BY <1>2, <1>7, <1>10, <1>11 DEF ListInv, t

LEMMA ShrinkKeeps ==
  ASSUME Shape, NEW s, Holds(s), NEW k, Shrink(s, k)
  PROVE  /\ ListInv' /\ Forward' = RemoveAt(s, k)
         /\ Removed(s, k, Forward')
<1> DEFINE t == RemoveAt(s, k)
<1>0. /\ ~panicked /\ k \in 1..Len(s)
      /\ head' = (IF k = 1 THEN Item(s, k + 1) ELSE head)
      /\ tail' = (IF k = Len(s) THEN Item(s, k - 1) ELSE tail)
      /\ length' = length - 1 /\ used' = used /\ panicked' = panicked
  BY DEF Shrink
<1>1. /\ s \in Seq(Nodes) /\ Chain(s, next, head) /\ BackChain(s, prev, tail) /\ length = Len(s)
      /\ \A i \in 1..Len(s) : s[i] \in used
  BY <1>0 DEF Holds, Chain
<1>2. Removed(s, k, t)
  BY <1>0, <1>1, RemoveAtRemoves
<1> HIDE DEF t
<1>4. /\ Unspliced(next', next, s[k], Item(s, k - 1), Item(s, k + 1))
      /\ Unspliced(prev', prev, s[k], Item(s, k + 1), Item(s, k - 1))
  BY DEF Shrink
<1>5. /\ Chain(t, next', IF k = 1 THEN Item(s, k + 1) ELSE head)
      /\ BackChain(t, prev', IF k = Len(s) THEN Item(s, k - 1) ELSE tail)
  BY <1>0, <1>1, <1>2, <1>4, RemoveLinks
<1>6. Chain(t, next', head') /\ BackChain(t, prev', tail')
  BY <1>0, <1>5
<1>7. Forward' = t
  <2>1. Walk(next', head') = t
    BY <1>6, WalkIs
  <2> QED BY <2>1 DEF Forward
<1>8. \A i \in 1..Len(t) : t[i] \in used'
  <2> SUFFICES ASSUME NEW i \in 1..Len(t) PROVE t[i] \in used'
    OBVIOUS
  <2>1. t[i] = (IF i < k THEN s[i] ELSE s[i + 1]) /\ Len(t) = Len(s) - 1
    BY <1>2 DEF Removed
  <2>2. i \in 1..Len(s) /\ i + 1 \in 1..Len(s)
    BY <1>0, <1>1, <2>1
  <2> QED BY <1>0, <1>1, <2>1, <2>2
<1>9. length' = Len(t)
  BY <1>0, <1>1, <1>2 DEF Removed
<1>10. Holds(Forward)'
  BY <1>6, <1>7, <1>8, <1>9 DEF Holds
<1>11. Shape'
  <2>1. next' \in Links /\ prev' \in Links
    BY <1>4 DEF Unspliced
  <2>2. used \subseteq Nodes /\ panicked \in BOOLEAN /\ \A m \in Nodes \ used : next[m] = Nil /\ prev[m] = Nil
    BY DEF Shape
  <2>3. ASSUME NEW m \in Nodes \ used' PROVE next'[m] = Nil /\ prev'[m] = Nil
    <3>1. m \notin used
      BY <1>0, <2>3
    <3>2. m # Item(s, k + 1) /\ m # Item(s, k - 1) /\ m # s[k]
      <4>1. \A x : Item(s, x) \in used \/ Item(s, x) = Nil
        BY <1>1 DEF Item
      <4>2. s[k] \in used
        BY <1>0, <1>1
      <4> QED BY <3>1, <4>1, <4>2, NilAssumption
    <3>3. next'[m] = next[m] /\ prev'[m] = prev[m]
      BY <1>4, <3>1, <3>2 DEF Unspliced
    <3> QED BY <2>2, <3>1, <3>3
  <2> QED BY <1>0, <2>1, <2>2, <2>3 DEF Shape
<1> QED BY <1>2, <1>7, <1>10, <1>11 DEF ListInv, t

LEMMA EmptyChain ==
  ASSUME NEW link
  PROVE  /\ Chain(<<>>, link, Nil) /\ BackChain(<<>>, link, Nil) /\ Walk(link, Nil) = <<>>
         /\ Len(<<>>) = 0 /\ \A i : i \notin 1..Len(<<>>)
<1>1. <<>> \in Seq(Nodes) /\ Len(<<>>) = 0 /\ \A i : i \notin 1..Len(<<>>)
  OBVIOUS
<1>2. Chain(<<>>, link, Nil) /\ BackChain(<<>>, link, Nil)
  BY <1>1 DEF Chain, BackChain, Distinct, Item
<1>3. Walk(link, Nil) = <<>>
  BY <1>2, WalkIs
<1> QED BY <1>1, <1>2, <1>3

Cleared ==
  /\ ~panicked /\ Forward' = <<>>
  /\ UNCHANGED <<prev, next, iter, panicked, used, visited>>

IterOnly == ~panicked /\ UNCHANGED <<listVars, panicked, used>>

LEMMA EmptyClears ==
  ASSUME ListInv, Empty
  PROVE  ListInv' /\ Cleared
<1>1. /\ head' = Nil /\ tail' = Nil /\ length' = 0 /\ ~panicked
      /\ UNCHANGED <<prev, next, iter, panicked, used, visited>>
  BY DEF Empty
<1>2. /\ Chain(<<>>, next, Nil) /\ BackChain(<<>>, prev, Nil) /\ Walk(next, Nil) = <<>>
      /\ Len(<<>>) = 0 /\ \A i : i \notin 1..Len(<<>>)
  BY EmptyChain
<1>3. Forward' = <<>>
  BY <1>1, <1>2 DEF Forward
<1>4. Shape'
  BY <1>1 DEF ListInv, Shape
<1>5. Holds(Forward)'
  BY <1>1, <1>2, <1>3 DEF Holds
<1> QED BY <1>1, <1>3, <1>4, <1>5 DEF ListInv, Cleared

\* What a step does to the list.
Change ==
  \/ \E n \in Nodes, k \in 1..(Len(Forward) + 1) :
       /\ Grow(Forward, k, n)
       /\ Forward' = InsertAt(Forward, k, n) /\ Inserted(Forward, k, n, Forward')
  \/ \E k \in 1..Len(Forward) :
       /\ Shrink(Forward, k)
       /\ Forward' = RemoveAt(Forward, k) /\ Removed(Forward, k, Forward')
  \/ Cleared
  \/ panicked' /\ Forward' = Forward
  \/ IterOnly /\ Forward' = Forward

LEMMA NextChanges ==
  ASSUME ListInv, Next
  PROVE  ListInv' /\ Change
<1> DEFINE s == Forward
<1>0. Shape /\ Holds(s) /\ s = Forward
  BY DEF ListInv
<1> HIDE DEF s
<1>g. ASSUME NEW n \in Nodes, \E k \in 1..(Len(s) + 1) : Grow(s, k, n)
      PROVE  ListInv' /\ Change
  <2>1. PICK k \in 1..(Len(s) + 1) : Grow(s, k, n)
    BY <1>g
  <2>2. ListInv' /\ Forward' = InsertAt(s, k, n) /\ Inserted(s, k, n, Forward')
    BY <1>0, <2>1, GrowKeeps
  <2> QED BY <2>1, <2>2 DEF Change, s
<1>i. ASSUME IterOnly PROVE ListInv' /\ Change
  <2>1. UNCHANGED <<listVars, panicked, used>>
    BY <1>i DEF IterOnly
  <2>2. Forward' = Forward
    BY <2>1 DEF Forward, listVars
  <2>3. Shape'
    BY <1>0, <2>1 DEF Shape, listVars
  <2>4. Holds(Forward)'
    BY <1>0, <2>1, <2>2 DEF Holds, listVars
  <2> QED BY <1>i, <2>2, <2>3, <2>4 DEF ListInv, Change
<1>1. ASSUME NEW n \in Nodes, AddNodeHead(n) PROVE ListInv' /\ Change
  <2>1. Grow(s, 1, n)
    BY <1>0, <1>1, HeadGrows DEF AddNodeHead
  <2>2. 1 \in 1..(Len(s) + 1)
    BY <2>1 DEF Grow
  <2> QED BY <1>g, <2>1, <2>2
<1>2. ASSUME NEW n \in Nodes, AddNodeTail(n) PROVE ListInv' /\ Change
  <2>1. Grow(s, Len(s) + 1, n)
    BY <1>0, <1>2, TailGrows DEF AddNodeTail
  <2>2. Len(s) + 1 \in 1..(Len(s) + 1)
    BY <2>1 DEF Grow
  <2> QED BY <1>g, <2>1, <2>2
<1>3. ASSUME NEW n \in Nodes, RemoveNode(n) PROVE ListInv' /\ Change
  <2>1. PICK k \in 1..Len(s) : Shrink(s, k)
    BY <1>0, <1>3, RemoveNodeShrinks
  <2>2. ListInv' /\ Forward' = RemoveAt(s, k) /\ Removed(s, k, Forward')
    BY <1>0, <2>1, ShrinkKeeps
  <2> QED BY <2>1, <2>2 DEF Change, s
<1>4. ASSUME NEW n \in Nodes, NEW old \in Nodes, InsertAfter(n, old) PROVE ListInv' /\ Change
  BY <1>0, <1>4, <1>g, InsertAfterGrows
<1>5. ASSUME NEW n \in Nodes, NEW old \in Nodes, InsertBefore(n, old) PROVE ListInv' /\ Change
  <2>1. (\E k \in 1..(Len(s) + 1) : Grow(s, k, n)) \/ Stumble(s)
    BY <1>0, <1>5, InsertBeforeGrows
  <2>2. CASE Stumble(s)
    <3>1. /\ Chain(s, next', head') /\ \A i \in 1..Len(s) : s[i] \in used'
          /\ Shape' /\ panicked'
      BY <2>2 DEF Stumble
    <3>2. Walk(next', head') = s
      BY <3>1, WalkIs
    <3>3. Forward' = s
      BY <3>2 DEF Forward
    <3>4. Holds(Forward)'
      BY <3>1, <3>3 DEF Holds
    <3> QED BY <1>0, <3>1, <3>3, <3>4 DEF ListInv, Change
  <2> QED BY <1>g, <2>1, <2>2
<1>6. CASE Empty
  BY <1>6, EmptyClears DEF Change
<1>7. ASSUME NEW d \in {"head", "tail"}, NewListIterator(d) PROVE ListInv' /\ Change
  BY <1>7, <1>i DEF NewListIterator, IterOnly
<1>8. CASE Rewind
  BY <1>8, <1>i DEF Rewind, IterOnly
<1>9. CASE NextNode
  BY <1>9, <1>i DEF NextNode, IterOnly
<1> QED BY <1>1, <1>2, <1>3, <1>4, <1>5, <1>6, <1>7, <1>8, <1>9 DEF Next

LEMMA ListInvInit == Init => ListInv
<1> SUFFICES ASSUME Init PROVE ListInv
  OBVIOUS
<1>1. /\ Chain(<<>>, next, Nil) /\ BackChain(<<>>, prev, Nil) /\ Walk(next, Nil) = <<>>
      /\ Len(<<>>) = 0 /\ \A i : i \notin 1..Len(<<>>)
  BY EmptyChain
<1>2. Forward = <<>>
  BY <1>1 DEF Forward, Init
<1>3. Shape
  BY DEF Init, Shape, Links
<1>4. Holds(Forward)
  BY <1>1, <1>2 DEF Holds, Init
<1> QED BY <1>3, <1>4 DEF ListInv

LEMMA ListInvStep == ListInv /\ [Next]_vars => ListInv'
<1> SUFFICES ASSUME ListInv, [Next]_vars PROVE ListInv'
  OBVIOUS
<1>1. CASE Next
  BY <1>1, NextChanges
<1>2. CASE UNCHANGED vars
  <2>1. UNCHANGED <<listVars, panicked, used>>
    BY <1>2 DEF vars
  <2>2. Forward' = Forward
    BY <2>1 DEF Forward, listVars
  <2>3. Shape'
    BY <2>1 DEF ListInv, Shape, listVars
  <2>4. Holds(Forward)'
    BY <2>1, <2>2 DEF ListInv, Holds, listVars
  <2> QED BY <2>3, <2>4 DEF ListInv
<1> QED BY <1>1, <1>2

-----------------------------------------------------------------------------
(***************************************************************************)
(* The way back.                                                           *)
(***************************************************************************)
LEMMA ReverseItems ==
  ASSUME NEW s \in Seq(Nodes)
  PROVE  /\ Reverse(s) \in Seq(Nodes) /\ Len(Reverse(s)) = Len(s) /\ Len(s) \in Nat
         /\ \A i \in 1..Len(s) : Len(s) + 1 - i \in 1..Len(s) /\ Reverse(s)[i] = s[Len(s) + 1 - i]
         /\ \A i \in Int : Item(Reverse(s), i) = Item(s, Len(s) + 1 - i)
<1> DEFINE e == Len(s)
           r == Reverse(s)
<1>0. e \in Nat
  OBVIOUS
<1>1. \A i \in 1..e : e + 1 - i \in 1..e /\ e - i + 1 = e + 1 - i
  BY <1>0
<1>2. r = [i \in 1..e |-> s[e - i + 1]]
  BY DEF Reverse
<1> HIDE DEF r
<1>3. \A i \in 1..e : r[i] = s[e + 1 - i]
  BY <1>1, <1>2
<1>4. \A i \in 1..e : s[e - i + 1] \in Nodes
  BY <1>1
<1>5. r \in Seq(Nodes) /\ Len(r) = e
  BY <1>0, <1>2, <1>4
<1>6. ASSUME NEW i \in Int PROVE Item(r, i) = Item(s, e + 1 - i)
  <2>1. i \in 1..e <=> e + 1 - i \in 1..e
    BY <1>0
  <2> HIDE DEF e
  <2>2. e = Len(s)
    BY DEF e
  <2> QED BY <1>3, <1>5, <2>1, <2>2 DEF Item
<1> QED BY <1>0, <1>1, <1>3, <1>5, <1>6 DEF r

LEMMA ReverseChain ==
  ASSUME NEW s \in Seq(Nodes), Distinct(s), NEW link, NEW n, BackChain(s, link, n)
  PROVE  Chain(Reverse(s), link, n)
<1> DEFINE e == Len(s)
           r == Reverse(s)
<1>1. /\ r \in Seq(Nodes) /\ Len(r) = e /\ e \in Nat
      /\ \A i \in 1..e : e + 1 - i \in 1..e /\ r[i] = s[e + 1 - i]
      /\ \A i \in Int : Item(r, i) = Item(s, e + 1 - i)
  BY ReverseItems
<1>2. n = Item(s, e) /\ \A i \in 1..e : link[s[i]] = Item(s, i - 1)
  BY DEF BackChain
<1>3. \A i, j \in 1..e : s[i] = s[j] => i = j
  BY DEF Distinct
<1> HIDE DEF e, r
<1>4. n = Item(r, 1)
  <2>1. e + 1 - 1 = e
    BY <1>1
  <2> QED BY <1>1, <1>2, <2>1
<1>5. ASSUME NEW i \in 1..e PROVE link[r[i]] = Item(r, i + 1)
  <2> DEFINE j == e + 1 - i
  <2>1. j \in 1..e /\ r[i] = s[j]
    BY <1>1
  <2>2. j - 1 = e + 1 - (i + 1) /\ i + 1 \in Int
    BY <1>1
  <2> HIDE DEF j
  <2> QED BY <1>1, <1>2, <2>1, <2>2
<1>6. ASSUME NEW i \in 1..e, NEW j \in 1..e, r[i] = r[j] PROVE i = j
  <2>1. e + 1 - i \in 1..e /\ e + 1 - j \in 1..e /\ s[e + 1 - i] = s[e + 1 - j]
    BY <1>1, <1>6
  <2>2. e + 1 - i = e + 1 - j
    BY <1>3, <2>1
  <2> QED BY <1>1, <2>2
<1>7. Distinct(r)
  BY <1>1, <1>6 DEF Distinct
<1>8. Chain(r, link, n)
  BY <1>1, <1>4, <1>5, <1>7 DEF Chain
<1> QED BY <1>8 DEF r

LEMMA InvAgree == ListInv => LinksAgree
<1> SUFFICES ASSUME ListInv, ~panicked PROVE Backward = Reverse(Forward) /\ length = Len(Forward)
  BY DEF LinksAgree
<1> DEFINE s == Forward
<1>1. s \in Seq(Nodes) /\ Distinct(s) /\ BackChain(s, prev, tail) /\ length = Len(s)
  BY DEF ListInv, Holds, Chain
<1> HIDE DEF s
<1>2. Chain(Reverse(s), prev, tail)
  BY <1>1, ReverseChain
<1>3. Walk(prev, tail) = Reverse(s)
  BY <1>2, WalkIs
<1> QED BY <1>1, <1>3 DEF Backward, s

\* LinksAgree, for any number of nodes and any sequence of calls: the chain by
\* Next and the chain by Prev are kept equal by every operation of dlist.go:45
\* to 104, up to the panic of InsertNode before a node that is not the first.
THEOREM LinksAgreeHolds == Spec => []LinksAgree
<1>1. Init => ListInv
  BY ListInvInit
<1>2. ListInv /\ [Next]_vars => ListInv'
  BY ListInvStep
<1>3. ListInv => LinksAgree
  BY InvAgree
<1> QED BY <1>1, <1>2, <1>3, PTL DEF Spec

\* ImplementsSequence, for any number of nodes: with the nodes met from Head by
\* Next as the sequence, every call of dlist.go:45 to 104 is one insertion, one
\* removal, one clearing or no change of it.
THEOREM ImplementsSequenceHolds == Spec => ImplementsSequence
<1>1. Init => Contents!Init
  <2> SUFFICES ASSUME Init PROVE Forward = <<>>
    BY DEF Contents!Init
  <2>1. Walk(next, Nil) = <<>>
    BY EmptyChain
  <2> QED BY <2>1 DEF Init, Forward
<1>2. ListInv /\ [Next]_vars => [Contents!Next]_Forward
  <2> SUFFICES ASSUME ListInv, [Next]_vars PROVE Contents!Next \/ Forward' = Forward
    OBVIOUS
  <2>1. CASE UNCHANGED vars
    BY <2>1 DEF vars, listVars, Forward
  <2>2. CASE Next
    <3>1. Change
      BY <2>2, NextChanges
    <3>2. ASSUME NEW n \in Nodes, NEW k \in 1..(Len(Forward) + 1), Forward' = InsertAt(Forward, k, n)
          PROVE  Contents!Next
      BY <3>2 DEF Contents!Next, Contents!Insert, InsertAt, Contents!InsertAt
    <3>3. ASSUME NEW k \in 1..Len(Forward), Forward' = RemoveAt(Forward, k)
          PROVE  Contents!Next
      BY <3>3 DEF Contents!Next, Contents!Drop, RemoveAt, Contents!RemoveAt
    <3>4. CASE Cleared
      BY <3>4 DEF Cleared, Contents!Next, Contents!Clear
    <3> QED BY <3>1, <3>2, <3>3, <3>4 DEF Change
  <2> QED BY <2>1, <2>2
<1>3. Init => ListInv
  BY ListInvInit
<1>4. ListInv /\ [Next]_vars => ListInv'
  BY ListInvStep
<1> QED BY <1>1, <1>2, <1>3, <1>4, PTL DEF Spec, ImplementsSequence, Contents!Spec

-----------------------------------------------------------------------------
(***************************************************************************)
(* The iterator.  w is the list in the direction of the iterator, link the *)
(* links it follows, p the node it stands on, v what it has returned and u *)
(* the nodes in use.                                                       *)
(***************************************************************************)
Ordered(v, w) ==
  \A i, j \in 1..Len(v), x, y \in 1..Len(w) : i < j /\ v[i] = w[x] /\ v[j] = w[y] => x < y

Behind(v, w, c) == \A i \in 1..Len(v), x \in 1..Len(w) : v[i] = w[x] => x <= c

\* It stands in the list, behind it what it has returned ...
On(w, p, v) == \E c \in 0..Len(w) : p = Item(w, c + 1) /\ Behind(v, w, c)

\* ... or on a chain that has been taken out of the list, of nodes not returned yet.
Aside(r, w, v, u) ==
  \A i \in 1..Len(r) :
    /\ r[i] \in u /\ \A x \in 1..Len(w) : r[i] # w[x]
    /\ \A x \in 1..Len(v) : r[i] # v[x]

Off(w, link, p, v, u) == \E r : Chain(r, link, p) /\ Aside(r, w, v, u)

Along(w, link, p, v, u) ==
  /\ v \in Seq(u) /\ Distinct(v) /\ Ordered(v, w)
  /\ On(w, p, v) \/ Off(w, link, p, v, u)

LEMMA AlongStart ==
  ASSUME NEW w \in Seq(Nodes), NEW link, NEW u
  PROVE  Along(w, link, Item(w, 1), <<>>, u)
<1>1. <<>> \in Seq(u) /\ Len(<<>>) = 0 /\ \A i : i \notin 1..Len(<<>>)
  OBVIOUS
<1>2. Distinct(<<>>) /\ Ordered(<<>>, w) /\ Behind(<<>>, w, 0)
  BY <1>1 DEF Distinct, Ordered, Behind
<1>3. 0 \in 0..Len(w) /\ 0 + 1 = 1
  OBVIOUS
<1> QED BY <1>1, <1>2, <1>3 DEF Along, On

LEMMA AlongInsert ==
  ASSUME NEW w \in Seq(Nodes), Distinct(w), NEW link, NEW p, NEW v, NEW u, Along(w, link, p, v, u),
         \A i \in 1..Len(w) : w[i] \in u,
         NEW k \in 1..(Len(w) + 1), NEW n \in Nodes, n \notin u, NEW w2, Inserted(w, k, n, w2),
         NEW link2, Spliced(link2, link, n, Item(w, k - 1), Item(w, k))
  PROVE  Along(w2, link2, p, v, u \cup {n})
<1>0. /\ Len(w) \in Nat /\ k \in Nat /\ 1 <= k /\ k <= Len(w) + 1 /\ Len(w2) = Len(w) + 1
      /\ v \in Seq(u) /\ Len(v) \in Nat /\ Distinct(v) /\ Ordered(v, w)
  BY DEF Inserted, Along
<1>1. \A i \in 1..Len(v) : v[i] \in u /\ v[i] # n
  BY <1>0
<1>2. /\ Distinct(w2) /\ k \in 1..Len(w2) /\ w2[k] = n
      /\ \A i \in Nat : Item(w2, i) = IF i < k THEN Item(w, i) ELSE IF i = k THEN n ELSE Item(w, i - 1)
  <2>1. \A i \in 1..Len(w) : w[i] # n
    OBVIOUS
  <2> QED BY <2>1, InsertedItems
<1>3. ASSUME NEW x \in 1..Len(w2), x # k
      PROVE  \/ x < k /\ x \in 1..Len(w) /\ w2[x] = w[x]
             \/ x > k /\ x - 1 \in 1..Len(w) /\ w2[x] = w[x - 1]
  <2>1. w2[x] = IF x < k THEN w[x] ELSE IF x = k THEN n ELSE w[x - 1]
    BY DEF Inserted
  <2>2. (x < k /\ x \in 1..Len(w)) \/ (~(x < k) /\ x > k /\ x - 1 \in 1..Len(w))
    BY <1>0, <1>3
  <2> QED BY <1>3, <2>1, <2>2
<1>4. Ordered(v, w2)
  <2> SUFFICES ASSUME NEW i \in 1..Len(v), NEW j \in 1..Len(v), NEW x \in 1..Len(w2), NEW y \in 1..Len(w2),
                      i < j, v[i] = w2[x], v[j] = w2[y]
               PROVE  x < y
    BY DEF Ordered
  <2>1. x # k /\ y # k
    BY <1>1, <1>2
  <2>2. x \in Nat /\ y \in Nat
    BY <1>0
  <2>3. CASE x < k /\ y < k
    <3>1. x \in 1..Len(w) /\ y \in 1..Len(w) /\ v[i] = w[x] /\ v[j] = w[y]
      BY <1>0, <1>3, <2>1, <2>2, <2>3
    <3> QED BY <1>0, <3>1 DEF Ordered
  <2>4. CASE x < k /\ y > k
    BY <1>0, <2>2, <2>4
  <2>5. CASE x > k /\ y < k
    <3>1. x - 1 \in 1..Len(w) /\ y \in 1..Len(w) /\ v[i] = w[x - 1] /\ v[j] = w[y]
      BY <1>0, <1>3, <2>1, <2>2, <2>5
    <3>2. x - 1 < y
      BY <1>0, <3>1 DEF Ordered
    <3> QED BY <1>0, <2>2, <2>5, <3>2
  <2>6. CASE x > k /\ y > k
    <3>1. x - 1 \in 1..Len(w) /\ y - 1 \in 1..Len(w) /\ v[i] = w[x - 1] /\ v[j] = w[y - 1]
      BY <1>0, <1>3, <2>1, <2>2, <2>6
    <3>2. x - 1 < y - 1
      BY <1>0, <3>1 DEF Ordered
    <3> QED BY <2>2, <3>2
  <2> QED BY <1>0, <2>1, <2>2, <2>3, <2>4, <2>5, <2>6
<1>5. ASSUME On(w, p, v) PROVE On(w2, p, v)
  <2>1. PICK c \in 0..Len(w) : p = Item(w, c + 1) /\ Behind(v, w, c)
    BY <1>5 DEF On
  <2>0. c \in Nat /\ c + 1 \in Nat /\ c + 2 \in Nat
    BY <1>0
  <2> DEFINE c2 == IF k <= c + 1 THEN c + 1 ELSE c
  <2>2. c2 \in 0..Len(w2)
    BY <1>0, <2>0
  <2>3. p = Item(w2, c2 + 1)
    <3>1. CASE k <= c + 1
      <4>1. ~(c + 2 < k) /\ c + 2 # k /\ (c + 2) - 1 = c + 1 /\ c2 + 1 = c + 2
        BY <1>0, <2>0, <3>1
      <4>2. Item(w2, c + 2) = Item(w, (c + 2) - 1)
        BY <1>2, <2>0, <4>1
      <4> QED BY <2>1, <4>1, <4>2
    <3>2. CASE ~(k <= c + 1)
      <4>1. c + 1 < k /\ c2 + 1 = c + 1
        BY <1>0, <2>0, <3>2
      <4> QED BY <1>2, <2>0, <2>1, <4>1
    <3> QED BY <3>1, <3>2
  <2>4. ASSUME NEW i \in 1..Len(v), NEW x \in 1..Len(w2), v[i] = w2[x] PROVE x <= c2
    <3>1. x # k /\ x \in Nat
      BY <1>0, <1>1, <1>2, <2>4
    <3>2. CASE x < k
      <4>1. x \in 1..Len(w) /\ v[i] = w[x]
        BY <1>0, <1>3, <2>4, <3>1, <3>2
      <4>2. x <= c
        BY <2>1, <4>1 DEF Behind
      <4> QED BY <2>0, <3>1, <4>2
    <3>3. CASE x > k
      <4>1. x - 1 \in 1..Len(w) /\ v[i] = w[x - 1]
        BY <1>0, <1>3, <2>4, <3>1, <3>3
      <4>2. x - 1 <= c
        BY <2>1, <4>1 DEF Behind
      <4> QED BY <1>0, <2>0, <3>1, <3>3, <4>2
    <3> QED BY <1>0, <3>1, <3>2, <3>3
  <2> HIDE DEF c2
  <2>5. Behind(v, w2, c2)
    BY <2>4 DEF Behind
  <2> QED BY <2>2, <2>3, <2>5 DEF On
<1>6. ASSUME Off(w, link, p, v, u) PROVE Off(w2, link2, p, v, u \cup {n})
  <2>1. PICK r : Chain(r, link, p) /\ Aside(r, w, v, u)
    BY <1>6 DEF Off
  <2>2. r \in Seq(Nodes) /\ \A i \in 1..Len(r) : r[i] \in Nodes /\ r[i] \in u /\ r[i] # n
    BY <2>1 DEF Chain, Aside
  <2>3. \A i \in 1..Len(r) : link2[r[i]] = link[r[i]]
    <3> SUFFICES ASSUME NEW i \in 1..Len(r) PROVE link2[r[i]] = link[r[i]]
      OBVIOUS
    <3>1. r[i] # Item(w, k - 1)
      BY <2>1, <2>2, NilAssumption DEF Item, Aside
    <3> QED BY <2>2, <3>1 DEF Spliced
  <2>4. Chain(r, link2, p)
    BY <2>1, <2>3 DEF Chain
  <2>5. ASSUME NEW i \in 1..Len(r), NEW x \in 1..Len(w2) PROVE r[i] # w2[x]
    BY <1>2, <1>3, <2>1, <2>2 DEF Aside
  <2>6. Aside(r, w2, v, u \cup {n})
    BY <2>1, <2>5 DEF Aside
  <2> QED BY <2>4, <2>6 DEF Off
<1>7. v \in Seq(u \cup {n})
  BY <1>0, <1>1
<1> QED BY <1>0, <1>4, <1>5, <1>6, <1>7 DEF Along

LEMMA AlongRemove ==
  ASSUME NEW w \in Seq(Nodes), Distinct(w), NEW link, NEW p, NEW v, NEW u, Along(w, link, p, v, u),
         \A i \in 1..Len(w) : w[i] \in u,
         NEW k \in 1..Len(w), NEW w2, Removed(w, k, w2),
         NEW link2, Unspliced(link2, link, w[k], Item(w, k - 1), Item(w, k + 1))
  PROVE  Along(w2, link2, p, v, u)
<1>0. /\ Len(w) \in Nat /\ k \in Nat /\ 1 <= k /\ k <= Len(w) /\ Len(w2) = Len(w) - 1
      /\ v \in Seq(u) /\ Len(v) \in Nat /\ Distinct(v) /\ Ordered(v, w)
  BY DEF Removed, Along
<1>2. /\ Distinct(w2)
      /\ \A i \in Nat : Item(w2, i) = IF i < k THEN Item(w, i) ELSE Item(w, i + 1)
  BY RemovedItems
<1>3. ASSUME NEW x \in 1..Len(w2)
      PROVE  \/ x < k /\ x \in 1..Len(w) /\ w2[x] = w[x]
             \/ ~(x < k) /\ x + 1 \in 1..Len(w) /\ w2[x] = w[x + 1]
  <2>1. w2[x] = IF x < k THEN w[x] ELSE w[x + 1]
    BY DEF Removed
  <2>2. x \in 1..Len(w) /\ x + 1 \in 1..Len(w)
    BY <1>0
  <2> QED BY <2>1, <2>2
<1>4. Ordered(v, w2)
  <2> SUFFICES ASSUME NEW i \in 1..Len(v), NEW j \in 1..Len(v), NEW x \in 1..Len(w2), NEW y \in 1..Len(w2),
                      i < j, v[i] = w2[x], v[j] = w2[y]
               PROVE  x < y
    BY DEF Ordered
  <2>2. x \in Nat /\ y \in Nat
    BY <1>0
  <2>3. CASE x < k /\ y < k
    <3>1. x \in 1..Len(w) /\ y \in 1..Len(w) /\ v[i] = w[x] /\ v[j] = w[y]
      BY <1>3, <2>3
    <3> QED BY <1>0, <3>1 DEF Ordered
  <2>4. CASE x < k /\ ~(y < k)
    BY <1>0, <2>2, <2>4
  <2>5. CASE ~(x < k) /\ y < k
    <3>1. x + 1 \in 1..Len(w) /\ y \in 1..Len(w) /\ v[i] = w[x + 1] /\ v[j] = w[y]
      BY <1>3, <2>5
    <3>2. x + 1 < y
      BY <1>0, <3>1 DEF Ordered
    <3> QED BY <1>0, <2>2, <2>5, <3>2
  <2>6. CASE ~(x < k) /\ ~(y < k)
    <3>1. x + 1 \in 1..Len(w) /\ y + 1 \in 1..Len(w) /\ v[i] = w[x + 1] /\ v[j] = w[y + 1]
      BY <1>3, <2>6
    <3>2. x + 1 < y + 1
      BY <1>0, <3>1 DEF Ordered
    <3> QED BY <2>2, <3>2
  <2> QED BY <2>3, <2>4, <2>5, <2>6
<1>5. ASSUME On(w, p, v) PROVE On(w2, p, v) \/ Off(w2, link2, p, v, u)
  <2>1. PICK c \in 0..Len(w) : p = Item(w, c + 1) /\ Behind(v, w, c)
    BY <1>5 DEF On
  <2>0. c \in Nat /\ c + 1 \in Nat
    BY <1>0
  <2>2. CASE k <= c
    <3> DEFINE c2 == c - 1
    <3>1. c2 \in 0..Len(w2) /\ c2 + 1 = c /\ ~(c < k)
      BY <1>0, <2>0, <2>2
    <3>2. p = Item(w2, c2 + 1)
      BY <1>2, <2>0, <2>1, <3>1
    <3>3. ASSUME NEW i \in 1..Len(v), NEW x \in 1..Len(w2), v[i] = w2[x] PROVE x <= c2
      <4>1. x \in Nat
        BY <1>0
      <4>2. CASE x < k
        BY <1>0, <2>0, <2>2, <4>1, <4>2
      <4>3. CASE ~(x < k)
        <5>1. x + 1 \in 1..Len(w) /\ v[i] = w[x + 1]
          BY <1>3, <3>3, <4>3
        <5>2. x + 1 <= c
          BY <2>1, <5>1 DEF Behind
        <5> QED BY <2>0, <4>1, <5>2
      <4> QED BY <4>2, <4>3
    <3> HIDE DEF c2
    <3>4. Behind(v, w2, c2)
      BY <3>3 DEF Behind
    <3> QED BY <3>1, <3>2, <3>4 DEF On
  <2>3. CASE k > c + 1
    <3>1. c \in 0..Len(w2) /\ c + 1 < k
      BY <1>0, <2>0, <2>3
    <3>2. p = Item(w2, c + 1)
      BY <1>2, <2>0, <2>1, <3>1
    <3>3. ASSUME NEW i \in 1..Len(v), NEW x \in 1..Len(w2), v[i] = w2[x] PROVE x <= c
      <4>1. x \in Nat
        BY <1>0
      <4>2. CASE x < k
        <5>1. x \in 1..Len(w) /\ v[i] = w[x]
          BY <1>3, <3>3, <4>2
        <5> QED BY <2>1, <5>1 DEF Behind
      <4>3. CASE ~(x < k)
        <5>1. x + 1 \in 1..Len(w) /\ v[i] = w[x + 1]
          BY <1>3, <3>3, <4>3
        <5>2. x + 1 <= c
          BY <2>1, <5>1 DEF Behind
        <5> QED BY <2>0, <4>1, <5>2
      <4> QED BY <4>2, <4>3
    <3>4. Behind(v, w2, c)
      BY <3>3 DEF Behind
    <3> QED BY <3>1, <3>2, <3>4 DEF On
  <2>4. CASE k = c + 1
    <3> DEFINE r == <<p>>
    <3>1. p = w[k] /\ p \in Nodes /\ p \in u
      BY <2>1, <2>4 DEF Item
    <3>2. r \in Seq(Nodes) /\ Len(r) = 1 /\ r[1] = p /\ \A i \in 1..Len(r) : i = 1
      BY <3>1
    <3>3. link2[p] = Nil
      BY <3>1 DEF Unspliced
    <3> HIDE DEF r
    <3>4. Item(r, 1) = p /\ Item(r, 1 + 1) = Nil /\ Distinct(r)
      BY <3>2 DEF Item, Distinct
    <3>5. Chain(r, link2, p)
      BY <3>2, <3>3, <3>4 DEF Chain
    <3>6. ASSUME NEW x \in 1..Len(w2) PROVE p # w2[x]
      <4>1. PICK y \in 1..Len(w) : y # k /\ w2[x] = w[y]
        <5>1. x \in Nat
          BY <1>0
        <5>2. CASE x < k
          BY <1>0, <1>3, <5>1, <5>2
        <5>3. CASE ~(x < k)
          BY <1>0, <1>3, <5>1, <5>3
        <5> QED BY <5>2, <5>3
      <4> QED BY <3>1, <4>1 DEF Distinct
    <3>7. ASSUME NEW x \in 1..Len(v) PROVE p # v[x]
      <4>1. ~(k <= c)
        BY <2>0, <2>4
      <4> QED BY <2>1, <3>1, <4>1 DEF Behind
    <3>8. Aside(r, w2, v, u)
      BY <3>1, <3>2, <3>6, <3>7 DEF Aside
    <3> QED BY <3>5, <3>8 DEF Off
  <2> QED BY <1>0, <2>0, <2>2, <2>3, <2>4
<1>6. ASSUME Off(w, link, p, v, u) PROVE Off(w2, link2, p, v, u)
  <2>1. PICK r : Chain(r, link, p) /\ Aside(r, w, v, u)
    BY <1>6 DEF Off
  <2>2. r \in Seq(Nodes) /\ \A i \in 1..Len(r) : r[i] \in Nodes
    BY <2>1 DEF Chain
  <2>3. \A i \in 1..Len(r) : link2[r[i]] = link[r[i]]
    <3> SUFFICES ASSUME NEW i \in 1..Len(r) PROVE link2[r[i]] = link[r[i]]
      OBVIOUS
    <3>1. r[i] # Item(w, k - 1) /\ r[i] # w[k]
      BY <2>1, <2>2, NilAssumption DEF Item, Aside
    <3> QED BY <2>2, <3>1 DEF Unspliced
  <2>4. Chain(r, link2, p)
    BY <2>1, <2>3 DEF Chain
  <2>5. ASSUME NEW i \in 1..Len(r), NEW x \in 1..Len(w2) PROVE r[i] # w2[x]
    BY <1>3, <2>1 DEF Aside
  <2>6. Aside(r, w2, v, u)
    BY <2>1, <2>5 DEF Aside
  <2> QED BY <2>4, <2>6 DEF Off
<1> QED BY <1>0, <1>4, <1>5, <1>6 DEF Along

LEMMA Suffix ==
  ASSUME NEW w, NEW link, NEW p, Chain(w, link, p), NEW c \in 0..Len(w)
  PROVE  \E r : /\ Chain(r, link, Item(w, c + 1)) /\ Len(r) = Len(w) - c
                /\ \A i \in 1..Len(r) : c + i \in 1..Len(w) /\ r[i] = w[c + i]
<1> DEFINE a == c + 1
           b == Len(w)
           r == SubSeq(w, a, b)
<1>0. w \in Seq(Nodes) /\ Distinct(w) /\ b \in Nat /\ \A i \in 1..Len(w) : link[w[i]] = Item(w, i + 1)
  BY DEF Chain
<1>1. a \in Nat /\ b \in Int /\ 1 <= a /\ b <= Len(w) /\ a <= b + 1 /\ b - a + 1 = Len(w) - c
      /\ c \in Nat /\ \A i \in Nat : a + i - 1 = c + i
  BY <1>0
<1> HIDE DEF a, b
<1>2. /\ SubSeq(w, a, b) \in Seq(Nodes) /\ Len(SubSeq(w, a, b)) = b - a + 1
      /\ \A i \in 1..(b - a + 1) : SubSeq(w, a, b)[i] = w[a + i - 1]
  BY <1>0, <1>1, CutNodes
<1> HIDE DEF r
<1>3. r \in Seq(Nodes) /\ Len(r) = Len(w) - c /\ Len(w) \in Nat
      /\ \A i \in 1..(Len(w) - c) : r[i] = w[a + i - 1]
  BY <1>0, <1>1, <1>2 DEF r, b
<1>4. \A i \in 1..Len(r) : c + i \in 1..Len(w) /\ r[i] = w[c + i]
  <2> SUFFICES ASSUME NEW i \in 1..Len(r) PROVE c + i \in 1..Len(w) /\ r[i] = w[c + i]
    OBVIOUS
  <2>1. i \in Nat /\ i \in 1..(Len(w) - c) /\ c + i \in 1..Len(w)
    BY <1>1, <1>3
  <2>2. a + i - 1 = c + i
    BY <1>1, <2>1
  <2> QED BY <1>3, <2>1, <2>2
<1>5. \A i \in Nat : i >= 1 => Item(r, i) = Item(w, c + i)
  <2> SUFFICES ASSUME NEW i \in Nat, i >= 1 PROVE Item(r, i) = Item(w, c + i)
    OBVIOUS
  <2>1. CASE i \in 1..Len(r)
    BY <1>4, <2>1 DEF Item
  <2>2. CASE i \notin 1..Len(r)
    <3>1. c + i \notin 1..Len(w)
      BY <1>1, <1>3, <2>2
    <3> QED BY <2>2, <3>1 DEF Item
  <2> QED BY <2>1, <2>2
<1>6. ASSUME NEW i \in 1..Len(r) PROVE link[r[i]] = Item(r, i + 1)
  <2> DEFINE j == c + i
  <2>1. j \in 1..Len(w) /\ r[i] = w[j] /\ j + 1 = c + (i + 1) /\ i + 1 \in Nat /\ i + 1 >= 1
    BY <1>1, <1>3, <1>4
  <2> HIDE DEF j
  <2>2. Item(r, i + 1) = Item(w, c + (i + 1))
    BY <1>5, <2>1
  <2> QED BY <1>0, <2>1, <2>2
<1>7. Distinct(r)
  <2> SUFFICES ASSUME NEW i \in 1..Len(r), NEW j \in 1..Len(r), r[i] = r[j] PROVE i = j
    BY DEF Distinct
  <2>1. c + i = c + j
    BY <1>0, <1>4 DEF Distinct
  <2> QED BY <1>1, <1>3, <2>1
<1>8. Item(w, c + 1) = Item(r, 1)
  BY <1>5
<1>9. Chain(r, link, Item(w, c + 1))
  BY <1>3, <1>6, <1>7, <1>8 DEF Chain
<1> QED BY <1>3, <1>4, <1>9

LEMMA AlongClear ==
  ASSUME NEW w, NEW link, NEW hd, Chain(w, link, hd), NEW p, NEW v, NEW u, Along(w, link, p, v, u),
         \A i \in 1..Len(w) : w[i] \in u
  PROVE  Along(<<>>, link, p, v, u)
<1>0. \A i : i \notin 1..Len(<<>>)
  OBVIOUS
<1>1. Ordered(v, <<>>)
  BY <1>0 DEF Ordered
<1>2. ASSUME On(w, p, v) PROVE Off(<<>>, link, p, v, u)
  <2>1. PICK c \in 0..Len(w) : p = Item(w, c + 1) /\ Behind(v, w, c)
    BY <1>2 DEF On
  <2>2. PICK r : /\ Chain(r, link, Item(w, c + 1)) /\ Len(r) = Len(w) - c
                 /\ \A i \in 1..Len(r) : c + i \in 1..Len(w) /\ r[i] = w[c + i]
    BY Suffix
  <2>3. ASSUME NEW i \in 1..Len(r), NEW x \in 1..Len(v) PROVE r[i] # v[x]
    <3>1. Len(w) \in Nat
      BY DEF Chain
    <3>2. ~(c + i <= c)
      BY <2>2, <3>1
    <3> QED BY <2>1, <2>2, <3>2 DEF Behind
  <2>4. Aside(r, <<>>, v, u)
    BY <1>0, <2>2, <2>3 DEF Aside
  <2> QED BY <2>1, <2>2, <2>4 DEF Off
<1>3. ASSUME Off(w, link, p, v, u) PROVE Off(<<>>, link, p, v, u)
  <2>1. PICK r : Chain(r, link, p) /\ Aside(r, w, v, u)
    BY <1>3 DEF Off
  <2>2. Aside(r, <<>>, v, u)
    BY <1>0, <2>1 DEF Aside
  <2> QED BY <2>1, <2>2 DEF Off
<1> QED BY <1>1, <1>2, <1>3 DEF Along

LEMMA AlongStep ==
  ASSUME NEW w, NEW link, NEW hd, Chain(w, link, hd), NEW p, NEW v, NEW u, Along(w, link, p, v, u),
         \A i \in 1..Len(w) : w[i] \in u, p # Nil
  PROVE  Along(w, link, link[p], Append(v, p), u)
<1> DEFINE v2 == Append(v, p)
           e == Len(v) + 1
<1>0. /\ w \in Seq(Nodes) /\ Distinct(w) /\ Len(w) \in Nat
      /\ \A i \in 1..Len(w) : link[w[i]] = Item(w, i + 1)
      /\ v \in Seq(u) /\ Len(v) \in Nat /\ Distinct(v) /\ Ordered(v, w)
  BY DEF Chain, Along
<1>1. /\ Len(v2) = e /\ v2[e] = p /\ e \in Nat
      /\ \A i \in 1..e : i = e \/ (i \in 1..Len(v) /\ i < e /\ v2[i] = v[i])
  BY <1>0
<1>2. ASSUME p \in u PROVE v2 \in Seq(u)
  BY <1>0, <1>2
<1> HIDE DEF v2, e
<1>3. ASSUME \A i \in 1..Len(v) : v[i] # p PROVE Distinct(v2)
  <2> SUFFICES ASSUME NEW i \in 1..e, NEW j \in 1..e, v2[i] = v2[j] PROVE i = j
    BY <1>1 DEF Distinct
  <2> QED BY <1>0, <1>1, <1>3 DEF Distinct
<1>4. CASE On(w, p, v)
  <2>1. PICK c \in 0..Len(w) : p = Item(w, c + 1) /\ Behind(v, w, c)
    BY <1>4 DEF On
  <2> DEFINE d == c + 1
  <2>0. c \in Nat /\ d \in Nat /\ ~(d <= c) /\ d <= d
    BY <1>0
  <2> HIDE DEF d
  <2>2. d \in 1..Len(w) /\ d \in 0..Len(w) /\ p = w[d]
    <3>1. p = Item(w, d)
      BY <2>1 DEF d
    <3>2. d \in 1..Len(w) /\ p = w[d]
      BY <3>1 DEF Item
    <3>3. d \in 0..Len(w)
      BY <1>0, <3>2
    <3> QED BY <3>2, <3>3
  <2>3. \A x \in 1..Len(w) : p = w[x] => x = d
    BY <1>0, <2>2 DEF Distinct
  <2>4. \A i \in 1..Len(v), x \in 1..Len(w) : v[i] = w[x] => x < d /\ x <= d
    <3> SUFFICES ASSUME NEW i \in 1..Len(v), NEW x \in 1..Len(w), v[i] = w[x] PROVE x < d /\ x <= d
      OBVIOUS
    <3>1. x <= c
      BY <2>1 DEF Behind
    <3>2. x \in Nat
      BY <1>0
    <3> QED BY <2>0, <3>1, <3>2 DEF d
  <2>5. \A i \in 1..Len(v) : v[i] # p
    <3> SUFFICES ASSUME NEW i \in 1..Len(v), v[i] = p PROVE FALSE
      OBVIOUS
    <3>1. d <= c
      BY <2>1, <2>2 DEF Behind
    <3> QED BY <2>0, <3>1
  <2>6. Behind(v2, w, d)
    <3> SUFFICES ASSUME NEW i \in 1..e, NEW x \in 1..Len(w), v2[i] = w[x] PROVE x <= d
      BY <1>1 DEF Behind
    <3> QED BY <1>1, <2>0, <2>3, <2>4
  <2>7. Ordered(v2, w)
    <3> SUFFICES ASSUME NEW i \in 1..e, NEW j \in 1..e, NEW x \in 1..Len(w), NEW y \in 1..Len(w),
                        i < j, v2[i] = w[x], v2[j] = w[y]
                 PROVE  x < y
      BY <1>1 DEF Ordered
    <3>1. i \in 1..Len(v) /\ v2[i] = v[i]
      <4>1. i # e
        BY <1>1
      <4> QED BY <1>1, <4>1
    <3>2. CASE j = e
      <4>1. y = d
        BY <1>1, <2>3, <3>2
      <4> QED BY <2>4, <3>1, <4>1
    <3>3. CASE j # e
      <4>1. j \in 1..Len(v) /\ v2[j] = v[j]
        BY <1>1, <3>3
      <4> QED BY <1>0, <3>1, <4>1 DEF Ordered
    <3> QED BY <3>2, <3>3
  <2>8. link[p] = Item(w, d + 1)
    BY <1>0, <2>2
  <2>9. On(w, link[p], v2)
    BY <2>2, <2>6, <2>8 DEF On
  <2>10. p \in u
    BY <2>2
  <2> QED BY <1>2, <1>3, <2>5, <2>7, <2>9, <2>10 DEF Along, v2
<1>5. CASE Off(w, link, p, v, u)
  <2>1. PICK r : Chain(r, link, p) /\ Aside(r, w, v, u)
    BY <1>5 DEF Off
  <2>2. 1 \in 1..Len(r) /\ p = r[1] /\ 1 \in 0..Len(r) /\ Len(r) \in Nat /\ Distinct(r)
    <3>1. p = Item(r, 1) /\ r \in Seq(Nodes) /\ Distinct(r)
      BY <2>1 DEF Chain
    <3>2. 1 \in 1..Len(r) /\ p = r[1]
      BY <3>1 DEF Item
    <3> QED BY <3>1, <3>2
  <2>3. PICK q : /\ Chain(q, link, Item(r, 1 + 1)) /\ Len(q) = Len(r) - 1
                 /\ \A i \in 1..Len(q) : 1 + i \in 1..Len(r) /\ q[i] = r[1 + i]
    BY <2>1, <2>2, Suffix
  <2>4. link[p] = Item(r, 1 + 1)
    BY <2>1, <2>2 DEF Chain
  <2>5. p \in u /\ (\A x \in 1..Len(w) : p # w[x]) /\ (\A x \in 1..Len(v) : v[x] # p)
    BY <2>1, <2>2 DEF Aside
  <2>6. \A i \in 1..Len(q) : q[i] # p
    <3> SUFFICES ASSUME NEW i \in 1..Len(q), q[i] = p PROVE FALSE
      OBVIOUS
    <3>1. 1 + i = 1
      BY <2>2, <2>3 DEF Distinct
    <3>2. i \in 1..(Len(r) - 1)
      BY <2>3
    <3> QED BY <2>2, <3>1, <3>2
  <2>7. Aside(q, w, v2, u)
    <3> SUFFICES ASSUME NEW i \in 1..Len(q)
                 PROVE  /\ q[i] \in u /\ \A x \in 1..Len(w) : q[i] # w[x]
                        /\ \A x \in 1..Len(v2) : q[i] # v2[x]
      BY DEF Aside
    <3>1. 1 + i \in 1..Len(r) /\ q[i] = r[1 + i]
      BY <2>3
    <3>2. q[i] \in u /\ (\A x \in 1..Len(w) : q[i] # w[x]) /\ \A x \in 1..Len(v) : q[i] # v[x]
      BY <2>1, <3>1 DEF Aside
    <3>3. \A x \in 1..Len(v2) : q[i] # v2[x]
      BY <1>1, <2>6, <3>2
    <3> QED BY <3>2, <3>3
  <2>8. Ordered(v2, w)
    <3> SUFFICES ASSUME NEW i \in 1..e, NEW j \in 1..e, NEW x \in 1..Len(w), NEW y \in 1..Len(w),
                        i < j, v2[i] = w[x], v2[j] = w[y]
                 PROVE  x < y
      BY <1>1 DEF Ordered
    <3>1. i # e /\ j # e
      BY <1>1, <2>5
    <3>2. i \in 1..Len(v) /\ v2[i] = v[i] /\ j \in 1..Len(v) /\ v2[j] = v[j]
      BY <1>1, <3>1
    <3> QED BY <1>0, <3>2 DEF Ordered
  <2>9. Off(w, link, link[p], v2, u)
    BY <2>3, <2>4, <2>7 DEF Off
  <2> QED BY <1>2, <1>3, <2>5, <2>8, <2>9 DEF Along, v2
<1> QED BY <1>4, <1>5 DEF Along

LEMMA ReverseInserted ==
  ASSUME NEW s \in Seq(Nodes), NEW k \in 1..(Len(s) + 1), NEW n, NEW t, Inserted(s, k, n, t)
  PROVE  Inserted(Reverse(s), Len(s) + 2 - k, n, Reverse(t))
<1> DEFINE e == Len(s)
           l == e + 2 - k
           r == Reverse(s)
           q == Reverse(t)
<1>0. t \in Seq(Nodes) /\ Len(t) = e + 1 /\ e \in Nat /\ k \in Nat /\ 1 <= k /\ k <= e + 1 /\ l \in Nat
      /\ \A i \in 1..(e + 1) : t[i] = IF i < k THEN s[i] ELSE IF i = k THEN n ELSE s[i - 1]
  BY DEF Inserted
<1>1. /\ r \in Seq(Nodes) /\ Len(r) = e
      /\ \A i \in 1..e : e + 1 - i \in 1..e /\ r[i] = s[e + 1 - i]
  BY ReverseItems
<1>2. /\ q \in Seq(Nodes) /\ Len(q) = Len(t)
      /\ \A i \in 1..Len(t) : Len(t) + 1 - i \in 1..Len(t) /\ q[i] = t[Len(t) + 1 - i]
  BY <1>0, ReverseItems
<1> HIDE DEF e, l, r, q
<1>3. ASSUME NEW i \in 1..(e + 1)
      PROVE  q[i] = IF i < l THEN r[i] ELSE IF i = l THEN n ELSE r[i - 1]
  <2> DEFINE j == e + 2 - i
  <2>0. i \in Nat /\ 1 <= i /\ i <= e + 1 /\ j \in Nat /\ j \in 1..(e + 1) /\ (e + 1) + 1 - i = j
    BY <1>0
  <2>1. q[i] = t[j]
    BY <1>0, <1>2, <2>0
  <2>2. CASE i < l
    <3>1. ~(j < k) /\ j # k /\ i \in 1..e /\ j - 1 = e + 1 - i
      BY <1>0, <2>0, <2>2 DEF l
    <3>2. t[j] = s[j - 1]
      BY <1>0, <2>0, <3>1
    <3>3. r[i] = s[e + 1 - i]
      BY <1>1, <3>1
    <3> QED BY <2>1, <2>2, <3>1, <3>2, <3>3
  <2>3. CASE i = l
    <3>1. j = k /\ ~(j < k) /\ ~(i < l)
      BY <1>0, <2>0, <2>3 DEF l
    <3>2. t[j] = n
      BY <1>0, <2>0, <3>1
    <3> QED BY <2>1, <2>3, <3>1, <3>2
  <2>4. CASE i > l
    <3>1. j < k /\ i - 1 \in 1..e /\ e + 1 - (i - 1) = j /\ ~(i < l) /\ i # l
      BY <1>0, <2>0, <2>4 DEF l
    <3>2. t[j] = s[j]
      BY <1>0, <2>0, <3>1
    <3>3. r[i - 1] = s[e + 1 - (i - 1)]
      BY <1>1, <3>1
    <3> QED BY <2>1, <3>1, <3>2, <3>3
  <2> QED BY <1>0, <2>0, <2>2, <2>3, <2>4
<1>4. Inserted(r, l, n, q)
  BY <1>0, <1>1, <1>2, <1>3 DEF Inserted
<1> QED BY <1>4 DEF e, l, r, q

LEMMA ReverseRemoved ==
  ASSUME NEW s \in Seq(Nodes), NEW k \in 1..Len(s), NEW t, Removed(s, k, t)
  PROVE  Removed(Reverse(s), Len(s) + 1 - k, Reverse(t))
<1> DEFINE e == Len(s)
           l == e + 1 - k
           r == Reverse(s)
           q == Reverse(t)
<1>0. t \in Seq(Nodes) /\ Len(t) = e - 1 /\ e \in Nat /\ k \in Nat /\ 1 <= k /\ k <= e /\ l \in Nat
      /\ \A i \in 1..(e - 1) : t[i] = IF i < k THEN s[i] ELSE s[i + 1]
  BY DEF Removed
<1>1. /\ r \in Seq(Nodes) /\ Len(r) = e
      /\ \A i \in 1..e : e + 1 - i \in 1..e /\ r[i] = s[e + 1 - i]
  BY ReverseItems
<1>2. /\ q \in Seq(Nodes) /\ Len(q) = Len(t)
      /\ \A i \in 1..Len(t) : Len(t) + 1 - i \in 1..Len(t) /\ q[i] = t[Len(t) + 1 - i]
  BY <1>0, ReverseItems
<1> HIDE DEF e, l, r, q
<1>3. ASSUME NEW i \in 1..(e - 1)
      PROVE  q[i] = IF i < l THEN r[i] ELSE r[i + 1]
  <2> DEFINE j == e - i
  <2>0. i \in Nat /\ 1 <= i /\ i <= e - 1 /\ j \in Nat /\ j \in 1..(e - 1) /\ (e - 1) + 1 - i = j
    BY <1>0
  <2>1. q[i] = t[j]
    BY <1>0, <1>2, <2>0
  <2>2. CASE i < l
    <3>1. ~(j < k) /\ i \in 1..e /\ j + 1 = e + 1 - i
      BY <1>0, <2>0, <2>2 DEF l
    <3>2. t[j] = s[j + 1]
      BY <1>0, <2>0, <3>1
    <3>3. r[i] = s[e + 1 - i]
      BY <1>1, <3>1
    <3> QED BY <2>1, <2>2, <3>1, <3>2, <3>3
  <2>4. CASE ~(i < l)
    <3>1. j < k /\ i + 1 \in 1..e /\ e + 1 - (i + 1) = j
      BY <1>0, <2>0, <2>4 DEF l
    <3>2. t[j] = s[j]
      BY <1>0, <2>0, <3>1
    <3>3. r[i + 1] = s[e + 1 - (i + 1)]
      BY <1>1, <3>1
    <3> QED BY <2>1, <2>4, <3>1, <3>2, <3>3
  <2> QED BY <2>2, <2>4
<1>4. Removed(r, l, q)
  BY <1>0, <1>1, <1>2, <1>3 DEF Removed
<1> QED BY <1>4 DEF e, l, r, q

-----------------------------------------------------------------------------
Directed(d, s) == IF d = "head" THEN s ELSE Reverse(s)
LinksOf(d)     == IF d = "head" THEN next ELSE prev

IterInv ==
  /\ iter \in [next : Nodes \cup {Nil}, direction : {"head", "tail"}]
  /\ ~panicked => Along(Directed(iter.direction, Forward), LinksOf(iter.direction),
                        iter.next, visited, used)

LEMMA DirectedChain ==
  ASSUME ListInv, ~panicked, NEW d \in {"head", "tail"}
  PROVE  /\ Chain(Directed(d, Forward), LinksOf(d), Start(d))
         /\ \A i \in 1..Len(Directed(d, Forward)) : Directed(d, Forward)[i] \in used
<1> DEFINE s == Forward
<1>1. /\ Chain(s, next, head) /\ BackChain(s, prev, tail) /\ s \in Seq(Nodes) /\ Distinct(s)
      /\ \A i \in 1..Len(s) : s[i] \in used
  BY DEF ListInv, Holds, Chain
<1> HIDE DEF s
<1>2. Chain(Reverse(s), prev, tail)
  BY <1>1, ReverseChain
<1>3. /\ Len(Reverse(s)) = Len(s)
      /\ \A i \in 1..Len(s) : Len(s) + 1 - i \in 1..Len(s) /\ Reverse(s)[i] = s[Len(s) + 1 - i]
  BY <1>1, ReverseItems
<1>4. \A i \in 1..Len(Reverse(s)) : Reverse(s)[i] \in used
  BY <1>1, <1>3
<1>5. CASE d = "head"
  BY <1>1, <1>5 DEF Directed, LinksOf, Start, s
<1>6. CASE d = "tail"
  <2>1. d # "head"
    BY <1>6
  <2> QED BY <1>2, <1>4, <2>1 DEF Directed, LinksOf, Start, s
<1> QED BY <1>5, <1>6

\* An insertion and a removal, seen in the direction of the iterator.
LEMMA DirectedGrow ==
  ASSUME ListInv, NEW d \in {"head", "tail"}, NEW k, NEW n, Grow(Forward, k, n),
         Inserted(Forward, k, n, Forward')
  PROVE  \E l \in 1..(Len(Directed(d, Forward)) + 1) :
           /\ Inserted(Directed(d, Forward), l, n, Directed(d, Forward'))
           /\ Spliced(LinksOf(d)', LinksOf(d), n, Item(Directed(d, Forward), l - 1),
                      Item(Directed(d, Forward), l))
<1> DEFINE s == Forward
           t == Forward'
           e == Len(s)
           r == Reverse(s)
           l == e + 2 - k
<1>0. /\ s \in Seq(Nodes) /\ k \in 1..(e + 1) /\ e \in Nat /\ Inserted(s, k, n, t)
      /\ Spliced(next', next, n, Item(s, k - 1), Item(s, k))
      /\ Spliced(prev', prev, n, Item(s, k), Item(s, k - 1))
  BY DEF ListInv, Holds, Chain, Grow
<1> HIDE DEF s, t
<1>1. CASE d = "head"
  BY <1>0, <1>1 DEF Directed, LinksOf, s, t
<1>2. CASE d # "head"
  <2>1. Inserted(r, l, n, Reverse(t))
    BY <1>0, ReverseInserted
  <2>2. Len(r) = e /\ \A i \in Int : Item(r, i) = Item(s, e + 1 - i)
    BY <1>0, ReverseItems
  <2>3. l \in 1..(e + 1) /\ l \in Int /\ l - 1 \in Int /\ e + 1 - l = k - 1 /\ e + 1 - (l - 1) = k
    BY <1>0
  <2> HIDE DEF e, l, r
  <2>4. Item(r, l) = Item(s, k - 1) /\ Item(r, l - 1) = Item(s, k)
    <3>1. Item(r, l) = Item(s, e + 1 - l) /\ Item(r, l - 1) = Item(s, e + 1 - (l - 1))
      BY <2>2, <2>3
    <3> QED BY <2>3, <3>1
  <2>5. Spliced(prev', prev, n, Item(r, l - 1), Item(r, l))
    BY <1>0, <2>4
  <2>6. Directed(d, Forward) = r /\ Directed(d, Forward') = Reverse(t) /\ LinksOf(d) = prev /\ LinksOf(d)' = prev'
    BY <1>2 DEF Directed, LinksOf, r, s, t
  <2>7. l \in 1..(Len(r) + 1)
    BY <2>2, <2>3
  <2> QED BY <2>1, <2>5, <2>6, <2>7
<1> QED BY <1>1, <1>2

LEMMA DirectedShrink ==
  ASSUME ListInv, NEW d \in {"head", "tail"}, NEW k, Shrink(Forward, k), Removed(Forward, k, Forward')
  PROVE  \E l \in 1..Len(Directed(d, Forward)) :
           /\ Removed(Directed(d, Forward), l, Directed(d, Forward'))
           /\ Unspliced(LinksOf(d)', LinksOf(d), Directed(d, Forward)[l],
                        Item(Directed(d, Forward), l - 1), Item(Directed(d, Forward), l + 1))
<1> DEFINE s == Forward
           t == Forward'
           e == Len(s)
           r == Reverse(s)
           l == e + 1 - k
<1>0. /\ s \in Seq(Nodes) /\ k \in 1..e /\ e \in Nat /\ Removed(s, k, t)
      /\ Unspliced(next', next, s[k], Item(s, k - 1), Item(s, k + 1))
      /\ Unspliced(prev', prev, s[k], Item(s, k + 1), Item(s, k - 1))
  BY DEF ListInv, Holds, Chain, Shrink
<1> HIDE DEF s, t
<1>1. CASE d = "head"
  BY <1>0, <1>1 DEF Directed, LinksOf, s, t
<1>2. CASE d # "head"
  <2>1. Removed(r, l, Reverse(t))
    BY <1>0, ReverseRemoved
  <2>2. Len(r) = e /\ (\A i \in Int : Item(r, i) = Item(s, e + 1 - i)) /\ \A i \in 1..e : r[i] = s[e + 1 - i]
    BY <1>0, ReverseItems
  <2>3. l \in 1..e /\ l + 1 \in Int /\ l - 1 \in Int
        /\ e + 1 - l = k /\ e + 1 - (l - 1) = k + 1 /\ e + 1 - (l + 1) = k - 1
    BY <1>0
  <2> HIDE DEF e, l, r
  <2>4. Item(r, l + 1) = Item(s, k - 1) /\ Item(r, l - 1) = Item(s, k + 1) /\ r[l] = s[k]
    <3>1. /\ Item(r, l + 1) = Item(s, e + 1 - (l + 1)) /\ Item(r, l - 1) = Item(s, e + 1 - (l - 1))
          /\ r[l] = s[e + 1 - l]
      BY <2>2, <2>3
    <3> QED BY <2>3, <3>1
  <2>5. Unspliced(prev', prev, r[l], Item(r, l - 1), Item(r, l + 1))
    BY <1>0, <2>4
  <2>6. Directed(d, Forward) = r /\ Directed(d, Forward') = Reverse(t) /\ LinksOf(d) = prev /\ LinksOf(d)' = prev'
    BY <1>2 DEF Directed, LinksOf, r, s, t
  <2>7. l \in 1..Len(r)
    BY <2>2, <2>3
  <2> QED BY <2>1, <2>5, <2>6, <2>7
<1> QED BY <1>1, <1>2

LEMMA ListKeepsIter ==
  ASSUME ListInv, IterInv, Change, UNCHANGED <<iter, visited>>
  PROVE  IterInv'
<1> DEFINE d == iter.direction
           w == Directed(d, Forward)
           w2 == Directed(d, Forward')
           link == LinksOf(d)
           link2 == LinksOf(d)'
           p == iter.next
<1>0. iter \in [next : Nodes \cup {Nil}, direction : {"head", "tail"}] /\ d \in {"head", "tail"}
      /\ iter' = iter /\ visited' = visited
  BY DEF IterInv
<1>1. SUFFICES ASSUME ~panicked' PROVE Along(w2, link2, p, visited, used')
  <2>1. Along(Directed(iter.direction, Forward), LinksOf(iter.direction), iter.next, visited, used)'
        <=> Along(w2, link2, p, visited, used')
    BY <1>0 DEF LinksOf
  <2> QED BY <1>0, <1>1, <2>1 DEF IterInv
<1>2. ASSUME ~panicked
      PROVE  /\ Chain(w, link, Start(d)) /\ w \in Seq(Nodes) /\ Distinct(w)
             /\ \A i \in 1..Len(w) : w[i] \in used
             /\ Along(w, link, p, visited, used)
  <2>1. Chain(w, link, Start(d)) /\ \A i \in 1..Len(w) : w[i] \in used
    BY <1>0, <1>2, DirectedChain
  <2>2. Along(w, link, p, visited, used)
    BY <1>2 DEF IterInv
  <2> QED BY <2>1, <2>2 DEF Chain
<1>3. ASSUME NEW n \in Nodes, NEW k \in 1..(Len(Forward) + 1), Grow(Forward, k, n),
             Inserted(Forward, k, n, Forward')
      PROVE  Along(w2, link2, p, visited, used')
  <2>1. ~panicked /\ n \notin used /\ used' = used \cup {n}
    BY <1>3 DEF Grow
  <2>2. PICK l \in 1..(Len(w) + 1) :
          Inserted(w, l, n, w2) /\ Spliced(link2, link, n, Item(w, l - 1), Item(w, l))
    BY <1>0, <1>3, DirectedGrow
  <2> HIDE DEF w, w2, link, link2, p
  <2>3. Along(w2, link2, p, visited, used \cup {n})
    BY <1>2, <2>1, <2>2, AlongInsert
  <2> QED BY <2>1, <2>3
<1>4. ASSUME NEW k \in 1..Len(Forward), Shrink(Forward, k), Removed(Forward, k, Forward')
      PROVE  Along(w2, link2, p, visited, used')
  <2>1. ~panicked /\ used' = used
    BY <1>4 DEF Shrink
  <2>2. PICK l \in 1..Len(w) :
          Removed(w, l, w2) /\ Unspliced(link2, link, w[l], Item(w, l - 1), Item(w, l + 1))
    BY <1>0, <1>4, DirectedShrink
  <2> HIDE DEF w, w2, link, link2, p
  <2>3. Along(w2, link2, p, visited, used)
    BY <1>2, <2>1, <2>2, AlongRemove
  <2> QED BY <2>1, <2>3
<1>5. CASE Cleared
  <2>1. ~panicked /\ used' = used /\ Forward' = <<>> /\ link2 = link
    BY <1>5 DEF Cleared, LinksOf
  <2>2. w2 = <<>>
    <3>1. Reverse(<<>>) = <<>>
      BY DEF Reverse
    <3> QED BY <2>1, <3>1 DEF Directed
  <2> HIDE DEF w, w2, link, link2, p
  <2>3. Along(<<>>, link, p, visited, used)
    BY <1>2, <2>1, AlongClear
  <2> QED BY <2>1, <2>2, <2>3
<1>6. CASE IterOnly /\ Forward' = Forward
  <2>1. ~panicked /\ used' = used /\ link2 = link /\ w2 = w
    BY <1>6 DEF IterOnly, LinksOf, listVars
  <2> QED BY <1>2, <2>1
<1> QED BY <1>1, <1>3, <1>4, <1>5, <1>6 DEF Change

LEMMA IterStep ==
  ASSUME ListInv, IterInv, Next
  PROVE  IterInv'
<1> DEFINE d == iter.direction
<1>0. iter \in [next : Nodes \cup {Nil}, direction : {"head", "tail"}] /\ d \in {"head", "tail"}
  BY DEF IterInv
<1>1. CASE UNCHANGED <<iter, visited>>
  BY <1>1, NextChanges, ListKeepsIter
<1>s. ASSUME NEW g \in {"head", "tail"}, ~panicked, UNCHANGED <<listVars, panicked, used>>,
             iter' = [next |-> Start(g), direction |-> g], visited' = <<>>
      PROVE  IterInv'
  <2> DEFINE w == Directed(g, Forward)
  <2>1. Chain(w, LinksOf(g), Start(g))
    BY <1>s, DirectedChain
  <2>2. Forward' = Forward /\ LinksOf(g)' = LinksOf(g) /\ used' = used
    BY <1>s DEF listVars, Forward, LinksOf
  <2>3. iter'.next = Start(g) /\ iter'.direction = g
    BY <1>s
  <2>4. Start(g) = Item(w, 1) /\ w \in Seq(Nodes)
    BY <2>1 DEF Chain
  <2>5. Start(g) \in Nodes \cup {Nil}
    <3> HIDE DEF w
    <3> QED BY <2>4 DEF Item
  <2>6. Along(w, LinksOf(g), Start(g), <<>>, used)
    <3> HIDE DEF w
    <3>1. Along(w, LinksOf(g), Item(w, 1), <<>>, used)
      BY <2>4, AlongStart
    <3> QED BY <2>4, <3>1
  <2>7. Along(Directed(g, Forward'), LinksOf(g)', Start(g), <<>>, used')
    BY <2>2, <2>6
  <2>8. Along(Directed(iter.direction, Forward), LinksOf(iter.direction), iter.next, visited, used)'
    BY <1>s, <2>3, <2>7 DEF LinksOf
  <2> QED BY <1>s, <2>5, <2>8 DEF IterInv
<1>2. ASSUME NEW g \in {"head", "tail"}, NewListIterator(g) PROVE IterInv'
  BY <1>2, <1>s DEF NewListIterator
<1>3. CASE Rewind
  <2>1. iter' = [next |-> Start(d), direction |-> d]
    BY <1>0, <1>3 DEF Rewind
  <2> QED BY <1>0, <1>3, <1>s, <2>1 DEF Rewind
<1>4. CASE NextNode
  <2> DEFINE w == Directed(d, Forward)
             link == LinksOf(d)
             p == iter.next
  <2>1. ~panicked /\ p # Nil /\ p \in Nodes /\ UNCHANGED <<listVars, panicked, used>> /\ visited' = Append(visited, p)
    BY <1>0, <1>4 DEF NextNode
  <2>2. iter' = [iter EXCEPT !.next = IF d = "head" THEN next[p] ELSE prev[p]]
    BY <1>4 DEF NextNode
  <2>3. (IF d = "head" THEN next[p] ELSE prev[p]) = link[p]
    BY DEF LinksOf
  <2>4. iter'.next = link[p] /\ iter'.direction = d
    BY <1>0, <2>2, <2>3
  <2>5. link[p] \in Nodes \cup {Nil}
    BY <2>1 DEF ListInv, Shape, Links, LinksOf
  <2>6. iter' \in [next : Nodes \cup {Nil}, direction : {"head", "tail"}]
    <3>1. iter' = [next |-> link[p], direction |-> d]
      BY <1>0, <2>2, <2>3
    <3> QED BY <1>0, <2>5, <3>1
  <2>7. Along(w, link, link[p], Append(visited, p), used)
    <3>1. Chain(w, link, Start(d)) /\ \A i \in 1..Len(w) : w[i] \in used
      BY <1>0, <2>1, DirectedChain
    <3>2. Along(w, link, p, visited, used)
      BY <2>1 DEF IterInv
    <3> HIDE DEF w, link, p
    <3> QED BY <2>1, <3>1, <3>2, AlongStep
  <2>8. Directed(d, Forward') = w /\ LinksOf(d)' = link /\ used' = used
    BY <2>1, <2>4 DEF listVars, Forward, LinksOf
  <2>9. Along(Directed(d, Forward'), LinksOf(d)', link[p], Append(visited, p), used')
    BY <2>7, <2>8
  <2>10. Along(Directed(iter.direction, Forward), LinksOf(iter.direction), iter.next, visited, used)'
    BY <2>1, <2>4, <2>9 DEF LinksOf
  <2> QED BY <2>6, <2>10 DEF IterInv
<1>5. ASSUME NEW n \in Nodes,
             AddNodeHead(n) \/ AddNodeTail(n) \/ RemoveNode(n)
               \/ \E old \in Nodes : InsertAfter(n, old) \/ InsertBefore(n, old)
      PROVE  UNCHANGED <<iter, visited>>
  BY <1>5 DEF AddNodeHead, AddNodeTail, RemoveNode, InsertAfter, InsertBefore, New
<1>6. CASE Empty
  BY <1>1, <1>6 DEF Empty
<1> QED BY <1>1, <1>2, <1>3, <1>4, <1>5, <1>6 DEF Next

LEMMA IterInvInit == Init => IterInv
<1> SUFFICES ASSUME Init PROVE IterInv
  OBVIOUS
<1>1. iter = [next |-> Nil, direction |-> "head"] /\ visited = <<>>
  BY DEF Init
<1>2. Forward = <<>>
  <2>1. Walk(next, Nil) = <<>>
    BY EmptyChain
  <2> QED BY <2>1 DEF Forward, Init
<1>3. Along(<<>>, next, Item(<<>>, 1), <<>>, used)
  <2>1. <<>> \in Seq(Nodes)
    OBVIOUS
  <2> QED BY <2>1, AlongStart
<1>4. Item(<<>>, 1) = Nil
  BY DEF Item
<1>5. iter.direction = "head" /\ iter.next = Nil
  BY <1>1
<1>6. Along(Directed(iter.direction, Forward), LinksOf(iter.direction), iter.next, visited, used)
  BY <1>1, <1>2, <1>3, <1>4, <1>5 DEF Directed, LinksOf
<1> QED BY <1>1, <1>6 DEF IterInv

LEMMA InvVisits == ListInv /\ IterInv => VisitsInOrder
<1> SUFFICES ASSUME ListInv, IterInv, ~panicked
             PROVE  /\ IsInjective(visited)
                    /\ \A i, j \in 1..Len(visited), x, y \in 1..Len(Forward) :
                         i < j /\ visited[i] = Forward[x] /\ visited[j] = Forward[y] =>
                           IF iter.direction = "head" THEN x < y ELSE y < x
  BY DEF VisitsInOrder
<1> DEFINE s == Forward
           d == iter.direction
           w == Directed(d, s)
<1>1. d \in {"head", "tail"} /\ visited \in Seq(used) /\ Distinct(visited) /\ Ordered(visited, w)
  BY DEF IterInv, Along
<1>2. IsInjective(visited)
  <2>1. DOMAIN visited = 1..Len(visited)
    BY <1>1
  <2> QED BY <1>1, <2>1 DEF IsInjective, Distinct
<1>3. s \in Seq(Nodes)
  BY DEF ListInv, Holds, Chain
<1> HIDE DEF s
<1>4. ASSUME NEW i \in 1..Len(visited), NEW j \in 1..Len(visited), NEW x \in 1..Len(s), NEW y \in 1..Len(s),
             i < j, visited[i] = s[x], visited[j] = s[y]
      PROVE  IF d = "head" THEN x < y ELSE y < x
  <2>1. CASE d = "head"
    <3>1. w = s
      BY <2>1 DEF Directed
    <3> QED BY <1>1, <1>4, <2>1, <3>1 DEF Ordered
  <2>2. CASE d # "head"
    <3> DEFINE e == Len(s)
               r == Reverse(s)
    <3>1. w = r
      BY <2>2 DEF Directed
    <3>2. Len(r) = e /\ e \in Nat /\ \A m \in 1..e : e + 1 - m \in 1..e /\ r[m] = s[e + 1 - m]
      BY <1>3, ReverseItems
    <3> DEFINE x2 == e + 1 - x
               y2 == e + 1 - y
    <3>3. x2 \in 1..e /\ y2 \in 1..e /\ e + 1 - x2 = x /\ e + 1 - y2 = y
      BY <3>2
    <3> HIDE DEF r, x2, y2, w
    <3>4. r[x2] = s[x] /\ r[y2] = s[y]
      BY <3>2, <3>3
    <3>5. x2 < y2
      BY <1>1, <1>4, <3>1, <3>2, <3>3, <3>4 DEF Ordered
    <3>6. y < x
      BY <3>2, <3>5 DEF x2, y2
    <3> QED BY <2>2, <3>6
  <2> QED BY <2>1, <2>2
<1> QED BY <1>2, <1>4 DEF s

\* VisitsInOrder, for any number of nodes and any changes of the list while it
\* is iterated over (dlist.go:30 to 142): the iterator stands in the
\* list with what it returned behind it, or on nodes that have left the list.
THEOREM VisitsInOrderHolds == Spec => []VisitsInOrder
<1>1. Init => ListInv /\ IterInv
  BY ListInvInit, IterInvInit
<1>2. ListInv /\ IterInv /\ [Next]_vars => (ListInv /\ IterInv)'
  <2> SUFFICES ASSUME ListInv, IterInv, [Next]_vars PROVE ListInv' /\ IterInv'
    OBVIOUS
  <2>1. ListInv'
    BY ListInvStep
  <2>2. CASE Next
    BY <2>1, <2>2, IterStep
  <2>3. CASE UNCHANGED vars
    <3>1. IterInv'
      BY <2>3 DEF vars, listVars, IterInv, Forward, LinksOf
    <3> QED BY <2>1, <3>1
  <2> QED BY <2>2, <2>3
<1>3. ListInv /\ IterInv => VisitsInOrder
  BY InvVisits
<1> QED BY <1>1, <1>2, <1>3, PTL DEF Spec
=============================================================================
