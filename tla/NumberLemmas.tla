---------------------------- MODULE NumberLemmas ----------------------------
(***************************************************************************)
(* Induction for the other proof modules: the set of counterexamples to a  *)
(* statement about numbers, if it is not empty, has a least element.       *)
(***************************************************************************)
EXTENDS Integers, WellFoundedInduction, TLAPS

\* Every set of natural numbers that has an element has a least one.
LEMMA LeastNumber ==
  ASSUME NEW S, S \subseteq Nat, S # {}
  PROVE  \E n \in S : \A m \in S : n <= m
<1> DEFINE Less == {p \in Nat \X Nat : p[1] < p[2]}
<1>1. Less = OpToRel(<, Nat)
  BY Zenon DEF OpToRel
<1> HIDE DEF Less
<1>2. \E n \in S : \A m \in S : ~ (<<m, n>> \in Less)
  BY <1>1, NatLessThanWellFounded, WFMin
<1>3. \A m, n \in Nat : m < n => <<m, n>> \in Less
  BY DEF Less
<1>4. PICK n \in S : \A m \in S : ~ (<<m, n>> \in Less)
  BY <1>2
<1>5. \A m \in S : ~ (m < n) /\ m \in Nat /\ n \in Nat
  BY <1>3, <1>4
<1>6. \A m \in S : n <= m
  BY <1>5
<1> QED BY <1>6

\* The same for the other end of a set that is bounded.
LEMMA GreatestNumber ==
  ASSUME NEW S, S \subseteq Nat, S # {}, NEW b \in Nat, \A m \in S : m <= b
  PROVE  \E n \in S : \A m \in S : m <= n
<1> DEFINE D == {b - m : m \in S}
<1>1. D \subseteq Nat /\ D # {}
  <2>1. \A m \in S : b - m \in Nat
    OBVIOUS
  <2>2. PICK m : m \in S
    OBVIOUS
  <2>3. b - m \in D
    BY <2>2
  <2> QED BY <2>1, <2>3
<1>2. PICK d \in D : \A c \in D : d <= c
  <2> HIDE DEF D
  <2> QED BY <1>1, LeastNumber
<1>3. PICK n \in S : d = b - n
  BY <1>2 DEF D
<1>4. \A m \in S : b - n <= b - m /\ m \in Nat
  BY <1>2, <1>3
<1>5. n \in Nat
  BY <1>3
<1>6. \A m \in S : m <= n
  BY <1>4, <1>5
<1> QED BY <1>6
=============================================================================
