----------------------------- MODULE MCDictHeap -----------------------------
(***************************************************************************)
(* A small DictHeap for TLC.  All keys share a bucket of 4; 8 buckets keep *)
(* k1 and k3 together and separate k2 from them.                           *)
(***************************************************************************)
EXTENDS DictMemory
CONSTANTS k1, k2, k3

MCHash == k1 :> 3 @@ k2 :> 7 @@ k3 :> 11

\* No operator tells one value from another.
Symmetry == Permutations(Values)
=============================================================================
