---------------------------- MODULE MCHashTable ----------------------------
(***************************************************************************)
(* A small HashTable for TLC.  Sizes 4, 8, 16 with steps of 3 buckets keep *)
(* what 16, 32, 64 with steps of 10 have: several steps per rehash and a   *)
(* last step that is cut short.  k1 and k4 share a bucket until the first  *)
(* rehash separates them.                                                  *)
(***************************************************************************)
EXTENDS HashTable, TLC
CONSTANTS k1, k2, k3, k4

MCHash == k1 :> 0 @@ k2 :> 1 @@ k3 :> 3 @@ k4 :> 4
=============================================================================
