---------------------------- MODULE KeyValueMap ----------------------------
(***************************************************************************)
(* What a dictionary promises: a partial map from keys to values.  db.go,  *)
(* set.go and lru.go use a HashTable as nothing more than this; the        *)
(* incremental rehashing of dict.go has to be invisible behind it.         *)
(***************************************************************************)
CONSTANTS Keys,     \* the keys callers use
          Values,   \* the values callers store
          Missing   \* no value: what Get returns when it finds nothing

VARIABLE dict       \* dict[k] is the value of k, or Missing

Init == dict = [k \in Keys |-> Missing]

Put(k, v) == dict' = [dict EXCEPT ![k] = v]

Remove(k) == dict' = [dict EXCEPT ![k] = Missing]

Next == \E k \in Keys : Remove(k) \/ \E v \in Values : Put(k, v)

Spec == Init /\ [][Next]_dict
=============================================================================
