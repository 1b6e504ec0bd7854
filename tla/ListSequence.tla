---------------------------- MODULE ListSequence ----------------------------
(***************************************************************************)
(* What a list promises: a sequence of elements into which one element is  *)
(* inserted, or from which one is removed, at a time.                      *)
(***************************************************************************)
EXTENDS Integers, Sequences, SequencesExt

CONSTANT Elements

VARIABLE list

Init == list = <<>>

Insert(i, e) == list' = InsertAt(list, i, e)

Drop(i) == list' = RemoveAt(list, i)

Clear == list' = <<>>

Next ==
  \/ \E i \in 1..(Len(list) + 1), e \in Elements : Insert(i, e)
  \/ \E i \in 1..Len(list) : Drop(i)
  \/ Clear

Spec == Init /\ [][Next]_list
=============================================================================
