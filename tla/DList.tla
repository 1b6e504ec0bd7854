------------------------------- MODULE DList -------------------------------
(***************************************************************************)
(* The doubly linked list of db/dlist.go with one iterator that is used    *)
(* while the list changes.  A node is named by its address; addresses are  *)
(* not used again, for an iterator keeps the node it stands on alive.      *)
(* Callers insert beside, and remove, nodes that are in the list.          *)
(***************************************************************************)
EXTENDS Integers, Sequences, FiniteSets, SequencesExt

CONSTANTS Nodes,     \* addresses
          Nil        \* the nil pointer

VARIABLES prev, next,          \* ListNode.Prev and Next of every node
          head, tail, length,  \* the fields of List
          iter,                \* the fields of ListIter
          panicked,            \* a nil pointer was dereferenced
          used,                \* nodes that have been allocated
          visited              \* what NextNode has returned: a history variable

listVars == <<prev, next, head, tail, length>>
vars     == <<listVars, iter, panicked, used, visited>>

ASSUME NilAssumption   == Nil \notin Nodes
ASSUME NodesAssumption == IsFiniteSet(Nodes)

Init ==
  /\ prev = [n \in Nodes |-> Nil] /\ next = [n \in Nodes |-> Nil]
  /\ head = Nil /\ tail = Nil /\ length = 0
  /\ iter = [next |-> Nil, direction |-> "head"]
  /\ panicked = FALSE /\ used = {} /\ visited = <<>>

\* The nodes met on the way from n, by next or by prev.  On a way that goes round
\* they are more than there are nodes.
Walk(link, n) ==
  LET at[i \in 1..(Cardinality(Nodes) + 1)] ==
        IF i = 1 THEN n ELSE IF at[i - 1] = Nil THEN Nil ELSE link[at[i - 1]]
  IN [i \in 1..Cardinality({j \in DOMAIN at : at[j] # Nil}) |-> at[i]]

Forward  == Walk(next, head)
Backward == Walk(prev, tail)

InList == Range(Forward)

-----------------------------------------------------------------------------
(***************************************************************************)
(* The list.  n is the new node.                                           *)
(***************************************************************************)
LinkHead(n) ==
  /\ IF head = Nil
     THEN head' = n /\ tail' = n /\ UNCHANGED <<prev, next>>
     ELSE /\ head' = n /\ UNCHANGED tail
          /\ next' = [next EXCEPT ![n] = head] /\ prev' = [prev EXCEPT ![head] = n]
  /\ length' = length + 1

LinkTail(n) ==
  /\ IF tail = Nil
     THEN head' = n /\ tail' = n /\ UNCHANGED <<prev, next>>
     ELSE /\ tail' = n /\ UNCHANGED head
          /\ prev' = [prev EXCEPT ![n] = tail] /\ next' = [next EXCEPT ![tail] = n]
  /\ length' = length + 1

New(n) ==
  /\ ~panicked /\ n \notin used /\ used' = used \cup {n}
  /\ UNCHANGED <<iter, visited>>

AddNodeHead(n) == New(n) /\ LinkHead(n) /\ UNCHANGED panicked

AddNodeTail(n) == New(n) /\ LinkTail(n) /\ UNCHANGED panicked

\* Mutant: the new node does not take over what followed the old one.
InsertAfter_LosesRest(n, old) ==
  /\ New(n) /\ old \in InList
  /\ IF next[old] = Nil THEN LinkTail(n)
     ELSE /\ next' = [next EXCEPT ![old] = n]
          /\ prev' = [prev EXCEPT ![n] = old]
          /\ length' = length + 1 /\ UNCHANGED <<head, tail>>
  /\ UNCHANGED panicked

InsertAfter(n, old) ==
  /\ New(n) /\ old \in InList
  /\ IF next[old] = Nil THEN LinkTail(n)
     ELSE /\ next' = [next EXCEPT ![old] = n, ![n] = next[old]]
          /\ prev' = [prev EXCEPT ![n] = old, ![next[old]] = n]
          /\ length' = length + 1 /\ UNCHANGED <<head, tail>>
  /\ UNCHANGED panicked

\* The last of the four assignments at dlist.go:83 goes through node.Prev as it
\* was before them: nil.  The first three have been made by then.
InsertBefore(n, old) ==
  /\ New(n) /\ old \in InList
  /\ IF prev[old] = Nil THEN LinkHead(n) /\ UNCHANGED panicked
     ELSE /\ prev' = [prev EXCEPT ![n] = prev[old], ![old] = n]
          /\ next' = [next EXCEPT ![n] = old]
          /\ panicked' = TRUE /\ UNCHANGED <<head, tail, length>>

\* Mutant: removing the last node leaves the tail where it was.
RemoveNode_KeepsTail(n) ==
  /\ ~panicked /\ n \in InList
  /\ next' = [[m \in Nodes |-> IF m = prev[n] THEN next[n] ELSE next[m]] EXCEPT ![n] = Nil]
  /\ prev' = [[m \in Nodes |-> IF m = next[n] THEN prev[n] ELSE prev[m]] EXCEPT ![n] = Nil]
  /\ head' = IF prev[n] = Nil THEN next[n] ELSE head
  /\ length' = length - 1
  /\ UNCHANGED <<tail, iter, panicked, used, visited>>

RemoveNode(n) ==
  /\ ~panicked /\ n \in InList
  /\ next' = [[m \in Nodes |-> IF m = prev[n] THEN next[n] ELSE next[m]] EXCEPT ![n] = Nil]
  /\ prev' = [[m \in Nodes |-> IF m = next[n] THEN prev[n] ELSE prev[m]] EXCEPT ![n] = Nil]
  /\ head' = IF prev[n] = Nil THEN next[n] ELSE head
  /\ tail' = IF next[n] = Nil THEN prev[n] ELSE tail
  /\ length' = length - 1
  /\ UNCHANGED <<iter, panicked, used, visited>>

\* Empty and Release: the nodes keep their links.
Empty ==
  /\ ~panicked
  /\ head' = Nil /\ tail' = Nil /\ length' = 0
  /\ UNCHANGED <<prev, next, iter, panicked, used, visited>>

-----------------------------------------------------------------------------
(***************************************************************************)
(* The iterator.                                                           *)
(***************************************************************************)
Start(direction) == IF direction = "head" THEN head ELSE tail

NewListIterator(direction) ==
  /\ ~panicked
  /\ iter' = [next |-> Start(direction), direction |-> direction]
  /\ visited' = <<>> /\ UNCHANGED <<listVars, panicked, used>>

Rewind ==
  /\ ~panicked
  /\ iter' = [iter EXCEPT !.next = Start(iter.direction)]
  /\ visited' = <<>> /\ UNCHANGED <<listVars, panicked, used>>

\* Mutant: the two directions are exchanged.
NextNode_OtherWay ==
  /\ ~panicked /\ iter.next # Nil
  /\ iter' = [iter EXCEPT !.next = IF iter.direction = "tail" THEN next[@] ELSE prev[@]]
  /\ visited' = Append(visited, iter.next)
  /\ UNCHANGED <<listVars, panicked, used>>

\* (At the end NextNode returns nil and changes nothing.)
NextNode ==
  /\ ~panicked /\ iter.next # Nil
  /\ iter' = [iter EXCEPT !.next = IF iter.direction = "head" THEN next[@] ELSE prev[@]]
  /\ visited' = Append(visited, iter.next)
  /\ UNCHANGED <<listVars, panicked, used>>

Next ==
  \/ \E n \in Nodes : \/ AddNodeHead(n) \/ AddNodeTail(n) \/ RemoveNode(n)
                      \/ \E old \in Nodes : InsertAfter(n, old) \/ InsertBefore(n, old)
  \/ Empty
  \/ \E direction \in {"head", "tail"} : NewListIterator(direction)
  \/ Rewind \/ NextNode

Spec == Init /\ [][Next]_vars

-----------------------------------------------------------------------------
(***************************************************************************)
(* Properties.                                                             *)
(***************************************************************************)
\* Going from Head by Next and from Tail by Prev meets the same nodes in
\* opposite orders, Length of them, after any mixture of insertions at both ends
\* and in the middle and of removals (dlist.go:45 to 104).
LinksAgree == ~panicked => Backward = Reverse(Forward) /\ length = Len(Forward)

Contents == INSTANCE ListSequence WITH list <- Forward, Elements <- Nodes

\* Every call is one insertion, one removal or a clearing of the sequence: it
\* neither loses other elements nor changes their order, up to a panic.
ImplementsSequence == Contents!Spec

\* However the list changes while it is being iterated over, no node is
\* returned twice, and those that are still in the list were returned in its
\* order: RemoveNode (dlist.go:101) cuts the links of the node it takes out, on
\* which the iterator may stand.
VisitsInOrder ==
  ~panicked =>
    /\ IsInjective(visited)
    /\ \A i, j \in 1..Len(visited), p, q \in 1..Len(Forward) :
         i < j /\ visited[i] = Forward[p] /\ visited[j] = Forward[q] =>
           IF iter.direction = "head" THEN p < q ELSE q < p
=============================================================================
