------------------------------ MODULE RaxTree ------------------------------
(***************************************************************************)
(* The radix tree of db/rax.go.  A node is a record with its prefix, its   *)
(* sequence of edges and its leaf; an edge has a label and leads to a      *)
(* node.  Keys are sequences of bytes and byte slices are values: Delete's *)
(* append only overwrites bytes of nodes that it has just dropped.         *)
(*                                                                         *)
(* The loop of Insert declares a second variable n, so that each of its    *)
(* passes starts again from the root with what is left of the key.         *)
(***************************************************************************)
EXTENDS Integers, Sequences, FiniteSets, SequencesExt

CONSTANTS Keys,      \* sequences of numbers, the bytes
          Values,
          Missing,   \* no leaf, and the answer of Find for an absent key
          MaxSize,   \* bound on RaxTree.size
          MaxPrefix  \* bound on the length of the root's prefix

VARIABLES root,      \* RaxTree.root
          size,      \* RaxTree.size
          panicked,  \* a nil pointer was dereferenced
          live,      \* what the caller has stored: a history variable
          deleted    \* Delete has been called: a history variable

vars == <<root, size, panicked, live, deleted>>

ASSUME MissingAssumption == Missing \notin Values

-----------------------------------------------------------------------------
(***************************************************************************)
(* Nodes, edges and the two binary searches.                               *)
(***************************************************************************)
Node(prefix, edges, leaf) == [prefix |-> prefix, edges |-> edges, leaf |-> leaf]

Edge(node) == [label |-> node.prefix, next |-> node]

NewLeaf(search, v) == Node(search, <<>>, v)

NewRaxTree == Node(<<>>, <<>>, Missing)

\* longestCommonPrefix
Common(a, b) ==
  SubSeq(a, 1, Cardinality({n \in 1..Len(a) : IsPrefix(SubSeq(a, 1, n), b)}))

Beyond(s, m) == SubSeq(s, Len(m) + 1, Len(s))

\* bytes.Compare(a, b) > 0
Above(a, b) ==
  LET n == Len(Common(a, b))
  IN n < Len(a) /\ (n < Len(b) => a[n + 1] > b[n + 1])

\* The loop both searches share, over the positions left..right, where the
\* indices of hits end it.  The result is a hit or the place to insert at.
RECURSIVE Probe(_, _, _, _, _, _)
Probe(edges, hits, label, left, right, closest) ==
  LET mid == (left + right - 2) \div 2 + 1
  IN IF left > right THEN [hit |-> FALSE, at |-> closest + 1]
     ELSE IF mid \in hits THEN [hit |-> TRUE, at |-> mid]
     ELSE IF Above(edges[mid].label, label)
     THEN Probe(edges, hits, label, left, mid - 1, closest)
     ELSE Probe(edges, hits, label, mid + 1, right, mid)

\* walkEdge
Walk(edges, search) ==
  LET hits == {i \in DOMAIN edges : Common(edges[i].label, search) # <<>>}
  IN Probe(edges, hits, search, 1, Len(edges), 0)

\* findClosestPrefixIndex
FindClosestPrefixIndex(edges, label) ==
  LET hits == {i \in DOMAIN edges : \/ IsPrefix(edges[i].label, label)
                                    \/ IsPrefix(label, edges[i].label)}
  IN Probe(edges, hits, label, 1, Len(edges), 0).at

\* addEdge
AddEdge(n, e) ==
  [n EXCEPT !.edges = InsertAt(@, FindClosestPrefixIndex(@, e.label), e)]

-----------------------------------------------------------------------------
(***************************************************************************)
(* Insert, Find and Delete.                                                *)
(***************************************************************************)
\* Mutant: the node that is split keeps its whole prefix.
Split_KeepsPrefix(n, m, rest, v) ==
  LET old == AddEdge(Node(m, <<>>, IF rest = <<>> THEN v ELSE Missing), Edge(n))
  IN IF rest = <<>> THEN old ELSE AddEdge(old, Edge(NewLeaf(rest, v)))

\* Mutant: the new edge is put behind the old one without a search.
Split_Appends(n, m, rest, v) ==
  LET tail == [n EXCEPT !.prefix = Beyond(@, m)]
  IN IF rest = <<>> THEN Node(m, <<Edge(tail)>>, v)
     ELSE Node(m, <<Edge(tail), Edge(NewLeaf(rest, v))>>, Missing)

\* The node that takes the place of n when the key leaves n's prefix after m.
Split(n, m, rest, v) ==
  LET tail == [n EXCEPT !.prefix = Beyond(@, m)]
      old  == AddEdge(Node(m, <<>>, IF rest = <<>> THEN v ELSE Missing), Edge(tail))
  IN IF rest = <<>> THEN old ELSE AddEdge(old, Edge(NewLeaf(rest, v)))

\* Insert, from node n.  When the whole prefix of an edge of n matches, the rest
\* of the key is inserted at n again.  Beside the new n, whether a leaf was added.
RECURSIVE Inserted(_, _, _)
Inserted(n, search, v) ==
  LET w    == Walk(n.edges, search)
      next == n.edges[w.at].next
      m    == Common(n.edges[w.at].label, search)
      rest == Beyond(search, m)
  IN IF search = <<>>
     THEN [new |-> n.leaf = Missing, node |-> [n EXCEPT !.leaf = v]]
     ELSE IF ~w.hit
     THEN [new |-> TRUE,
           node |-> [n EXCEPT !.edges = InsertAt(@, w.at, Edge(NewLeaf(search, v)))]]
     ELSE IF Len(m) = Len(next.prefix) THEN Inserted(n, rest, v)
     ELSE [new |-> TRUE,
           node |-> [n EXCEPT !.edges[w.at] = Edge(Split(next, m, rest, v))]]

\* Find
RECURSIVE Find(_, _)
Find(n, search) ==
  IF search = <<>> THEN n.leaf
  ELSE LET w == Walk(n.edges, search)
           m == Common(n.edges[w.at].label, search)
       IN IF w.hit THEN Find(n.edges[w.at].next, Beyond(search, m)) ELSE Missing

\* Mutant: the prefix of the child is forgotten.
Merged_DropsPrefix(n) ==
  IF Len(n.edges) = 1 /\ n.leaf = Missing
  THEN Node(n.prefix, n.edges[1].next.edges, n.edges[1].next.leaf)
  ELSE n

\* Mutant: the prefix of the child replaces that of the parent.
Merged_TakesPrefix(n) ==
  IF Len(n.edges) = 1 /\ n.leaf = Missing THEN n.edges[1].next ELSE n

\* The loop that ends Delete: a node without leaf and with one edge takes over
\* what its child has.
RECURSIVE Merged(_)
Merged(n) ==
  IF Len(n.edges) = 1 /\ n.leaf = Missing
  THEN LET child == n.edges[1].next
       IN Merged(Node(n.prefix \o child.prefix, child.edges, child.leaf))
  ELSE n

NotFound == [ok |-> FALSE]

\* Delete, below node n, of a key that is not empty: the new n.
RECURSIVE Removed(_, _)
Removed(n, search) ==
  LET w    == Walk(n.edges, search)
      next == n.edges[w.at].next
      m    == Common(n.edges[w.at].label, search)
      rest == Beyond(search, m)
  IN IF ~w.hit THEN NotFound
     ELSE IF next.prefix = search \/ (IsPrefix(m, next.prefix) /\ rest = <<>>)
     THEN IF next.leaf = Missing THEN NotFound
          ELSE [ok |-> TRUE, node |-> Merged([n EXCEPT !.edges = RemoveAt(@, w.at)])]
     ELSE IF ~IsPrefix(m, next.prefix) THEN NotFound
     ELSE LET r == Removed(next, rest)
          IN IF r.ok THEN [ok |-> TRUE, node |-> [n EXCEPT !.edges[w.at].next = r.node]]
             ELSE NotFound

-----------------------------------------------------------------------------
(***************************************************************************)
(* The leaves of a tree, with the path of prefixes that leads to each.     *)
(***************************************************************************)
RECURSIVE Stored(_)
Stored(n) ==
  (IF n.leaf = Missing THEN {} ELSE {<<n.prefix, n.leaf>>})
    \cup UNION {{<<n.prefix \o s[1], s[2]>> : s \in Stored(n.edges[i].next)} :
                i \in DOMAIN n.edges}

RECURSIVE Leaves(_)
Leaves(n) ==
  (IF n.leaf = Missing THEN 0 ELSE 1)
    + SumFunction([i \in DOMAIN n.edges |-> Leaves(n.edges[i].next)])

\* The nodes below n, each with the label of the edge to it.
RECURSIVE EdgesBelow(_)
EdgesBelow(n) ==
  Range(n.edges) \cup UNION {EdgesBelow(n.edges[i].next) : i \in DOMAIN n.edges}

-----------------------------------------------------------------------------
(***************************************************************************)
(* The behaviours.                                                         *)
(***************************************************************************)
Init ==
  /\ root = NewRaxTree /\ size = 0 /\ panicked = FALSE
  /\ live = [k \in Keys |-> Missing] /\ deleted = FALSE

Insert(k, v) ==
  /\ ~panicked /\ size < MaxSize /\ Len(root.prefix) < MaxPrefix
  /\ root' = Inserted(root, k, v).node
  /\ size' = IF Inserted(root, k, v).new THEN size + 1 ELSE size
  /\ live' = [live EXCEPT ![k] = v]
  /\ UNCHANGED <<panicked, deleted>>

\* Mutant: the size follows every call of Delete.
Delete_CountsMisses(k) ==
  /\ ~panicked /\ k # <<>>
  /\ live' = [live EXCEPT ![k] = Missing]
  /\ root' = IF Removed(root, k).ok THEN Removed(root, k).node ELSE root
  /\ size' = size - 1
  /\ deleted' = TRUE /\ UNCHANGED panicked

Delete(k) ==
  /\ ~panicked /\ k # <<>>
  /\ live' = [live EXCEPT ![k] = Missing]
  /\ IF Removed(root, k).ok
     THEN root' = Removed(root, k).node /\ size' = size - 1
     ELSE UNCHANGED <<root, size>>
  /\ deleted' = TRUE /\ UNCHANGED panicked

\* Delete of the empty key: the root has no parent to remove it from.
DeleteRoot ==
  /\ ~panicked /\ <<>> \in Keys
  /\ panicked' = (root.leaf # Missing)
  /\ live' = [live EXCEPT ![<<>>] = Missing]
  /\ deleted' = TRUE /\ UNCHANGED <<root, size>>

Inserts == \E k \in Keys, v \in Values : Insert(k, v)

Next == Inserts \/ (\E k \in Keys : Delete(k)) \/ DeleteRoot

Spec == Init /\ [][Next]_vars

\* A caller that never deletes.
InsertSpec == Init /\ [][Inserts]_vars

-----------------------------------------------------------------------------
(***************************************************************************)
(* Properties.                                                             *)
(***************************************************************************)
\* Every edge has a label, which is a prefix of the prefix of its node: Delete
\* lets a node's prefix grow beyond the label of the edge to it (rax.go:286), and
\* Insert slices the prefix by the length of what matched the label (rax.go:191).
\* The slice is within bounds, and leaves something, after any mixture of both.
LabelsArePrefixes ==
  \A e \in EdgesBelow(root) : e.label # <<>> /\ IsPrefix(e.label, e.next.prefix)

\* Len() never falls below the number of leaves, nor, so, below zero: Delete
\* takes one from the size (rax.go:291) however many leaves went with the node.
SizeBoundsLeaves == size >= Leaves(root)

\* An insertion disturbs nothing: every leaf stays, with its value, at the end of
\* the same path through every split (rax.go:187), only the root's own leaf
\* may get another value (rax.go:159).
InsertKeepsStored ==
  [][Inserts => \A s \in Stored(root) :
                  s \in Stored(root') \/ s[1] = root.prefix]_vars

\* A deletion adds nothing: the leaves that stay were at the end of the same
\* path before the parent was merged with its child (rax.go:282).
DeleteOnlyRemoves ==
  [][(\E k \in Keys : Delete(k)) => Stored(root') \subseteq Stored(root)]_vars

\* The labels of n's edges ascend, by their first bytes.
SortedEdges(n) ==
  \A i, j \in DOMAIN n.edges : i < j => n.edges[i].label[1] < n.edges[j].label[1]

\* As long as nothing is deleted the edges of every node are sorted, and two of
\* them never start with the same byte, which both binary searches (rax.go:73 and
\* 109) depend on.
EdgesAreSorted ==
  ~deleted => SortedEdges(root) /\ \A e \in EdgesBelow(root) : SortedEdges(e.next)

\* TestRaxTreeInsertAndFind (rax_test.go:26): a stored key is found, with its
\* value.
InsertedIsFound ==
  \A k \in Keys : live[k] # Missing => Find(root, k) = live[k]

\* TestRaxTreeInsertAndFind (rax_test.go:20): a key that is not stored is not
\* found.
AbsentIsNotFound ==
  \A k \in Keys : live[k] = Missing => Find(root, k) = Missing

\* TestRaxTreeDelete (rax_test.go:48): deleting an existing key succeeds.
ExistingIsDeleted ==
  \A k \in Keys : live[k] # Missing /\ k # <<>> => Removed(root, k).ok
=============================================================================
