SPECIFICATION Spec
CONSTANTS
  n1 = n1  n2 = n2  n3 = n3  n4 = n4
  Nodes = {n1, n2, n3, n4}
  Nil = Nil
INVARIANTS LinksAgree VisitsInOrder
PROPERTY ImplementsSequence
CHECK_DEADLOCK FALSE
