SPECIFICATION Spec
CONSTANTS
  Table <- MCTable
  Surroundings <- MCSurroundings
  Nil = Nil
  ProtoInlineMaxSize = 2
  MaxChunks = 3
  MaxRejected = 1
INVARIANTS InlineLinesInOrder
PROPERTIES InputWithArgumentsEnds
CHECK_DEADLOCK FALSE
