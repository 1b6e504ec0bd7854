\* Statements that the code does not keep.  TLC is to check one at a time; the
\* others are comments.
SPECIFICATION Spec
CONSTANTS
  Table <- MCTable
  Surroundings <- MCSurroundings
  Nil = Nil
  ProtoInlineMaxSize = 2
  MaxChunks = 2
  MaxRejected = 1
INVARIANT ChecksEveryCommand
\* PROPERTY CommandIsReady
\* PROPERTY InputReturns
\* PROPERTY UnknownIsAnswered
\* PROPERTY SkipSilencesNextCommand
\* INVARIANT PipelinedLinesInOrder
CHECK_DEADLOCK FALSE
