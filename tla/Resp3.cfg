SPECIFICATION StreamSpec
CONSTANTS
  Values <- AllValues
  Commands <- AllCommands
  SharedNames <- AllShared
  Texts <- ReplyTexts
  Errors <- ReplyErrors
  Continuation = {"A9"}
  ShortWrites = TRUE
  Collections = TRUE
  MaxMessages = 2
  MaxReceives = 3
INVARIANT ValuesArriveInOrder
CHECK_DEADLOCK FALSE
