SPECIFICATION StreamSpec
CONSTANTS
  Values <- AllValues
  Commands <- AllCommands
  SharedNames = {}
  Texts = {}
  Errors = {}
  Continuation = {"A9"}
  ShortWrites = FALSE
  Collections = FALSE
  MaxMessages = 2
  MaxReceives = 3
INVARIANT EveryValueArrives
CHECK_DEADLOCK FALSE
