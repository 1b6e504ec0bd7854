\* Replies that do not arrive.  TLC is to look at one kind at a time; the others
\* are comments.
SPECIFICATION StreamSpec
CONSTANTS
  Values = {}
  Commands = {}
  \* SharedNames = {}
  \* SharedNames = {"Cone", "SyntaxErr"}
  SharedNames = {"Ok"}
  Texts = {}
  \* Texts <- ReplyTexts
  Errors = {}
  \* Errors <- ReplyErrors
  Continuation = {"A9"}
  ShortWrites = FALSE
  \* ShortWrites = TRUE
  Collections = FALSE
  \* Collections = TRUE
  MaxMessages = 2
  MaxReceives = 2
INVARIANT EveryValueArrives
\* EveryReplyArrives, with SharedNames = {"Cone"} and Collections = TRUE
CHECK_DEADLOCK FALSE
