\* Statements that the code does not keep.  TLC is to check one at a time; the
\* others are comments.
SPECIFICATION InsertSpec
CONSTANTS
  Keys <- MCKeys
  Values = {"v", "w"}
  Missing = Missing
  MaxSize = 9
  MaxPrefix = 2
INVARIANT InsertedIsFound
\* INVARIANT AbsentIsNotFound
CHECK_DEADLOCK FALSE
