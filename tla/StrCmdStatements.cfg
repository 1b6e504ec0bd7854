\* Statements that the code does not keep.  TLC is to check one at a time; the
\* others are comments.
CONSTANTS
  k1 = k1  k2 = k2
  Keys = {k1, k2}
  Values = {"v", "w"}
  Missing = Missing
  Times <- MCTimes
  HashCode <- MCHashCode
  InitSize = 6
  RehashingBuckets = 3
  MaxCount = 7
  Arguments <- MCArguments
  MaxArguments = 2
  Options <- MCOptions  MaxOptions = 4
  Thousand = 2  MaxSeconds = 2  MaxMilliseconds = 3  MaxInt64 = 4
SPECIFICATION Spec
PROPERTY EveryCommandReplies
\* PROPERTY SyntaxErrorsAbort
\* PROPERTY TTLIsUpdatedInPlace
