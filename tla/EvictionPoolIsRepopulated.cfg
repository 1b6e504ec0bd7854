CONSTANTS
  k1 = k1  k2 = k2
  Keys = {k1, k2}
  Values = {"v"}
  Missing = Missing
  Times <- MCTimes
  HashCode <- MCHashCode
  InitSize = 6
  RehashingBuckets = 3
  MaxCount = 6
  Arguments <- MCArguments
  MaxArguments = 2
  Options = {}  MaxOptions = 0
  Thousand = 2  MaxSeconds = 1  MaxMilliseconds = 2  MaxInt64 = 2
  PoolSize = 2
  Samples = 2
  KeySize <- MCKeySize
  MaxMemory = 2
SPECIFICATION EvictionSpec
INVARIANT PoolIsRepopulated
CHECK_DEADLOCK FALSE
