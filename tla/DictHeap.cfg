SPECIFICATION MemorySpec
CONSTANTS
  k1 = k1
  k2 = k2
  k3 = k3
  Keys = {k1, k2, k3}
  Values = {v1, v2}
  Missing = Missing
  Unset = Unset
  HashCode <- MCHash
  InitSize = 4
  RehashingBuckets = 1
  MaxCount = 9
  MaxEntries = 3
  MaxOverdraft = 1
  Free = Free
SYMMETRY Symmetry
INVARIANT ChainsAreLists
INVARIANT SamplesAreUsable
PROPERTY ImplementsHashTable
PROPERTY KeyspaceReadsItsWrites
PROPERTY MemoryFollowsPointers
CHECK_DEADLOCK FALSE
