\* Statements that the code does not keep.  TLC is to check one at a time; the
\* others are comments.
SPECIFICATION MemorySpec
CONSTANTS
  k1 = k1
  k2 = k2
  k3 = k3
  Keys = {k1, k2, k3}
  Values = {v1, v2}
  Missing = Missing
  Unset = Unset
  HashCode <- MCHash
  InitSize = 4
  RehashingBuckets = 1
  MaxCount = 9
  MaxEntries = 3
  MaxOverdraft = 1
  Free = Free
SYMMETRY Symmetry
INVARIANT LookupsReturn
\* INVARIANT AddRawReportsNewKeys
\* INVARIANT SampledKeysAreFound
\* INVARIANT SampleIsComplete
\* INVARIANT EveryEntryIsChargedOnce
CHECK_DEADLOCK FALSE
