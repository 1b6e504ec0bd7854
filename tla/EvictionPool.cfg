CONSTANTS
  Keys = {"a", "b", "c"}
  PoolSize = 3
  Samples = 2
  ClockMax = 2
SPECIFICATION Spec
INVARIANTS PoolIsSorted IdleIsALowerBound
PROPERTY PoolKeepsTheOldest
