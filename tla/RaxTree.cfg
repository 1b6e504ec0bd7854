SPECIFICATION Spec
CONSTANTS
  Keys <- MCKeys
  Values = {"v"}
  Missing = Missing
  MaxSize = 4
  MaxPrefix = 2
INVARIANTS LabelsArePrefixes SizeBoundsLeaves EdgesAreSorted
PROPERTIES InsertKeepsStored DeleteOnlyRemoves
CHECK_DEADLOCK FALSE
