SPECIFICATION Spec
CONSTANTS
  Keys <- MCForks
  Values = {"v"}
  Missing = Missing
  MaxSize = 9
  MaxPrefix = 2
INVARIANT ExistingIsDeleted
CHECK_DEADLOCK FALSE
