CONSTANTS
  NumRels = 3
  Sizes = {0, 1}
  MaxClock = 6
SPECIFICATION Spec
INVARIANTS
  RunsSettle
PROPERTIES
  RunsKeepEdits
CHECK_DEADLOCK FALSE
