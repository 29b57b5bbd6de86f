CONSTANTS
  Names = {"d", "e", "f"}
  StartTree <- SmallTree
  PageSize = 2
  Settings <- AllSettings
  Workers = {w1, w2}
  None = None
  Wanted <- TwoPaths
  MaxRetries = 1
  Parallelism = 2
SPECIFICATION Spec
INVARIANTS
  OneFolderPerPath
  IndexIsTrue
PROPERTY
  CallsReturn
CHECK_DEADLOCK FALSE
