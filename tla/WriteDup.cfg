CONSTANTS
  Handles = {h1}
  None = None
  Settings <- Duplicate
SPECIFICATION Spec
PROPERTY
  ReleaseLosesNothing
CHECK_DEADLOCK FALSE
