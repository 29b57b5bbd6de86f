CONSTANTS
  Sizes = {1, 2}
  Jobs = 2
  Interval = 2
  Settings <- OneCrossing
SPECIFICATION Spec
INVARIANT
  PushMirrors
CHECK_DEADLOCK FALSE
