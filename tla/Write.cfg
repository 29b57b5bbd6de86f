CONSTANTS
  Handles = {h1, h2, h3}
  None = None
  Settings <- AllSettings
SPECIFICATION Spec
INVARIANTS
  OneFilePerHandle
  LatestIsActive
PROPERTIES
  UploadsTheFile
  ReleaseKeepsWrites
CHECK_DEADLOCK FALSE
