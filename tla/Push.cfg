CONSTANTS
  Sizes = {1, 2}
  Jobs = 2
  Interval = 2
  Settings <- AllSettings
SPECIFICATION Spec
INVARIANTS
  ManifestSound
  CleanRunMirrors
  OnePathPerFile
  UnseenStaysUnseen
  RemovesWithinThreshold
PROPERTIES
  NeverClobbers
CHECK_DEADLOCK FALSE
