CONSTANTS
  Rels <- TwoRels
  Sizes = {1, 2}
  Unwalked = {}
  StartPaths <- BothFiles
  SyncedStarts = {TRUE, FALSE}
  Options <- Flags
  Jobs = 2
  Interval = 2
  Percent = 50
  LocalInRun = TRUE
  ForeignInRun = TRUE
  MaxEdits = 1
  MaxForeign = 1
  MaxRuns = 2
  MaxTroubles = 1
SPECIFICATION Spec
INVARIANTS
  PulledEntriesSound
  NothingInParts
  CleanPullMirrors
  SkipsOnlyEdits
PROPERTY
  KeepsUnseenEdits
CHECK_DEADLOCK FALSE
