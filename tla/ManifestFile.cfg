CONSTANTS
  Procs = {p1, p2}
  Names <- SomeNames
  Saved <- SomeManifests
  MaxSaves = 2
  MaxFaults = 1
  MaxKills = 1
SPECIFICATION Spec
INVARIANT
  LoadsTheLastSave
CHECK_DEADLOCK FALSE
