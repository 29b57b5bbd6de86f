CONSTANTS
  Readers = {r1, r2}
  Files = {f1, f2}
  MaxBytes = 2
  Sizes = {1, 2}
  FirstSizes = {2}
  MaxChanges = 1
  MaxFaults = 1
  MaxCrashes = 1
  None = None
SPECIFICATION FairSpec
INVARIANTS
  EntriesHoldTheirKey
  WithinBudget
  FailsForAReason
PROPERTY
  ReadsReturn
CHECK_DEADLOCK FALSE
