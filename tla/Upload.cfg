CONSTANTS
  Chunks = 3
  Parallelism = 2
  MaxRetries = 1
  MaxCalls = 2
  MaxEdits = 1
  MaxFaults = 2
  MayCancel = TRUE
SPECIFICATION FairSpec
INVARIANTS
  OkMeansStored
  CalmUploadSucceeds
  NothingLeftRunning
  SessionsEnd
  OneFile
PROPERTY
  UploadReturns
CHECK_DEADLOCK FALSE
