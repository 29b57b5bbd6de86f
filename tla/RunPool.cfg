CONSTANTS
  N = 6
  Jobs = 2
  Interval = 2
SPECIFICATION FairSpec
INVARIANTS
  TypeOK
  ChannelsClosedInOrder
  EveryItemSettledOnce
  ReworkBounded
PROPERTIES
  NoWorkAfterCancel
  RunReturns
  ImplementsItemRun
