CONSTANTS
  MaxMsgs = 1
  Timing = {"prompt"}
  CellX = 2
  CellY = 2
  WindowX = 2
  WindowY = 1
  Weak <- Pair
  Threshold = 1
  Orientation = {0}
  SizeRange = 256
SPECIFICATION FairSpec
INVARIANT StartTypeOK
INVARIANT FreshFeatures
INVARIANT NoHumanMissed
INVARIANT HandlerMapped
INVARIANT FailedLoadLeavesNothing
PROPERTY KeepsPromise
PROPERTY DetectionEnds
CHECK_DEADLOCK FALSE
