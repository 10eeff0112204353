SPECIFICATION FairSpec
CONSTANTS
  NoResult = NoResult
  Entry = 2
  StopLoss = 0
  Targets <- ThreeTargets
  Whole = 4
  Ratios <- Halves
  PartialClose = TRUE
  BreakEven = TRUE
  Offset = 1
  Ttl = 3
  MaxTicks = 6
INVARIANTS NotAboveTicks
PROPERTIES LifeSpec EverySignalEnds
CHECK_DEADLOCK FALSE
