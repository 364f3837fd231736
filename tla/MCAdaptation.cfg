CONSTANTS
  Algorithms = {"festive", "osmp", "raahs", "fdash", "svaa", "sftm", "tobasco"}
  Levels = 4
  AverageBitrate <- MCLadder
  SegmentSizes <- MCLadderSizes
  SegmentDuration = 4000
  InitSegments = 3
  Bandwidths = {2, 8}
  Varying = TRUE
  MaxLevel = 44000
  FestiveTarget = 20000
  Delta = 4000
  Horizon = 5
  Jitter = {0, 8000}
  MinLevel = 9000
  SftmTarget = 20000
  FrameDrift <- MCDrift
  SvaaTarget = 20000
  FdashTarget = 20000
  Omega = 3
  PandaBMin = 26000
  MaxTarget = 60000
  BMin = 10000
  BLow = 20000
  BHigh = 40000
SPECIFICATION AdaptationSpec
INVARIANTS
  AdaptationTypeOK
  DelayWithinBuffer
  SearchEndsInTable
PROPERTIES
  Patience
  FrozenBelowTarget
  FastStartGrows
  ChangesFit
  HoldsWhileDraining
\* RAAHS may end the program
CHECK_DEADLOCK FALSE
