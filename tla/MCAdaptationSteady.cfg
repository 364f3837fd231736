CONSTANTS
  Algorithms = {"festive", "fdash", "osmp", "raahs", "tobasco"}
  Levels = 6
  AverageBitrate <- MCVideo
  SegmentSizes <- MCVideoSizes
  SegmentDuration = 4000
  InitSegments = 3
  Bandwidths = {2, 4, 5, 8, 10, 16, 20, 40, 100}
  Varying = FALSE
  MaxLevel = 48000
  FestiveTarget = 20000
  Delta = 4000
  Horizon = 5
  Jitter = {0, 4000, 8000}
  MinLevel = 9000
  SftmTarget = 20000
  FrameDrift <- MCOnTime
  SvaaTarget = 20000
  FdashTarget = 20000
  Omega = 3
  PandaBMin = 26000
  MaxTarget = 60000
  BMin = 10000
  BLow = 20000
  BHigh = 40000
SPECIFICATION AdaptationSpec
PROPERTIES
  FindsTarget
  PauseMeetsTarget
  LevelOneNotHeld
  TopNotHeld
  Settles
  PauseEmptiesBuffer
  ClimbsAgain
\* RAAHS may end the program
CHECK_DEADLOCK FALSE
