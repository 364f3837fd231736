CONSTANTS
  VideoLogs <- MCLogs
  SegmentDuration = 100
  InitSegments = 2
  Delays = {0, 100}
  Horizon = 2
  Gaps = {20, 50, 130}
  Lateness = 20
SPECIFICATION Spec
INVARIANTS
  SegmentsTakeTime
\* the client ends when it is done
CHECK_DEADLOCK FALSE
