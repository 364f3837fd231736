CONSTANTS
  Capacity = 3
  BufferSize = 2
  Faults = {"server exit"}
  Qualities = 2
  Segments = 3
  Representation <- MCVideo
  InitSegments = 2
  FramesInSegment = 2
SPECIFICATION FairSpec
PROPERTIES
  EofLeavesLoop
CHECK_DEADLOCK FALSE
