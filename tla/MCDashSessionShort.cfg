CONSTANTS
  Capacity = 3
  BufferSize = 2
  Faults = {}
  Qualities = 2
  Segments = 2
  Representation <- MCShortVideo
  InitSegments = 3
  FramesInSegment = 2
SPECIFICATION FairSpec
PROPERTIES
  SessionEnds
CHECK_DEADLOCK FALSE
