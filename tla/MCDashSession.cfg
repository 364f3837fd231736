CONSTANTS
  Capacity = 3
  BufferSize = 2
  Faults = {}
  Qualities = 2
  Segments = 3
  Representation <- MCVideo
  InitSegments = 2
  FramesInSegment = 2
SPECIFICATION FairSpec
PROPERTIES
  RequestAnswered
  PauseEnds
  SessionEnds
  ImplementsFairStreaming
