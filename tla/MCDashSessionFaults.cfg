CONSTANTS
  Capacity = 3
  BufferSize = 2
  Faults = {"connect", "refuse", "server exit", "interrupt"}
  Qualities = 2
  Segments = 3
  Representation <- MCVideo
  InitSegments = 2
  FramesInSegment = 2
SPECIFICATION FairSpec
INVARIANTS
  TypeOK
  OneRequest
  BytesConserved
  WholeVideoLeavesNothing
  DataNoticed
  BufferBalanced
  AlarmIffPlaying
  DoneMeansPlayed
  DeletedIsUnreachable
  RequestNoticed
PROPERTIES
  SamplesAligned
  ClosedAfterLastSegment
  EndpointReleased
  RefusedEnds
CHECK_DEADLOCK FALSE
