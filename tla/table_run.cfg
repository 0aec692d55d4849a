SPECIFICATION Spec
CONSTANTS
  x = x
  y = y
  z = z
  P = P
  Q = Q
  S = S
  Absent = Absent
  None = None
  Physics = P
  DAQ = Q
  Keys <- MCKeys
  Streams <- MCStreams
  NumWriters = 2
  WantedKeys <- MCWantedKeys
  WantedTypes <- MCWantedTypes
  FrameKinds <- MCFrameKinds
  Alignments = {TRUE, FALSE}
  MaxFrames = 3
INVARIANTS
  Aligned
  IndexPointsToRows
  EveryWantedBooked
  
CHECK_DEADLOCK FALSE
