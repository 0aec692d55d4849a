\* Two files given to the constructor, read forwards, closed and
\* reopened: everything the sequence promises holds.
SPECIFICATION Spec
CONSTANTS
  Fatal = Fatal
  Frames <- AnyFrame
  FileData <- AnyFile
  InitialFiles <- TwoFiles
  StreamArgs = {"None", "P"}
  Prefetch = 3
  CacheSize = 2
  MaxFiles = 2
  MaxIndex = 0
  Calls = {"more", "pop_frame", "close", "reopen", "current"}
INVARIANTS
  CacheCoherent
  FuturesCoherent
  SizeCorrect
PROPERTIES
  ActsAsOneSequence
