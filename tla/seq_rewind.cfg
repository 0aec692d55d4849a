\* Rewinding after the end was seen, with a frame still in the cache.
SPECIFICATION Spec
CONSTANTS
  Fatal = Fatal
  Frames <- AnyFrame
  FileData <- AnyFile
  InitialFiles <- TwoFiles
  StreamArgs = {"None"}
  Prefetch = 3
  CacheSize = 2
  MaxFiles = 2
  MaxIndex = 0
  Calls = {"pop_frame", "rewind"}
INVARIANTS
  FramesReadInOrder
