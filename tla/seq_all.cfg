\* Calls of the class in any order, with files added and removed while the
\* worker reads ahead: what holds in spite of the findings.
SPECIFICATION Spec
CONSTANTS
  Fatal = Fatal
  Frames <- AnyFrame
  FileData <- AnyFile
  InitialFiles <- OneFile
  StreamArgs = {"P"}
  Prefetch = 2
  CacheSize = 2
  MaxFiles = 2
  MaxIndex = 1
  Calls = {"more", "pop_frame", "rewind", "close", "seek", "add", "close_last_file"}
INVARIANTS
  CacheBounded
  NoOrphanedFuture
PROPERTIES
  EveryCallReturns
