\* A client that adds files unless an index thread is just leaving, removes one
\* of several at any time, asks for frames and closes all at any time.
SPECIFICATION Spec
CONSTANTS
  None = None
  FileData <- AnyData
  FileType <- AnyType
  NBackward = 3
  NForward = 1
  Threads <- TwoThreads
  MaxFiles = 2
  MaxIndex = 5
  Careful = TRUE
INVARIANTS
  IndexAndCacheMatchFiles
  FetchedInOrder
  CompleteWhenSaid
PROPERTIES
  MainThreadRuns
  IndexingEnds
