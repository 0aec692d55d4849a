SPECIFICATION Spec
CONSTANTS
  G = G
  Q = Q
  P = P
  I = I
  S = S
  W = W
  R1 = R1
  None = None
  Stops <- MCStops
  TrayInfo = I
  Simulation = S
  Configs <- MCConfigs
  MaxFrames = 4
  Writer = W
  Clients = {W, R1}
  Urls = {1, 2, 3, 4, 5}
  Items <- Frames
  MaxItems = 0
  Retry = 2
  Tells = {1}
  Mixed = FALSE
INVARIANTS
  ReadersSeeRemote
  WrittenAsOneFile
  SelfContained
  UploadsComplete
  NothingLost
PROPERTIES
  UploadedOnRelease
  EveryDownloadEnds
CHECK_DEADLOCK FALSE
