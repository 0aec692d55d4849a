\* Trays in a line and trays with a fork, run until the files end or a signal comes.
SPECIFICATION Spec
CONSTANTS
  reader = reader
  packer = packer
  fork = fork
  tee = tee
  relay = relay
  pick = pick
  bin = bin
  None = None
  Modules <- BranchModules
  OutBoxes <- BranchBoxes
  Kind <- BranchKind
  Wires <- BranchWires
  WiredOrder <- BranchOrder
  Counts <- AnyCount
  Script <- Events
  FilterStreams = {"Q"}
  Faulty = {pick}
  Moves = TRUE
INVARIANTS
  QueuesCleared
  FramesFlowInOrder
  MixedFromLatest
  EveryModuleFinishes
PROPERTIES
  FinishIsLast
  SuspensionEnds
CHECK_DEADLOCK FALSE
