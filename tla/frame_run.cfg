\* Two frames, two streams, and an object of an unknown class.
SPECIFICATION Spec
CONSTANTS
  Frames = {f, g}
  Keys = {k, l}
  Streams = {P, Q}
  Objects = {known, unknown}
  Unreadable = {unknown}
  Fragile = {known}
  Piece = Piece
  Failed = Failed
  Null = Null
  None = None
  Values = {v1, v2}
SYMMETRY AnyNames
VIEW FramesOnly
INVARIANTS
  BlobsAgree
PROPERTIES
  ActsAsMap
CHECK_DEADLOCK FALSE
