SPECIFICATION Spec
CONSTANTS
  None = None
  Width = 2
  Masks = {a, b}
  Sources <- MCSources
  SetEmpty = FALSE
SYMMETRY Swapped
VIEW MasksOnly
INVARIANTS
  BitsAligned
  QueriesTell
PROPERTIES
  ActsAsSelection
