SPECIFICATION Spec
CONSTANTS
  None = None
  Trees = {A, B}
  Keys = {k1, k2, k3}
  MaxNodes = 3
  MaxLinear = 3
  MaxTime = 2
  BeforeHead = TRUE
INVARIANTS
  EachVisitedOnce
