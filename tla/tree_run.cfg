SPECIFICATION Spec
CONSTANTS
  None = None
  Trees = {A, B}
  Keys = {k1, k2, k3, k4, k5}
  MaxNodes = 5
  MaxLinear = 4
  MaxTime = 2
  BeforeHead = FALSE
SYMMETRY Particles
VIEW TreesOnly
INVARIANTS
  EachVisitedOnce
  IteratorSurvivesErase
  QueriesAgree
  SavedTreeLoads
  LinearizedTreeLoads
PROPERTIES
  ActsAsForest
