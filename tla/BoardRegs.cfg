SPECIFICATION Spec
CONSTANTS
  Threads = {t1, t2}
  None = None
  Volts = {640, 1283, 2560}
  DOs = {1, 2, 16, 17}
  Values = {0, 1}
  Selections <- TwoSelections
  MaxCalls = 2
SYMMETRY Symmetry
INVARIANTS
  LevelsAsAsked
  LevelsFromCalls
  OutputsAsAsked
  ScopeAsAsked
CHECK_DEADLOCK FALSE
