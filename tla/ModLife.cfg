SPECIFICATION ModSpec
CONSTANTS
  Devs = {d1, d2}
  BarNum = 2
  Present <- PresentBars
  ChanNum = 1
  KnownTypes = {es5341}
  UnknownType = unknown
  SerialProbe = TRUE
  MaxGen = 2
  BOARD_TEPE_NUM = 2
  MINORS = 1
  MaxMajors = 3
  MaxLoads = 2
  MaxProbes = 2
INVARIANTS
  MinorUnique
  NodeNamedAfterBoard
  OopsHasCause
  LiveHasNumber
SYMMETRY DevSymmetry
CHECK_DEADLOCK FALSE
