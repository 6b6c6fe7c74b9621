SPECIFICATION Spec
CONSTANTS
  Devs = {d1, d2}
  BarNum = 3
  Present <- PresentBars
  ChanNum = 2
  KnownTypes = {es5341}
  UnknownType = unknown
  SerialProbe = FALSE
  MaxGen = 1
INVARIANTS
  TypeOK
  ResourcesReturned
  FlagsAgree
  LiveCdevUsable
  ListDanglesOnlyInRemove
PROPERTIES
  LifeSpec
SYMMETRY DevSymmetry
CHECK_DEADLOCK FALSE
