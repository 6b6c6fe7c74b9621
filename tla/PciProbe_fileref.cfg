SPECIFICATION Spec
CONSTANTS
  Devs = {d1}
  BarNum = 2
  Present <- PresentBars
  ChanNum = 1
  KnownTypes = {es5341}
  UnknownType = unknown
  SerialProbe = TRUE
  MaxGen = 1
INVARIANT FileRefLive
CHECK_DEADLOCK FALSE
