SPECIFICATION Spec
CONSTANT Writers = {w1, w2}
INVARIANTS
  TypeOK
  FlagMeansArmed
  OffMeansDark
  NoTimerMisuse
  QuietRemoveSafe
PROPERTY KeepsBlinking
CHECK_DEADLOCK FALSE
