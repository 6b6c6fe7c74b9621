SPECIFICATION Spec
CONSTANTS
  Threads = {t1, t2}
  MaxSets = 2
INVARIANTS
  CrashHasCause
  OnlyTmpLost
CHECK_DEADLOCK FALSE
