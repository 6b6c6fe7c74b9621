SPECIFICATION Spec
CONSTANTS
  Callers = {t1, t2}
  Boards = {b1, b2}
  NoBuf = NoBuf
  Asked = {0, 1, 2, 3, 5}
  Plugged = {b1}
  MaxCalls = 2
INVARIANTS
  MappedIsUncached
  RequestKept
  MappedIsAllocated
CHECK_DEADLOCK FALSE
