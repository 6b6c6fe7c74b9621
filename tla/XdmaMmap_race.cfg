SPECIFICATION Spec
CONSTANTS
  Callers = {t1, t2}
  Boards = {b1}
  NoBuf = NoBuf
  Asked = {1, 2}
  Plugged = {b1}
  MaxCalls = 2
INVARIANT MappedAsRequested
