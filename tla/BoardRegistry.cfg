SPECIFICATION Spec
CONSTANTS
  NULL = NULL
  Threads = {t1, t2}
  BoardIds = {1, 2}
  Machines <- TwoBoards
  ProcName = mapping
  LibName = mapping
  MAX_DEV_HANDLE = 2
  MaxClients = 2
  MaxFds = 3
CONSTRAINT Undisturbed
SYMMETRY Symmetry
INVARIANTS
  TypeOK
  HandleForClient
  NoFdLeak
  OpenHasInfo
  IdxUnique
  DuplicatesRefused
  DistinctIdsAccepted
