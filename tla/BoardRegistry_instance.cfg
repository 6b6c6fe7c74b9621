SPECIFICATION Spec
CONSTANTS
  NULL = NULL
  Threads = {t1}
  BoardIds = {1, 2}
  Machines <- EleventhBoard
  ProcName = mapping
  LibName = mapping
  MAX_DEV_HANDLE = 2
  MaxClients = 2
  MaxFds = 3
INVARIANT InstanceKept
