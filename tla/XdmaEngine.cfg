SPECIFICATION EngineSpec
CONSTANTS
  MAX_DESC_NUM = 4
  MAX_EXTRA_ADJ = 1
  SIZE = 4096
  MAX_STARTS = 2
INVARIANTS
  EngineTypeOK
  PrefetchInBounds
  ChainComplete
  BurstsMaximal
  DmaStaysHome
PROPERTIES
  OwnEngineOnly
  TransferEnds
CHECK_DEADLOCK FALSE
