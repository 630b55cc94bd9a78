CONSTANTS
  None = None
  STQ_DEPTH = 2
  LDQ_DEPTH = 2
  ROB_DEPTH = 2
  MACHINE_WIDTH = 1
  Addr = {0}
  Byte = {0, 1}
  Val = {0}
  InitVal = 0
  Loads <- SleepLoads
  Stores <- SleepStores
  LoadStalls = TRUE
SPECIFICATION FairSpec
PROPERTIES EveryLoadReturns EveryRetiredStoreFires
