CONSTANTS
  None = None
  STQ_DEPTH = 4
  LDQ_DEPTH = 4
  ROB_DEPTH = 2
  MACHINE_WIDTH = 2
  Addr = {0}
  Byte = {0, 1}
  Val = {0, 1}
  InitVal = 0
  Loads <- PartialLoads
  Stores <- PartialStores
  LoadStalls = FALSE
SPECIFICATION Spec
INVARIANTS TypeOK LoadsSeeProgramOrder SleepersHaveAStore RetiresWithoutOrderFail RetiredStoresReachMemory
PROPERTIES ImplementsStoreBuffer
