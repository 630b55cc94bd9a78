CONSTANTS
  None = None
  STQ_DEPTH = 4
  LDQ_DEPTH = 2
  ROB_DEPTH = 2
  MACHINE_WIDTH = 1
  Addr = {0}
  Byte = {0}
  Val = {0, 1}
  InitVal = 0
  Loads <- OneWordLoads
  Stores <- OneWordStores
  LoadStalls = TRUE
SPECIFICATION Spec
INVARIANTS LoadsSeeProgramOrder
