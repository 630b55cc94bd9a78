CONSTANTS
  None = None
  PTAB_DEPTH = 4
  MACHINE_WIDTH = 2
  PC_COUNT = 3
  Predicted <- TwoBranches
SPECIFICATION Spec
INVARIANTS TypeOK PredictionsKept NoEntryLost FetchFollowsProgram
