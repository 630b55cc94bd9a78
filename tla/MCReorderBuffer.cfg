CONSTANTS
  op = op
  b1 = b1
  b2 = b2
  halt = halt
  NoInst = NoInst
  ROB_DEPTH = 4
  MACHINE_WIDTH = 2
  ISSUE_WIDTH = 2
  Inst = {op, b1, b2, halt}
  BranchInst = {b1, b2}
  NopInst = {}
  HaltInst = {halt}
SPECIFICATION FairSpec
INVARIANTS TypeOK ValidExactlyWindow TagsOrderByAge RedirectIsOfRetiredBranch
PROPERTIES ImplementsInOrderWindow EveryEntryLeaves MispredictionFlushes
