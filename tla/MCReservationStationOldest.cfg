CONSTANTS
  None = None
  alu = alu
  mul = mul
  RS_DEPTH = 4
  ROB_DEPTH = 4
  MACHINE_WIDTH = 2
  Fu <- OneUnit
  Decoded <- ChainDecoded
SPECIFICATION Spec
INVARIANTS OldestFirst
