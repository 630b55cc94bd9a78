CONSTANTS
  None = None
  alu = alu
  mul = mul
  RS_DEPTH = 4
  ROB_DEPTH = 5
  MACHINE_WIDTH = 2
  Fu <- TwoUnits
  Decoded <- MixedDecoded
SPECIFICATION Spec
INVARIANTS TypeOK EveryInstructionHeld OperandsTracked OldestUnlessStale
