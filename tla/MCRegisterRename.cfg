CONSTANTS
  None = None
  ARF_DEPTH = 3
  ROB_DEPTH = 2
  MACHINE_WIDTH = 2
  Decoded <- FullDecoded
SPECIFICATION Spec
INVARIANTS TypeOK NoLiveRegisterFree DestinationsDistinct NoRegisterLeak FreeListSuffices BusyExactlyPending RatIsProgramOrder SourcesNameTheirWriters
