CONSTANTS
  None = None
  NUM_HISTORY = 3
  GroupLines <- FewLines
  MaxEdge = 7
  ResetEdges = 1
  StopTimes = {0, 1, 3, 9}
SPECIFICATION FairSpec
INVARIANTS HistoryHoldsLatest OneDumpAhead
PROPERTIES KeysWalkByEdges RunReturns
CHECK_DEADLOCK FALSE
