SPECIFICATION Spec
CONSTANTS
    HEAP_SIZE = 100
    BaseAddresses <- MCBaseAddresses
    MAX = 5
    ItemsMax = 40
    Arrays <- MCArrays
    Keys <- MCKeys
    Graphs <- MCGraphs
    EdgeLists <- MCEdgeLists
    Boards = {1, 2, 3, 4, 5}
    Factors <- MCFactors
    Layers <- MCLayers
    Iterations = 3
    Vectors <- MCVectors
    Matrices <- MCMatrices
    Priorities = {0, 1, 2}
    Sizes = {2, 8, 12}
    Words <- MCWords
INVARIANTS
    ResultCorrect
    HeapIntact
    DecodersAgree
CHECK_DEADLOCK FALSE
