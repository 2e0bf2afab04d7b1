SPECIFICATION Spec
CONSTANTS
    PageSize = 4
    InitialPages = 2
    KernelEnds = {8, 10}
    Amounts = {0, 3, 5}
    Frames = 5
    TableFrames = {0, 1}
INVARIANTS
    TypeOK
    BlocksDisjoint
    BlocksInHeap
    HoleIsOnePage
CHECK_DEADLOCK FALSE
