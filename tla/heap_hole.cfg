SPECIFICATION Spec
CONSTANTS
    PageSize = 4
    InitialPages = 2
    KernelEnds = {8}
    Amounts = {0, 3, 5}
    Frames = 5
    TableFrames = {0, 1}
INVARIANT BlocksMapped
CHECK_DEADLOCK FALSE
