SPECIFICATION Spec
CONSTANTS
    PageSize = 4
    BitsPerByte = 4
    LowPages = 2
    Segments = 3
    Lengths = {1, 2, 5}
    MemMaps <- MCTailMaps
INVARIANT HandedSafe
CHECK_DEADLOCK FALSE
