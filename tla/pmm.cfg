SPECIFICATION Spec
CONSTANTS
    PageSize = 2
    BitsPerByte = 4
    LowPages = 2
    Segments = 3
    Lengths = {1, 2, 5}
    MemMaps <- MCMemMaps
INVARIANTS
    TypeOK
    SafeWhereCovered
    PoolExact
PROPERTY
    RefinesPageAllocator
CHECK_DEADLOCK FALSE
