SPECIFICATION Spec
CONSTANTS
    Absent = Absent
    Garbage = Garbage
    root = 21
    low = 22
    lowleaf = 23
    high = 24
    leaf = 25
    page = 26
    code = 27
    Levels = 3
    Index = {0, 1, 2}
    Upper = {1, 2}
    Pool = {11, 12, 13, 14, 15, 16}
    Device = {31}
    LimineRoot = 21
    LimineMem <- MCLimineMem
    LimineLevel <- MCLimineLevel
    Wanted <- MCWanted
INVARIANTS
    TypeOK
    NoWildTranslation
    TablesPrivate
PROPERTY RefinesPageMap
CHECK_DEADLOCK FALSE
