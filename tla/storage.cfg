SPECIFICATION Spec
CONSTANTS
    Null = Null
    Byte = {0, 1}
    SectorSize = 2
    MemSize = 8
    Images <- MCImages
    ModuleLists <- MCModules
    RamdiskName <- Name
    Strays <- MCStrays
    MaxSector = 3
    MaxCalls = 4
INVARIANTS
    TypeOK
    RightModule
PROPERTIES
    Contained
    
CHECK_DEADLOCK FALSE
