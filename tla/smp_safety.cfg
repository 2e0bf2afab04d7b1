SPECIFICATION Spec
CONSTANTS
    b = b
    a1 = a1
    a2 = a2
    Core = {b, a1, a2}
    BSP = b
    Builds = {TRUE, FALSE}
    MsgLen = 2
    MaxFaults = 2
    MaxIrqs = 1
SYMMETRY ApSymmetry
INVARIANTS
    TypeOK
    MutualExclusion
    DamageBounded
    NoOrphanLock
    NoSelfDeadlock
    GateHolds
PROPERTIES
    MessagesWhole
    PanicIsFinal
CHECK_DEADLOCK FALSE
