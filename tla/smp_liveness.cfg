SPECIFICATION FairSpec
CONSTANTS
    b = b
    a1 = a1
    a2 = a2
    Core = {b, a1, a2}
    BSP = b
    Builds = {TRUE, FALSE}
    MsgLen = 1
    MaxFaults = 1
    MaxIrqs = 1
PROPERTIES
    BootSettles
    PanicCompletes
    IrqReturns
CHECK_DEADLOCK FALSE
