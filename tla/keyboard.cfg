SPECIFICATION FairSpec
CONSTANTS
    Letter = {"a"}
    LapicId = 1
    Firmware <- MCFirmware
    FifoSize = 2
    MaxEvents = 4
INVARIANTS
    TypeOK
    NoLostEdge
    ReadsBacked
    ShiftSettles
    VectorsHandled
PROPERTY Responsive
CHECK_DEADLOCK FALSE
