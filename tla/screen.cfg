SPECIFICATION Spec
CONSTANTS
    Printable <- MCPrintable
    Messages <- MCMessages
    Columns = 2
    MaxDigits = 3
    MaxMessages = 2
    MaxEchoes = 2
INVARIANTS
    TypeOK
    CursorHeals
    ShowsMeaning
    StyleRestored
    SerialLossBounded
    InsideString
CHECK_DEADLOCK FALSE
