SPECIFICATION Spec
CONSTANTS
    Messages <- LateInitMessages
    Columns = 2
    MaxDigits = 3
    MaxMessages = 2
    MaxEchoes = 0
INVARIANT InsideString
CHECK_DEADLOCK FALSE
