\* A close at any moment: a window of 1 or 2 fills at once and is resized at
\* every segment.
CONSTANTS
    MaxSeg = 2
    InitWindow = 2
    Windows = {1, 2}
    CalcPeriod = 1
    MaxWrite = 2
    MaxRead = 2
    StreamBound = 3
    Closes = TRUE
SPECIFICATION Spec
INVARIANTS
    EofComplete
PROPERTIES
    Delivered
    WriteReturns
    AllowReturns
CHECK_DEADLOCK FALSE
