\* No close: segments of 1 or 2 bytes in windows of 2 or 4 that are resized at
\* every second segment, and buffers that split across reads and writes.
CONSTANTS
    MaxSeg = 2
    InitWindow = 4
    Windows = {2, 4}
    CalcPeriod = 2
    MaxWrite = 2
    MaxRead = 2
    StreamBound = 5
    Closes = FALSE
SPECIFICATION Spec
INVARIANTS
    TypeOK
    CreditConserved
    WindowRespected
    QuietMeansFree
PROPERTIES
    InOrder
CHECK_DEADLOCK FALSE
