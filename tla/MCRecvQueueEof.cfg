\* Both ends close; no segment is ever sent.
CONSTANTS
    MaxPush = 0
SPECIFICATION Spec
PROPERTIES
    ReadReturnsOnClose
CHECK_DEADLOCK FALSE
