\* The code's ratio of 8 to 256 is kept recognisable: three halvings bring the
\* largest starving below MaxStarving.
CONSTANTS
    MaxStarving = 2
    Modulus = 8
    ChainBound = 2
SPECIFICATION Spec
INVARIANTS
    TypeOK
    LowestBypass
    MiddleBypass
    PingBypass
PROPERTIES
    WaitingLeaves
CHECK_DEADLOCK FALSE
