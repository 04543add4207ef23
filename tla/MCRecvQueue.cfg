\* Both ends may close at any moment, and reads may time out.
CONSTANTS
    MaxPush = 4
SPECIFICATION Spec
INVARIANTS
    QueueSound
PROPERTIES
    PushReturns
    FifoSpec
CHECK_DEADLOCK FALSE
