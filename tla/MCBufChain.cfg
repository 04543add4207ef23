\* One producer and a chain that grows, or two producers and one that does not.
CONSTANTS
    p1 = p1
    p2 = p2
    k1 = k1
    Producers <- TwoProducers
    Consumers <- OneConsumer
    MaxPush = 9
    Setups <- Sound
SPECIFICATION Spec
INVARIANTS
    ChainSound
PROPERTIES
    NextSetOnce
    FifoSpec
    PushEnds
CHECK_DEADLOCK FALSE
