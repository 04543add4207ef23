\* Two producers, as in the write queue, and a chain that grows.
CONSTANTS
    p1 = p1
    p2 = p2
    k1 = k1
    Producers <- TwoProducers
    Consumers <- OneConsumer
    MaxPush = 4
    Setups <- Growing
SPECIFICATION Spec
PROPERTIES
    NextSetOnce
CHECK_DEADLOCK FALSE
