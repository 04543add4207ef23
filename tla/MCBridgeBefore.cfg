SPECIFICATION Spec
CONSTANTS
    s1 = s1
    s2 = s2
    Sessions = {s1, s2}
    NoSession = NoSession
    NoEntry = NoEntry
    Ping = Ping
    MaxRetry = 2
CHECK_DEADLOCK FALSE
PROPERTY BeforeIsClosed
