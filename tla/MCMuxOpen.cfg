\* Two connections, a message each way in each; NewConn may time out.
CONSTANTS
    MaxConns = 2
    MaxMsgs = 1
SPECIFICATION Spec
INVARIANTS
    SessionSound
    EndsAgree
PROPERTIES
    OpenSucceeds
CHECK_DEADLOCK FALSE
