SPECIFICATION Spec
CONSTANTS
    tracks <- MCOutbound
    Aliases = {}
    RingBlocks = 2
    MaxConnections = 2
    MaxAsks = 2
    MaxUnread = 1
    MaxBlocks = 2
    MaxSends = 2
INVARIANTS SentAsTold ObjectsInOrder
CHECK_DEADLOCK FALSE
