SPECIFICATION Spec
CONSTANTS
    tracks <- MCOutbound
    Aliases = {}
    RingBlocks = 1
    MaxConnections = 1
    MaxAsks = 1
    MaxUnread = 1
    MaxBlocks = 0
    MaxSends = 1
INVARIANTS ToldBeforeSent
CHECK_DEADLOCK FALSE
