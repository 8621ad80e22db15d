SPECIFICATION FairSpec
CONSTANTS
    tracks <- MCTracks
    Aliases = {1, 2}
    RingBlocks = 1
    MaxConnections = 3
    MaxAsks = 2
    MaxUnread = 1
    MaxBlocks = 2
    MaxSends = 0
INVARIANTS RoutedRight RequestedOnce FreshAudio
PROPERTIES GrantTakesEffect AudioLeaves
CHECK_DEADLOCK FALSE
