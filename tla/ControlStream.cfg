SPECIFICATION FairSpec
CONSTANTS
    Byte = 16
    Scripts <- MCScripts
    Requests <- MCRequests
    Setup <- MCSetup
    PieceSizes = {1, 4, 9}
    MaxQueued = 2
    MaxConnections = 2
INVARIANTS TypeOK ServerHears
PROPERTIES ImplementsChannel HandledEventually
CHECK_DEADLOCK FALSE
