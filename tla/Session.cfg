SPECIFICATION FairSpec
CONSTANTS
    MaxAttempts = 2
    InitMayFail = TRUE
INVARIANTS TypeOK DisconnectSticks StateAgrees ConnectedIsOrchestrated ConnectedIsAlive
PROPERTIES ReconnectResolves DisconnectReturns
