SPECIFICATION FairSpec
CONSTANTS
    MaxAttempts = 2
    InitMayFail = TRUE
PROPERTY ReconnectingEnds
