SPECIFICATION FairSpec
CONSTANTS
    MaxAttempts = 2
    InitMayFail = FALSE
PROPERTY BackoffBetweenAttempts
