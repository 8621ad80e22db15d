SPECIFICATION Spec
CONSTANTS
    MaxAttempts = 2
    InitMayFail = FALSE
INVARIANT EveryLossNoticed
