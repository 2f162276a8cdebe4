SPECIFICATION ErrorRecoverySpec
CONSTANTS
    Calls = {c1}
    MaxAttempts = 2
    FailureThreshold = 2
    SuccessThreshold = 2
    Timeout = 1
    ResetTimeout = 3
    Off = Off
PROPERTY NothingStartsWhileStopped
CHECK_DEADLOCK FALSE
