SPECIFICATION MCSpec
CONSTANTS
    Versions = {a, b}
    ReorgBuffer = 2
    MaxBlocksPerBatch = 2
    StartBack = 2
    StartBlocks = {0, 1}
    InitialHead = 4
    ResetBlocks = {1, 3}
    None = None
    MaxHead = 5
    MaxStarts = 3
    MaxResets = 1

    Calls = {c1, c2}
    MaxAttempts = 2
    FailureThreshold = 2
    SuccessThreshold = 2
    Timeout = 1
    ResetTimeout = 3
    Off = Off
CHECK_DEADLOCK FALSE
INVARIANTS
    PollingSound
    ExactlyOnceInOrder
    DeliveredIsFinal
    BreakerSound
PROPERTIES
    EventuallyDelivered
    OpenEventuallyCloses
    EveryCallEnds
