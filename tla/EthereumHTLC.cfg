SPECIFICATION Spec
CONSTANTS
    Accounts = {alice, bob}
    Tokens = {usdc}
    Amounts = {1}
    Secrets = {s1}
    Timelocks = {2, 4}
    InitialFunds = 2
    MaxTime = 4
    ConfigContracts = {k1}
    InitialConfig <- MCInitialConfig
    Durations = {}
    Cascades <- NoCascades
    DoSLimits <- SameWindow
    AmountLimits <- NoAmountLimits
    MaxPerAddress = 100
SYMMETRY MCSymmetry
INVARIANTS
    Solvent
    TrackedExactly
    AlwaysRefundable
PROPERTIES
    LimitsRespected
    ImplementsHashTimeLock
CHECK_DEADLOCK FALSE
