SPECIFICATION MCSpec
CONSTANTS
    \* FusionResolver
    Accounts = {owner, maker, resolver}
    ResolverContract = resolver
    Owner = owner
    Tokens = {usdc, zrx}
    SilentTokens = {zrx}
    Amounts = {1}
    Secrets = {s1}
    Timelocks = {5}
    InitialFunds = 1
    MaxTime = 2
    ConfigContracts = {k1, k2}
    InitialConfig <- MCInitialConfig
    Durations = {0, 1, 3}
    Cascades <- MCCascades
    DoSLimits <- MCDoSLimits
    AmountLimits <- MCAmountLimits
    MaxPerAddress = 100
    \* RelayerLives
    Versions = {a, b}
    ReorgBuffer = 1
    MaxBlocksPerBatch = 2
    StartBack = 2
    StartBlocks = {0}
    InitialHead = 3
    ResetBlocks = {}
    None = None
    MaxHead = 5
    MaxStarts = 1
    MaxResets = 0
    PollingInterval = 1
    MaxLives = 3
SYMMETRY MCSymmetry
INVARIANTS
    Solvent
    ClampedTimelocksFit
    ConfigConsistent
    RelaysAreSound
    NothingIsMissed
PROPERTY OrdersDoNotSpendResolverFunds
CHECK_DEADLOCK FALSE
