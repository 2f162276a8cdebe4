SPECIFICATION MCSpec
CONSTANTS
    Elements = {x1, x2, x3, x4}
    MaxLength = 4

    EthereumIds = {e1}
    CosmosIds = {c1}
    Ours = {e1, c1}
    Deadlines = {1}
    Window = 6
    CheckInterval = 2
    RetryDelay = 1
    MaxRetries = 3
    BatchSize = 2
    Loops = {p1, p2}
    LastTime = 6
    MaxFaults = 1
    MaxSlow = 1

    Encodings = {"plain", "base64"}
    Methods = {"create_htlc", "withdraw"}
    StartBack = 2
    StartHeights = {0, 1}
    MaxHeightsPerBatch = 2
    ResetHeights = {2}
    InitialHeight = 2
    MaxHeight = 4
    MaxMonitorStarts = 2

    Callers = {p1, p2}
    Endpoints = {url}
    Cleaners = {d1}
    MaxConnections = 1
    Prewarmed = 1
    BreakerThreshold = 1
    None = None
    MaxOpened = 4
    MaxArrays = 3
    MaxStarts = 1

    Active = {executing}
    Terminal = {completed}
    NoRelay = NoRelay
    Keep = Keep
    MaxCalls = 3
    MaxFailures = 2

    Rows = {1, 2, 3}
    Jobs = {p1, p2}
    MaxConcurrentJobs = 2
    Destinations = {"archive", "delete"}
    RowsPerBatch = 1
    MaxRecordsPerRun = 2
    MaxRowChanges = 1

    Denoms = {"a", "b", "c", "d"}
    PoolInfos <- MCPoolInfos
    Discovered = {1, 2, 3, 4}
    MaxHops = 3
    MaxRoutes = 1
    MinimalAmount = 1
    SupportedChains = {"x"}
    RegistryRouters = {"x", "y"}
    MaxAnswers = 1
    Queries <- MCQueries
    CallerRoutes <- MCRoutes
    Amounts = {4}
    MinOutputs = {2, 6}
    One = 10
    NoNode = NoNode
    MaxChanges = 4

    ClientTimeout = 2
    ServiceTimeout = 3
    RetryAttempts = 2
    ResolveDelay = 1
    Latency = 1
    Askers = {v1}
    LastMoment = 5
SYMMETRY MCSymmetry
CHECK_DEADLOCK FALSE
INVARIANTS
    RemovesExactly
    TakenBackInTime
    RefundsCounted
    EachHeightOnce
    OneUserWhileOpen
    OvershootBounded
    CachedIsIndexed
    DurableUnlessLeft
    RunsDoTheirShare
    FindsShortest
    AnswerAge
    MinimumKept
