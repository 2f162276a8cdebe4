SPECIFICATION MCSpec
CONSTANTS
    \* CosmosHTLC
    Accounts = {admin, alice}
    Admin = admin
    Denoms = {atom, osmo}
    Amounts = {1, 2}
    Secrets = {s1}
    MaxTimelock = 1
    InitialFunds = 2
    MaxHtlcs = 2
    MaxTime = 2
    \* MultiHopTransfer
    Networks <- MCNetworks
    Relays = {r1, r2}
    Requests <- MCRequests
    HandlerChains = {"hub"}
    CacheTimeout = 2
    MaxPathLength = 4
    MaxTransferHops = 3
    HopTimeout = 5
    TimelockReductionPerHop = 3
    MinTimeBuffer = 3
    MaxRelayAttempts = 2
    LastTick = 2
    MaxFetchFailures = 1
    \* Migrations
    Migrators = {"manager", "cli"}
    LastVersion = 2
    MigrationPool <- MCMigrationPool
    LockAge = 1
    LastHour = 1
    MaxRuns = 2
    \* ConnectionManager
    LastEndpoint = 2
    MaxConnections = 2
    MaxConsecutiveFailures = 2
    ReadPreference = "secondary"
    Operations = {"o1"}
    CheckRounds = {"k1", "k2"}
    \* RequestThrottle
    Calls = {"c1", "c2", "c3"}
    Limits = {1, 2}
    QueueLimit = 2
    MaxRetryCount = 1
    MaxUpdates = 1
    \* PersistenceManager
    Modes = {"postgres", "redis", "hybrid"}
    MaxStoreRetries = 2
    MaxTroubles = 4
    \* VaultSecrets
    Readers = {v1, v2}
    Leases = {0, 4}
    TokenMaxLife = 6
    CacheLife = 2
    Transit = 1
    NoMoment = NoMoment
    MaxVersions = 2
    MaxFailed = 1
    LastMinute = 7
SYMMETRY MCSymmetry
INVARIANTS
    BalanceExplained
    HopsReturnInTime
    NeverWaitsForItself
    ClientsAccountedFor
    NoSlotIsLost
    KeepsTrying
    SecretsStayGood
PROPERTY ImplementsHashTimeLock
CHECK_DEADLOCK FALSE
