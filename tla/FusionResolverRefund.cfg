SPECIFICATION ResolverSpec
CONSTANTS
    Accounts = {owner, resolver}
    ResolverContract = resolver
    Owner = owner
    Tokens = {usdc}
    SilentTokens = {}
    Amounts = {1}
    Secrets = {s1}
    Timelocks = {2, 5}
    InitialFunds = 2
    MaxTime = 3
    ConfigContracts = {k1}
    InitialConfig <- MCInitialConfig
    Durations = {}
    Cascades <- NoneOf
    DoSLimits <- NoneOf
    AmountLimits <- NoneOf
    MaxPerAddress = 100
INVARIANT SomeoneCanRefund
CHECK_DEADLOCK FALSE
