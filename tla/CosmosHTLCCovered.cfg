SPECIFICATION Spec
CONSTANTS
    Accounts = {admin, alice}
    Admin = admin
    Denoms = {atom, osmo}
    Amounts = {1, 2}
    Secrets = {s1}
    MaxTimelock = 2
    InitialFunds = 2
    MaxHtlcs = 2
    MaxTime = 2
SYMMETRY MCSymmetry
INVARIANT EveryOpenHtlcCovered
CHECK_DEADLOCK FALSE
