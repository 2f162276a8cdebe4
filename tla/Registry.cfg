SPECIFICATION MCSpec
CONSTANTS
    Chains <- MCChains
    PathIds = {p1, p2, p3}
    Senders = {alice, bob}
    MaxRouteHops = 2
    None = None
SYMMETRY MCSymmetry
INVARIANTS
    RegistryConsistent
    ShortestIsDistance
CHECK_DEADLOCK FALSE
