SPECIFICATION Spec
CONSTANTS
    Request = {r1, r2}
    Hash = {h1}
    TokenCost = 1
    Burst = 1
    Ttl = 1
    Capacity = 1
    MaxClock = 2
SYMMETRY Requests
INVARIANTS
    RateBounded
CHECK_DEADLOCK FALSE
