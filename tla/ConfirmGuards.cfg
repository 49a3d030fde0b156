SPECIFICATION Spec
CONSTANTS
    Request = {r1, r2}
    Hash = {h1, h2, h3}
    TokenCost = 1
    Burst = 2
    Ttl = 2
    Capacity = 1
    MaxClock = 3
SYMMETRY Requests
INVARIANTS
    CreditConserved
    CacheBounded
PROPERTIES
    AcceptedHashCools
CHECK_DEADLOCK FALSE
