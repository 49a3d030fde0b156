SPECIFICATION Spec
CONSTANTS
    Request = {r1, r2}
    Query <- MCQuery
    Setting <- MCSetting
    NoExpiry = NoExpiry
    BadExpiry = BadExpiry
    MaxClock = 1
SYMMETRY Requests
INVARIANTS
    OnlyEntitledActs
    RefusalsLeaveNoTrace
    CountersAgree
CHECK_DEADLOCK FALSE
