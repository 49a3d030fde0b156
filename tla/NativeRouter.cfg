SPECIFICATION FairSpec
CONSTANTS
    Call = {c1, c2}
    N = 2
    Cooldown = 1
    MaxClock = 2
    MaxCalls = 1
INVARIANTS
    GivesUpOnlyAfterAll
PROPERTIES
    CoolingOnlyAskedByOlderCalls
    CallsEnd
CHECK_DEADLOCK FALSE
