SPECIFICATION FairSpec
CONSTANTS
    N = 3
    Reliable <- MCReliable
    Cooldown = 4
    ConnectTimeout = 1
    AckTimeout = 1
    Heartbeat = 4
    Deadline = 8
    RetryDelay = 1
    MaxReconnects = 1
INVARIANTS
    ReadyMeansStreaming
    SilenceBounded
    PingsAnswered
PROPERTIES
    EndpointsRest
    SettlesOnReliable
    ShutdownStops
CHECK_DEADLOCK FALSE
