SPECIFICATION FairSpec
CONSTANTS
    wanted = wanted
    other = other
    Stream = {s1}
    Kind = {wanted, other}
    Interest <- MCInterest
    Capacity = 1
    MaxGeneration = 2
    MaxPublished = 2
INVARIANTS
    TypeOK
    RetiredMeansCancelled
    NoGap
    AtMostOneLate
    ActiveStreamsExact
PROPERTIES
    OnlyOwnLeaseRetires
    ImplementsFeed
    LostStreamsClose
    WantedEventArrives
CHECK_DEADLOCK FALSE
