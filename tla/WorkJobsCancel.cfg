SPECIFICATION Spec
CONSTANTS
    Job = {j1, j2}
    Cancel = {c1}
    Hash = {h1}
    Nobody = nobody
    Provider = "local"
    Peers = 2
PROPERTIES
    SuccessStopsWork
CHECK_DEADLOCK FALSE
