SPECIFICATION FairSpec
CONSTANTS
    Job = {j1, j2}
    Cancel = {c1}
    Hash = {h1, h2}
    Nobody = nobody
    Provider = "local"
    Peers = 1
INVARIANTS
    SlotAccounted
    EntriesOwned
    RunningIsCancellable
PROPERTIES
    SlotComesBack
CHECK_DEADLOCK FALSE
