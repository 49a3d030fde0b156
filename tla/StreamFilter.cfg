SPECIFICATION Spec
CONSTANTS
    Ask <- MCAsk
    Frame <- MCFrame
    MaxQueryItems = 2
    MaxBodyItems = 3
    Absent = Absent
INVARIANTS
    DeliveredExactly
    ProjectionKeepsMatch
    AskedIsServed
