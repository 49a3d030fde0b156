SPECIFICATION RelaySpec
CONSTANTS
    Connection = {c1, c2}
    MaxOrders = 4
INVARIANT ResumedServes
PROPERTIES
    OutageIsDark
    CutCircuitsEnd
CHECK_DEADLOCK FALSE
