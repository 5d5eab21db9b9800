CONSTANTS
    World = 2
    Setups <- OnlySync
    MaxIteration = 2
    MaxFaults = 1
SPECIFICATION FairSpec
CHECK_DEADLOCK FALSE
PROPERTY SavesGetThrough
