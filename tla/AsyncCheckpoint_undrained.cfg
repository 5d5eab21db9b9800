CONSTANTS
    r1 = r1
    r2 = r2
    Ranks <- MCRanks
    Coordinator = r1
    Setups <- MCSetups
    MaxOps = 4
    MaxSaves = 3
    MaxFaults = 1
SPECIFICATION FairSpec
CHECK_DEADLOCK FALSE
INVARIANT NothingTorn
