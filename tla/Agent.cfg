CONSTANTS
    Launchers = {h, a, b}
    h = h
    a = a
    b = b
    StoreHost = h
    MinNodes = 2
    MaxNodes = 3
    MaxRestarts = 2
    MaxNoProgressCycles = 2
    MaxCheckpoints = 2
    MaxLosses = 2
    MaxUnreadable = 1
    Rounds <- MCRounds
    Reasons <- MCReasons
SPECIFICATION Spec
SYMMETRY MCSymmetry
CONSTRAINT HostInEveryWorld
CHECK_DEADLOCK FALSE
INVARIANT BudgetIsPaidOnce
INVARIANT NoProgressIsReal
