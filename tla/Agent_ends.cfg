CONSTANTS
    Launchers = {1, 2, 3}
    StoreHost = 1
    MinNodes = 2
    MaxNodes = 3
    MaxRestarts = 1
    MaxNoProgressCycles = 0
    MaxCheckpoints = 0
    MaxLosses = 0
    MaxUnreadable = 0
    Rounds <- MCRounds
    Reasons <- MCReasons
SPECIFICATION Spec
CHECK_DEADLOCK FALSE
INVARIANT NoRestartReachesEveryPoll
\* In its place, one at a time:
\* INVARIANT RemainingFollowsTheCycle
\* PROPERTY OneExitCode
