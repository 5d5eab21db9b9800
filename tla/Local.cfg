CONSTANTS
    World = 2
    Setups <- MCSetups
    MaxIteration = 3
    MaxFaults = 2
SPECIFICATION Spec
CHECK_DEADLOCK FALSE
INVARIANT SavedIsRecoverable
INVARIANT ResumesTogether
INVARIANT LatestCanBeLoaded
