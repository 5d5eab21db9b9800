SPECIFICATION FairSpec
CONSTANTS
  World = 3
  MaxActive = 2
  MaxIterations = 2
  Critical = {0}
  Raising = {1}
  Exiting = {}
  Hanging = {}
  Sticking = {1}
  Slow = {}
  Unhealthy = {1}
  Dying = {1}
  DyingAt = {"run", "raised", "restart"}
  Losing = {2}
  MaxFaults = 2
INVARIANTS RestartIsSynchronized OneWorld CompletionIsFinal OnlyTheFaultyAreTerminated
PROPERTIES FailureIsNoticed BarrierReleases HostIsReleased
CHECK_DEADLOCK FALSE
