SPECIFICATION Spec
CONSTANTS
  World = 3
  MaxActive = 2
  MaxIterations = 2
  Critical = {0}
  Raising = {}
  Exiting = {}
  Hanging = {1}
  Sticking = {}
  Slow = {1}
  Unhealthy = {}
  Dying = {}
  DyingAt = {}
  Losing = {}
  MaxFaults = 1
INVARIANT CompletionIsFinal
CHECK_DEADLOCK FALSE
