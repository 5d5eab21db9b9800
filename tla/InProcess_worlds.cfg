SPECIFICATION Spec
CONSTANTS
  World = 3
  MaxActive = 2
  MaxIterations = 2
  Critical = {0}
  Raising = {2}
  Exiting = {}
  Hanging = {}
  Sticking = {}
  Slow = {}
  Unhealthy = {}
  Dying = {1}
  DyingAt = {"start"}
  Losing = {}
  MaxFaults = 2
INVARIANT OneWorld
CHECK_DEADLOCK FALSE
