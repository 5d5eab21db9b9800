SPECIFICATION FairSpec
CONSTANTS
  Sections = {"step", "eval"}
  Warmup = FALSE
  Given <- MCOpenEnded
  Calculated <- MCOpenEnded
  WarmupIters = 0
  Reported = FALSE
  NoTimeout = 99
  MaxWorkers = 1
  MaxInFlight = 1
  MaxAge = 2
  MaxIteration = 0
PROPERTY OpenTooLongIsDetected
CHECK_DEADLOCK FALSE
