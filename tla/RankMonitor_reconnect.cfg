SPECIFICATION Spec
CONSTANTS
  Sections = {"step"}
  Warmup = FALSE
  Given <- MCGiven
  Calculated <- MCCalculated
  WarmupIters = 0
  Reported = FALSE
  NoTimeout = 99
  MaxWorkers = 3
  MaxInFlight = 1
  MaxAge = 2
  MaxIteration = 0
INVARIANT NoReportIsRefused
CHECK_DEADLOCK FALSE
