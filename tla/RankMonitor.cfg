SPECIFICATION FairSpec
CONSTANTS
  Sections = {"step", "eval"}
  Warmup = TRUE
  Given <- MCGiven
  Calculated <- MCCalculated
  WarmupIters = 1
  Reported = TRUE
  NoTimeout = 99
  MaxWorkers = 2
  MaxInFlight = 1
  MaxAge = 2
  MaxIteration = 1
INVARIANTS MonitoredIsConnected WarmupCountsFromThisSession SectionViewsAgree
PROPERTIES ConnectingIsAnswered MonitoredHangIsDetected
CHECK_DEADLOCK FALSE
