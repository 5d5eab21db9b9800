SPECIFICATION FairSpecWithHistory
CONSTANTS
  Segment = 0
  NoGroup = "none"
  ReplacementGroupSize = 0
  Launchers = {1, 2}
  Host = 0
  MinNodes = 2
  MaxNodes = 2
  LastCall = TRUE
  JobArray = FALSE
  Infra <- MCInfra
  Addr <- MCAddr
  Domain <- MCDomain
  Group <- MCGroup
  Failing = {1, 2}
  Unhealthy = {}
  Crashing = {}
  Impatient = {}
  Stopping = {0, 1, 2}
  Finishing = {1, 2}
  ColdStart = TRUE
  MaxRound = 2
  MaxSlots = 2
INVARIANT NoUnexpectedConflict
PROPERTIES FirstReasonStays OpenRoundResolves
CHECK_DEADLOCK FALSE
