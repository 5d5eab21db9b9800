SPECIFICATION FairSpecWithHistory
CONSTANTS
  Segment = 0
  NoGroup = "none"
  ReplacementGroupSize = 0
  Launchers = {1, 2, 3}
  Host = 1
  MinNodes = 3
  MaxNodes = 3
  LastCall = TRUE
  JobArray = FALSE
  Infra <- MCInfra
  Addr <- MCAddr
  Domain <- MCDomain
  Group <- MCGroup
  Failing = {1, 2, 3}
  Unhealthy = {}
  Crashing = {}
  Impatient = {}
  Stopping = {1, 2, 3}
  Finishing = {1, 2, 3}
  ColdStart = TRUE
  MaxRound = 1
  MaxSlots = 3
INVARIANTS SlotExclusive NoUnexpectedConflict
PROPERTIES FirstReasonStays OpenRoundResolves
CHECK_DEADLOCK FALSE
