SPECIFICATION FairSpecWithHistory
CONSTANTS
  Segment = 0
  NoGroup = "none"
  ReplacementGroupSize = 0
  Launchers = {1, 2, 3}
  Host = 1
  MinNodes = 2
  MaxNodes = 3
  LastCall = FALSE
  JobArray = FALSE
  Infra <- MCInfra
  Addr <- MCAddr
  Domain <- MCDomain
  Group <- MCGroup
  Failing = {1}
  Unhealthy = {}
  Crashing = {}
  Impatient = {}
  Stopping = {2}
  Finishing = {}
  ColdStart = FALSE
  MaxRound = 1
  MaxSlots = 3

PROPERTY StopEndsEveryLauncher
CHECK_DEADLOCK FALSE
