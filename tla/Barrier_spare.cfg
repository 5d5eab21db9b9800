SPECIFICATION SpecWithHistory
CONSTANTS
  Segment = 0
  NoGroup = "none"
  ReplacementGroupSize = 0
  Launchers = {1, 2, 3}
  Host = 1
  MinNodes = 2
  MaxNodes = 3
  LastCall = TRUE
  JobArray = FALSE
  Infra <- MCInfra
  Addr <- MCAddr
  Domain <- MCDomain
  Group <- MCGroupOfTwo
  Failing = {1}
  Unhealthy = {3}
  Crashing = {2}
  Impatient = {1, 2, 3}
  Stopping = {}
  Finishing = {3}
  ColdStart = FALSE
  MaxRound = 1
  MaxSlots = 3
INVARIANT SlotExclusive
PROPERTIES ImplementsRounds FenceMonotone DecisionReplacesOnlyTheLost
CHECK_DEADLOCK FALSE
