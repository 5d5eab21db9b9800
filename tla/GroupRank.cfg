SPECIFICATION ArrivalSpec
CONSTANTS
  Segment = 2
  GroupSize = 2
  NoGroup = "none"
  Entrants <- MCEntrants
  WorldSizes <- MCWorldSizes
INVARIANTS FeasibilityIsExact LoopIsClosedForm RanksAreDenseAndSegmented
PROPERTY RankLostOnlyToEarlier
CHECK_DEADLOCK FALSE
