SPECIFICATION FairSpec
CONSTANTS
  a = a
  b = b
  c = c
  d = d
  stranger = stranger
  NoDate = NoDate
  Id <- MCId
  Projects <- MCProjects
  Horizon <- TwoWeeks
INVARIANTS
  OrderInv
  CycleVerdict
  TableOrder
  ScheduleFeasible
  NoEarlierSchedule
  NoSilentDelay
  ComputesStartDates
PROPERTY CallEnds
CHECK_DEADLOCK FALSE
