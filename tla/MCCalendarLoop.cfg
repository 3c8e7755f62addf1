SPECIFICATION LoopFairSpec
CONSTANTS
  Days <- MCDays
  Amounts <- MCAmounts
INVARIANT ReturnsClosedForm
PROPERTY LoopEnds
CHECK_DEADLOCK FALSE
