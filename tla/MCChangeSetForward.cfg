SPECIFICATION Spec
CONSTANTS
  a = a
  b = b
  c = c
  n = n
  stranger = stranger
  nobody = nobody
  someone = someone
  none = none
  bad = bad
  NoDate = NoDate
  NoTask = none
  Stranger = stranger
  BadName = bad
  InitialProjects <- MCInitialProjects
  NewIds <- MCNewIds
  Names <- MCNames
  Assignees <- MCAssignees
  Amounts <- MCAmounts
  Moves <- MCMoves
  Dates <- MCDates
  HoursPerWorkday = 2
  MaxDuration = 2
  MaxOperations = 2
  MaxListed = 2
  MaxRevision = 2
CHECK_DEADLOCK FALSE
INVARIANT FailsWithDomainErrors
