SPECIFICATION Spec
CONSTANTS
  NoDate = NoDate
  a = a
  b = b
  c = c
  Stems = {a, b, c}
  LongStems = {c}
  MaxTasks = 3
  MaxDuration = 2
  Files <- MCFiles
  Plans <- MCPlans
INVARIANTS
  TypeOK
  ParsedIsPlan
  EveryIssueNamed
  RoundTrips
CHECK_DEADLOCK FALSE
