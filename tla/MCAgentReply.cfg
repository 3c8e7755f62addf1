SPECIFICATION Spec
CONSTANTS
  Turns = {t1, t2}
  Other = other
  MaxRevision = 3
  MaxSteps = 2
  MaxReads = 1
INVARIANT NoMutationUnlessApplied
CHECK_DEADLOCK FALSE
