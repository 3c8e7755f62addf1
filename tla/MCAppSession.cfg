SPECIFICATION MCSpec
CONSTANTS
  Budget = 4
  Backoff <- TwoDelays
  CheckTimeout = 2
  CheckTimes = {1, 2}
  Texts = {"m1"}
  NoText = none
  MaxProjects = 2
  MaxRevision = 3
  MaxRunning = 2
  MaxJumps = 1
  DevStates = {"importLoading", "importError", "aiProcessing", "exportSuccess"}
INVARIANTS
  ProbeBounded
  NeverWaitsForNothing
  HighlightIsInThread
  PlanAgrees
  ReloadReturns
