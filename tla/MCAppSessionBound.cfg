SPECIFICATION Spec
CONSTANTS
  Budget = 4
  Backoff <- TwoDelays
  CheckTimeout = 2
  CheckTimes = {1, 2}
  Texts = {"m1"}
  NoText = none
  MaxProjects = 2
  MaxRevision = 3
  MaxRunning = 2
  MaxJumps = 0
  DevStates = {}
INVARIANTS
  ChatBoundToShownProject
