SPECIFICATION FairSpec
CONSTANTS
  Turns = {t1, t2}
  Other = other
  MaxRevision = 3
  MaxSteps = 2
  MaxReads = 1
INVARIANTS
  TypeOK
  OneCommitPerTurn
  RepliesTruthful
  HiddenOnlyByTransport
PROPERTIES
  AskedWhenAmbiguous
  EveryTurnEnds
CHECK_DEADLOCK FALSE
