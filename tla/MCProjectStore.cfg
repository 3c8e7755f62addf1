SPECIFICATION FairSpec
CONSTANTS
  Clients = {c1, c2, c3}
  Pids = {p1}
  NoProject = NoProject
  NoRevision = NoRevision
  MaxRevision = 3
INVARIANTS
  SnapshotIsCurrent
  AcknowledgedIsCommitted
  OneWinnerPerRevision
PROPERTIES
  ImplementsRevisionedStore
  EveryCallReturns
