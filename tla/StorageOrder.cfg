CONSTANTS
  MaxTerm = 3
  MaxIndex = 5
  MaxCrashes = 1
  SnapshotInterval = 1
SPECIFICATION Spec
CHECK_DEADLOCK FALSE
INVARIANT CommittedIsCommitted
