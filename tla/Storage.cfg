CONSTANTS
  MaxTerm = 3
  MaxIndex = 5
  MaxCrashes = 2
  SnapshotInterval = 1
SPECIFICATION Spec
CHECK_DEADLOCK FALSE
INVARIANTS
  TypeOK
  OneLog
  StoredIsBelieved
  CallsSucceed
PROPERTY TermNeverBack
