CONSTANTS
  n1 = n1
  n2 = n2
  s1 = s1
  NoCmd = NoCmd
  Nodes = {n1, n2}
  Streams = {s1}
  Epochs = {1, 2}
  MaxTerm = 2
  MaxWrites = 2
  MaxRestarts = 1
  ConsumerOffsets = {1}
  SnapshotInterval = 1
  SegmentRecords = 1
  TailCacheEntries = 1
SPECIFICATION Spec
SYMMETRY NodeSymmetry
CHECK_DEADLOCK FALSE
INVARIANTS
  ReadsCommitted
  CommitIsRecoverable
  AckedIsReadable
PROPERTIES
  ReadsStable
  ServesStreams
