CONSTANTS
  n1 = n1
  n2 = n2
  s1 = s1
  NoCmd = NoCmd
  Nodes = {n1, n2}
  Streams = {s1}
  Epochs = {1}
  MaxTerm = 3
  MaxWrites = 2
  MaxRestarts = 1
  ConsumerOffsets = {}
  SnapshotInterval = 64
  SegmentRecords = 1
  TailCacheEntries = 1
SPECIFICATION FairSpec
CHECK_DEADLOCK FALSE
INVARIANTS
  TypeOK
  PendingDistinct
  TablesSound
  TermPositions
  ReadsCommitted
PROPERTIES
  EveryWriteAnswered
  ReplicasConverge
