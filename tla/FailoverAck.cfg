CONSTANTS
  n1 = n1
  n2 = n2
  n3 = n3
  s1 = s1
  NoCmd = NoCmd
  Nodes = {n1, n2, n3}
  Streams = {s1}
  Epochs = {1}
  MaxTerm = 3
  MaxWrites = 2
  MaxRestarts = 0
  ConsumerOffsets = {}
  SnapshotInterval = 64
  SegmentRecords = 1
  TailCacheEntries = 1
SPECIFICATION Spec
CHECK_DEADLOCK FALSE
SYMMETRY NodeSymmetry
INVARIANT AckImpliesCommitted
