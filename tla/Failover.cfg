CONSTANTS
  n1 = n1
  n2 = n2
  n3 = n3
  s1 = s1
  NoCmd = NoCmd
  Nodes = {n1, n2, n3}
  Streams = {s1}
  Epochs = {1}
  MaxTerm = 3
  MaxWrites = 1
  MaxRestarts = 0
  ConsumerOffsets = {}
  SnapshotInterval = 1
  SegmentRecords = 1
  TailCacheEntries = 1
SPECIFICATION Spec
SYMMETRY NodeSymmetry
CHECK_DEADLOCK FALSE
INVARIANTS
  ReplicasAgree
  AppliedIsDurable
  NoForgottenClient
PROPERTY AnsweredOnce
