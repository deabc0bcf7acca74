CONSTANTS
  s1 = s1
  s2 = s2
  Streams = {s1, s2}
  Log <- MCLog
  SegmentRecords = 2
  SnapshotInterval = 1
  MaxCrashes = 2
  MaxOffset = 1
  CrashTears = TRUE
  CrashBeheads = TRUE
SPECIFICATION FairSpec
CHECK_DEADLOCK FALSE
INVARIANTS
  TypeOK
  IndexSound
  FreshSegment
  CleanlyReadable
PROPERTY EventuallyReclaimed
