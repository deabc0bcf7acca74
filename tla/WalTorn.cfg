CONSTANTS
  s1 = s1
  s2 = s2
  Streams = {s1, s2}
  Log <- MCLog
  SegmentRecords = 2
  SnapshotInterval = 1
  MaxCrashes = 2
  MaxOffset = 2
  CrashTears = TRUE
  CrashBeheads = FALSE
SPECIFICATION Spec
CHECK_DEADLOCK FALSE
INVARIANT AppliedReadable
