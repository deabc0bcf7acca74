CONSTANTS
  Addrs = 2
  Readers = {0}
  Primary = Primary
  Target = 2
  MaxFaults = 1
SPECIFICATION FairSpec
CHECK_DEADLOCK FALSE
INVARIANT DoneMeansWritten
PROPERTIES
  WrittenGrows
  BenchEnds
