CONSTANTS
  a = a
  b = b
  Auto = Auto
  Nodes = {a, b}
  Groups <- MCGroups
  MaxMessages <- MCMaxMessages
  Burst <- MCBurst
  MaxConns <- MCMaxConns
  MaxStops = 1
  RaftCapacity = 1
  PeerCapacity = 1
  BatchMax = 2
  SocketFrames = 1
SPECIFICATION FairSpec
CHECK_DEADLOCK FALSE
INVARIANTS
  TypeOK
  NoLostRaftWakeup
  SteppedOnce
  InOrder
PROPERTIES
  StuckBehindAnother
  TransportSettles
