SPECIFICATION MCFairSpec
CONSTANTS
  b1 = b1
  b2 = b2
  p1 = p1
  Bad = Bad
  Absent = Absent
  Peers = {p1, p2}
  Blocks = {b1, b2}
  Originals <- MCOriginals
  Retry = 2
  MaxPeers = 1
  MaxThroughPut = 2
  MaxCommands = 1
  MaxFaults = 1
CHECK_DEADLOCK FALSE
INVARIANTS
  TypeOK
  OnlyGenuineStored
PROPERTIES
  DownloadsEnd
