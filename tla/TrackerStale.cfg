SPECIFICATION FairSpec
CONSTANTS
  NoPeer = NoPeer
  Peers = {p1}
  Files = {f1}
  MaxPeers = 1
  Timeout = 1
  MaxLag = 1
  MaxChanges = 1
  MaxFaults = 0
PROPERTY
  FindAnswersSettle
