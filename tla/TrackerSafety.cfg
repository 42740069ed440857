SPECIFICATION Spec
CONSTANTS
  NoPeer = NoPeer
  Peers = {p1, p2, p3}
  Files = {f1}
  MaxPeers = 2
  Timeout = 1
  MaxLag = 1
  MaxChanges = 0
  MaxFaults = 0
SYMMETRY Symmetry
INVARIANTS
  TypeOK
  OneEntryPerPeer
  CountIsActive
PROPERTIES
  OnlySilentForgotten
  NobodyDisplaced
