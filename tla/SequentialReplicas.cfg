SPECIFICATION Spec
CONSTANTS
  p1 = p1
  p2 = p2
  re = re
  N = 2
  Requests = {p1, p2}
  Entry <- MCEntry
  Parent <- MCParent
  MaxArticles = 2
  Faults = FALSE
INVARIANT
  ReplicasUpToDate
