SPECIFICATION MCFairSpec
CONSTANTS
  p1 = p1
  p2 = p2
  re = re
  N = 3
  Requests = {p2, re}
  Entry <- MCEntry
  Parent <- MCParent
  MaxArticles = 2
  Faults = TRUE
INVARIANTS
  TypeOK
  OneHistory
  RepliesAfterParents
  CommittedOnce
PROPERTIES
  HandlersFinish
  PostsPushedToAll
