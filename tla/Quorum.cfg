SPECIFICATION MCSpec
CONSTANTS
  post = post
  own = own
  reply = reply
  read = read
  N = 2
  Nr = 2
  Writes = {post, reply}
  Reads = {}
  Entry <- MCEntry
  Parent <- MCParent
  MaxArticles = 2
  MaxFaults = 1
  MaxEvents = 3
INVARIANTS
  TypeOK
  SharedHistory
  RepliesAfterParents
  FailedPullRestoresNothing
