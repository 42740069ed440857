SPECIFICATION MCFairSpec
CONSTANTS
  post = post
  own = own
  reply = reply
  read = read
  N = 2
  Nr = 2
  Writes = {post, own}
  Reads = {read}
  Entry <- MCEntry
  Parent <- MCParent
  MaxArticles = 2
  MaxFaults = 1
  MaxEvents = 2
PROPERTIES
  VersionsConverge
  HandlersFinish
