SPECIFICATION FairSpec
CONSTANTS
  Clients = {c1, c2}
  Patterns <- MCPatterns
  Articles <- MCArticles
  MaxClients = 2
  MaxSubscriptions = 2
  MaxNet = 2
  Timeout = 1
  Retries = FALSE
  Careful = TRUE
  Punctual = TRUE
CHECK_DEADLOCK FALSE
INVARIANTS
  TypeOK
  LiveClientsListed
  NobodyGivesUp
PROPERTIES
  UnsubscribedGetsNothing
  SubscribersGetArticles
  DeadClientsRemoved
