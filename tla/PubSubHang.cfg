SPECIFICATION Spec
CONSTANTS
  Clients = {c1}
  Patterns <- MCPatterns
  Articles <- MCArticles
  MaxClients = 2
  MaxSubscriptions = 2
  MaxNet = 2
  Timeout = 1
  Retries = FALSE
  Careful = FALSE
  Punctual = TRUE
CHECK_DEADLOCK FALSE
INVARIANT
  NobodyGivesUp
