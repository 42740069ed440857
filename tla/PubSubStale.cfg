SPECIFICATION Spec
CONSTANTS
  Clients = {c1}
  Patterns = {}
  Articles = {}
  MaxClients = 2
  MaxSubscriptions = 1
  MaxNet = 2
  Timeout = 1
  Retries = FALSE
  Careful = TRUE
  Punctual = FALSE
CHECK_DEADLOCK FALSE
PROPERTY
  TimedOutAreSilent
