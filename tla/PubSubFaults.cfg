SPECIFICATION Spec
CONSTANTS
  Clients = {c1, c2}
  Patterns = {}
  Articles = {}
  MaxClients = 2
  MaxSubscriptions = 1
  MaxNet = 4
  Timeout = 1
  Retries = TRUE
  Careful = FALSE
  Punctual = FALSE
CHECK_DEADLOCK FALSE
SYMMETRY Symmetry
PROPERTY
  RemovalsAreOwn
