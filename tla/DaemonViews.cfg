SPECIFICATION ViewsSpec
CONSTANTS
  Clients = {c1}
  Wants <- mcWants
  Handlers = {h1, h2}
  Buffer = 1
  MaxHistory = 3
  MaxOps = 2
  MaxFaults = 1
  AnyFirst = FALSE
  AdminOverTCP = FALSE
 
PROPERTIES ImplementsStream 
CHECK_DEADLOCK FALSE
