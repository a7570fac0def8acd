CONSTANTS
  Client = {c1, c2}
  None = None
  MaxConnections = 1
  MaxQueued = 2
SPECIFICATION FairSpec
PROPERTIES ServerForgets ClientTold
CHECK_DEADLOCK FALSE
