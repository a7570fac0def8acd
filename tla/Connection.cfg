CONSTANTS
  Client = {c1, c2, c3}
  None = None
  MaxConnections = 2
  MaxQueued = 2
SPECIFICATION Spec
SYMMETRY Symmetry
INVARIANTS SlotsAgree NothingMisrouted NoFault ConnectionSafe
CHECK_DEADLOCK FALSE
