CONSTANTS
  Elem = {a, b}
  Free = Free
  Junk = Junk
  Null = Null
  Corrupt = Corrupt
  Unchanged = Unchanged
  MaxSize = 3
  Limit = 3
  MaxReserve = 2
  MaxInFlight = 1
SYMMETRY Symmetry
SPECIFICATION Spec
INVARIANT ShownAsSent
CHECK_DEADLOCK FALSE
