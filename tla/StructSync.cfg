CONSTANTS
  Elem = {a, b}
  DefaultElem = a
  Null = Null
  Corrupt = Corrupt
  Unchanged = Unchanged
  MaxSize = 3
  ListSize = 3
  Static = {"row"}
  Apps <- MCApps
  MaxInFlight = 1
SPECIFICATION Spec
INVARIANTS ShownAsSent FullStateExact
CHECK_DEADLOCK FALSE
