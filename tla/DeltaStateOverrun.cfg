CONSTANTS
  State = {s1, s2}
  Null = Null
  Corrupt = Corrupt
  DataStoreSize = 3
  Mode = "kUnreliableSequenced"
  MaxInFlight = 3
  MaxLost = 2
  MaxAbandoned = 0
SPECIFICATION Spec
INVARIANT EveryStateDecodes
CHECK_DEADLOCK FALSE
