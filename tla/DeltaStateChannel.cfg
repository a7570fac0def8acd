CONSTANTS
  State = {s1, s2}
  Null = Null
  Corrupt = Corrupt
  DataStoreSize = 3
  Mode = "kUnreliableSequenced"
  MaxInFlight = 2
  MaxLost = 1
  MaxAbandoned = 1
SPECIFICATION FairSpec
PROPERTIES ImplementsChannel WindowReopens
CHECK_DEADLOCK FALSE
