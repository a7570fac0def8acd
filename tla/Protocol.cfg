CONSTANTS
  Pipes <- MCPipes
  ByteBits = 3
  SizeBits = 2
  ValueBits = 1
  DataStoreSize = 3
  Transports = {"lagged", "memory", "null"}
  MaxInFlight = 2
  MaxAbandoned = 1
  Value = {1}
  MaxBuffer = 1
SPECIFICATION Spec
INVARIANTS TypeOK HandledAsWritten OnlyGarbledFail CallbacksConsumeAll BuffersOwned
CHECK_DEADLOCK FALSE
