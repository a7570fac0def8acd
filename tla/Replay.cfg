CONSTANTS
  FieldBytes = 2
  kNetTransmitterBufferSize = 5
  Sizes = {1, 3}
  MaxPackets = 3
  MaxTime = 2
  MaxLoads = 1
  None = None
SPECIFICATION Spec
INVARIANTS FileExact PlayedInOrder
PROPERTY EverythingPlayed
CHECK_DEADLOCK FALSE
