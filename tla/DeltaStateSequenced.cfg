CONSTANTS
  State = {s1, s2, s3}
  Null = Null
  Corrupt = Corrupt
  DataStoreSize = 3
  Mode = "kUnreliableSequenced"
  MaxInFlight = 3
  MaxLost = 2
  MaxAbandoned = 0
SPECIFICATION Spec
SYMMETRY Symmetry
INVARIANTS TypeOK DeliveredAsSent NoNullReference ReferenceAgreed StallNeedsLoss PipeInv
CHECK_DEADLOCK FALSE
