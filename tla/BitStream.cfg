CONSTANTS
  ByteBits = 3
  WordBytes = 2
  MemcpyBytes = 2
  LengthBits = 3
  Patterns <- MCPatterns
  MaxBits = 7
  MaxValue = 4
  MaxCursors = 2
SPECIFICATION StreamSpec
INVARIANTS StreamExact ReadsBack NeverThrows EmptyAtEnd BitBufferCopied
CHECK_DEADLOCK FALSE
