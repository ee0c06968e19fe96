SPECIFICATION Spec
CONSTANTS
  Bytes = {0, 1, 2}
  zero = 0
  Data <- MCData
  Lengths = {0, 1, 2}
  kCheapPrepend = 2
  kInitialSize = 2
  MaxReadable = 3
INVARIANT IndexesInRange
PROPERTY ByteQueueSpec
