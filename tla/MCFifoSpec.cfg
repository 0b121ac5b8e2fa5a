SPECIFICATION RingSpec
CONSTANTS
  Octet = {b1, b2}
  Capacity = 4
INVARIANTS
  RingTypeOK
  BufferOperations
PROPERTIES
  QueueSpec
