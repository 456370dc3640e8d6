\* Calls that cross node boundaries.
CONSTANTS
  Byte = {"a", "b"}
  Fresh = "?"
  baseSize = 3
  MaxCap = 6
  MaxLen = 3
SPECIFICATION Spec
CHECK_DEADLOCK FALSE
INVARIANTS
  ChainInv
PROPERTIES
  ImplementsByteStream
