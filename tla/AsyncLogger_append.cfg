\* Every length that log() lets through, the size of a buffer included.
CONSTANTS
  Capacity = 3
  DropThreshold = 2
  Lens <- AllLens
  Null = Null
  MaxMessages = 2
SPECIFICATION Spec
INVARIANT AppendAssertHolds
