\* The reader of the connection leaves a full buffer behind.
CONSTANTS
  CheapPrepend = 2
  InitialSize = 3
  ExtraSize = 5
  MaxBytes = 8
SPECIFICATION Spec
INVARIANT ReadAssertHolds
