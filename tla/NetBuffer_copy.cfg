\* One read returns as many bytes as extrabuf holds.
CONSTANTS
  CheapPrepend = 2
  InitialSize = 3
  ExtraSize = 5
  MaxBytes = 8
SPECIFICATION Spec
INVARIANT CopyFits
