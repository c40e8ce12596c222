\* Eight bytes through an array of three; seven values through a ring of three;
\* two events of up to five pieces; three channels
\* on two descriptors; three lines into files over four seconds.
CONSTANTS
  CheapPrepend = 2
  InitialSize = 3
  ExtraSize = 5
  MaxBytes = 8
  Threads = {c1, c2, c3}
  Capacity = 3
  MaxPuts = 7
  Writers = {w1, w2}
  Nm = 8
  MinConvert = 3
  Places = {1, 8}
  Texts = {3}
  Digits = {2}
  Levels = {1, 2}
  NoLogger = NoLogger
  Times = {2, 3, 4}
  MaxPieces = 2
  Channels = {h1, h2, h3}
  Fds = {f1, f2}
  None = None
  Callers = {t1, t2}
  LineLens = {1, 2}
  RollSize = 1
  RollPeriod = 3
  Retain = 2
  CheckEvery = 2
  Start = 2
  MaxTime = 5
  MaxLines = 3
  MaxErrors = 1
SPECIFICATION MCSpec
SYMMETRY ThreadSymmetry
INVARIANTS BytesInOrder SpaceAssertsHold QueueFifo LineWhole IntegersFit StampIsCurrent
  RegistrationAgrees ActiveAlive ChecksHold FilesInOrder PeriodLag FlushedOnReturn
