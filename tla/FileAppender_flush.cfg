\* One thread writes a line while another is inside fflush of the same FILE.
CONSTANTS
  Callers = {t1, t2}
  None = None
  LineLens = {1}
  RollSize = 9
  RollPeriod = 3
  Retain = 2
  CheckEvery = 2
  Start = 2
  MaxTime = 2
  MaxLines = 2
  MaxErrors = 0
SPECIFICATION Spec
INVARIANT LogThreadSafe
