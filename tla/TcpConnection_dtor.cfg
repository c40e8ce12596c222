\* One other thread calls shutdown() while the peer closes.
CONSTANTS
  Callers = {t1}
  MaxSends = 0
  MaxLen = 1
SPECIFICATION Spec
INVARIANT DestroyedDisconnected
