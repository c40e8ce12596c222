\* The thread of the loop and one other; two messages of up to two bytes.
CONSTANTS
  Callers = {t1}
  MaxSends = 2
  MaxLen = 2
SPECIFICATION LiveSpec
INVARIANTS StreamOrder WritingIffBuffered ShutdownAfterDrain LifetimeSafe
PROPERTIES OutputCompletes ClosedIsDestroyed
