\* Pools of zero to two loops; three connections share two descriptors.
CONSTANTS
  Base = Base
  Fds = {3, 4}
  MaxPool = 2
  MaxConns = 3
SPECIFICATION LiveSpec
INVARIANTS ServingAssertsHold PolledIsAlive OnlyDroppedFail
PROPERTIES ClosedIsReleased ServerDestructs
