\* Six messages: overlong batches in two turns of the loop.
CONSTANTS
  Capacity = 3
  DropThreshold = 2
  Lens <- AllLens
  Null = Null
  MaxMessages = 6
SPECIFICATION LiveSpec
INVARIANTS SyncAssertsHold NoSleepOnFullBuffer NothingLost ExitFlushesAll
PROPERTIES DestructorReturns AcceptedIsFlushed
