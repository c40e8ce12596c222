\* One thread calls take() on a queue that nobody has filled.
CONSTANTS
  Threads = {c1, c2}
  Capacity = 2
  MaxPuts = 2
SPECIFICATION Spec
INVARIANT TakeAssertHolds
