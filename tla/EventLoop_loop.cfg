\* Four functors from two callers and the thread of the loop.  No symmetry:
\* liveness is checked, under a fairness that leaves the poll timeout out.
CONSTANTS
  Loop = loop
  c1 = c1
  c2 = c2
  Callers <- MCCallers
  MaxFunctors = 4
SPECIFICATION LiveSpec
INVARIANTS NoLostWakeup NoLostQuit
PROPERTIES ImplementsExecutor QueuedIsExecuted QuitReturns EarlyIsExecuted
