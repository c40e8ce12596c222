\* Up to three threads, each given to three callers.
CONSTANTS
  MaxThreads = 3
  MaxGiven = 3
SPECIFICATION LiveSpec
INVARIANTS LoopsUsable Balanced NoStuckJoin
PROPERTIES StartReturns JoinReturns
