SPECIFICATION FairSpec
CONSTANTS
  c1 = c1
  c2 = c2
  NoRun = NoRun
  Calls <- MCCalls
  WatchlistSize = 2
  ReferenceSize = 1
  MaxCrashes = 1
CHECK_DEADLOCK FALSE
INVARIANTS
  OneRunUnlessRaced
  RowsTellTheTruth
PROPERTIES StopIsKept SlotIsFreed
