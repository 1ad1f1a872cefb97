SPECIFICATION MCSpec
CONSTANTS
  Takes = 6
  Limit = 2
  Window = 3
  Early = 1
  MaxLate = 2
  MaxClock = 6
  MaxResets = 2
  \* A reading lasts a day, the premium longer, and the clock sees two midnights.
  Procs = {"server"}
  Retry = 1
  Ttl = 2
  ErpTtl = 3
  Midnight = 2
  MaxTime = 4
  MaxRestarts = 1
INVARIANTS
  AtMostLimitPerWindow
  RatesAreReadings
PROPERTIES
  EveryCallGetsThrough
CHECK_DEADLOCK FALSE
