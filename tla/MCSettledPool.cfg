SPECIFICATION FairSpec
CONSTANTS
  w1 = w1
  w2 = w2
  w3 = w3
  Workers <- MCWorkers
  Last = 4
CHECK_DEADLOCK FALSE
INVARIANTS
  EachItemOnce
PROPERTY PoolSettles
