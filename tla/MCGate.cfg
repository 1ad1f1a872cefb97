SPECIFICATION FairSpec
CONSTANTS
  Callers = {c1, c2, c3, c4, c5}
  Limit = 2
PROPERTIES
  NoStarvation
  ImplementsSemaphore
