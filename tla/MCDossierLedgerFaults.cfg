SPECIFICATION FairSpec
CONSTANTS
  a = a
  b = b
  tech = tech
  e1 = e1
  e2 = e2
  e3 = e3
  Companies = {a, b}
  Sectors = {}
  Entities = {e1}
  Jobs = {j1}
  Sync = Sync
  None = None
  NoRow = NoRow
  SectorsOf <- MCSectorsOf
  FirstRegistry <- Shared
  Ineligible = {}
  FaultKinds = {"server", "lost", "key", "die"}
  Overlapping = TRUE
  MaxChanges = 2
  MaxFaults = 1
  MaxMerges = 0
PROPERTIES WatchedIsServed
CHECK_DEADLOCK FALSE
