SPECIFICATION FairSpec
CONSTANTS
  a = a
  b = b
  tech = tech
  e1 = e1
  e2 = e2
  e3 = e3
  Companies = {a, b}
  Sectors = {tech}
  Entities = {e1, e2, e3}
  Jobs = {j1}
  Sync = Sync
  None = None
  NoRow = NoRow
  SectorsOf <- MCSectorsOf
  FirstRegistry <- Apart
  Ineligible = {e3}
  FaultKinds = {"server"}
  Overlapping = FALSE
  MaxChanges = 2
  MaxFaults = 1
  MaxMerges = 1
INVARIANTS OnIsRemembered
PROPERTIES UnwatchedGoesOff
CHECK_DEADLOCK FALSE
