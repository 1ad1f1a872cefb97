SPECIFICATION MCSpec
CONSTANTS
  Clicks = 2
  Terminals = {t1}
  Looks = {k1}
  Null = Null
  MaxRuns = 2
  MaxFaults = 2
  MaxNotes = 1
  \* From the last quarter of a fiscal year to the first after the next one: all
  \* four forms of a report, a year apart from its prior.  Any two of the things
  \* that go wrong.
  FirstQuarter = 0
  LastQuarter = 5
  Sales <- PowersOfTwo
  Correction = 16384
  Ratio = 2
  MaxUpsets = 2
INVARIANTS
  OneRunWorks
  WorkIsNotCalledDead
  FiguresAreOfTheirDay
PROPERTIES
  StatusSettles
CHECK_DEADLOCK FALSE
