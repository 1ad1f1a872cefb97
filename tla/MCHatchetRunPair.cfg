SPECIFICATION FairSpec
CONSTANTS
  r1 = r1
  r2 = r2
  aapl = aapl
  msft = msft
  NoRun = NoRun
  Runs <- TwoRuns
  CronRuns <- OneRun
  Symbols <- OneSymbol
  Stages = 1
  Retries = 0
  ReferenceSize = 1
  MaxTimeouts = 0
  MaxBoots = 1
  MaxLost = 0
  MaxStops = 1
CHECK_DEADLOCK FALSE
PROPERTIES
  FirstCloserWins
  RowIsClosed
