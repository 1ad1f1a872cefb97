SPECIFICATION Spec
CONSTANTS
  r1 = r1
  r2 = r2
  aapl = aapl
  msft = msft
  NoRun = NoRun
  Runs <- OneRun
  CronRuns <- OneRun
  Symbols <- TwoSymbols
  Stages = 2
  Retries = 0
  ReferenceSize = 1
  MaxTimeouts = 0
  MaxBoots = 0
  MaxLost = 0
  MaxStops = 1
CHECK_DEADLOCK FALSE
PROPERTIES
  StopReachesTheQueue
  StoppedRunIsSilent
