SPECIFICATION Spec
CONSTANTS
  r1 = r1
  r2 = r2
  aapl = aapl
  msft = msft
  NoRun = NoRun
  Runs <- OneRun
  CronRuns <- OneRun
  Symbols <- TwoSymbols
  Stages = 2
  Retries = 1
  ReferenceSize = 1
  MaxTimeouts = 1
  MaxBoots = 1
  MaxLost = 1
  MaxStops = 1
CHECK_DEADLOCK FALSE
SYMMETRY SymbolSymmetry
INVARIANTS
  OutcomesAddUp
  WholeWatchlistSettles
