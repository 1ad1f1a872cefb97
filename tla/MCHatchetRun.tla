---------------------------- MODULE MCHatchetRun ----------------------------
EXTENDS HatchetRun, TLC

CONSTANTS r1, r2, aapl, msft

OneRun     == {r1}
TwoRuns    == {r1, r2}
OneSymbol  == {aapl}
TwoSymbols == {aapl, msft}

SymbolSymmetry == Permutations({aapl, msft})
=============================================================================
