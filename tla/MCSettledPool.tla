--------------------------- MODULE MCSettledPool ---------------------------
EXTENDS SettledPool

CONSTANTS w1, w2, w3

MCWorkers == {w1, w2, w3}
=============================================================================
