--------------------------- MODULE MCInProcessRun ---------------------------
(* Two triggers are enough to race for the slot, to follow one another and to
   meet a crash between them. *)
EXTENDS InProcessRun, TLC

CONSTANTS c1, c2

MCCalls == {c1, c2}

CallSymmetry == Permutations(MCCalls)
=============================================================================
