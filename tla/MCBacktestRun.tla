--------------------------- MODULE MCBacktestRun ---------------------------
(***************************************************************************)
(* Two starts of the server, a run from a terminal and one page that looks *)
(* again and again; one kill, one restart, one failed statement and one    *)
(* progress note a run.                                                    *)
(*                                                                         *)
(* Or a company that files, and what a run reads of it: the two share no   *)
(* state, so a behaviour is one of either, while the other stays as it     *)
(* began.                                                                  *)
(***************************************************************************)
EXTENDS BacktestRun

VARIABLE part

facts == <<now, revenue, diluted, sold, tags, splits, due, upsets, restated>>

\* Each quarter sells a power of two: no two sums of quarters are alike.
PowersOfTwo == [q \in FirstQuarter - 7 .. LastQuarter |-> 2 ^ (q - FirstQuarter + 7)]

\* Only the chosen part has more than one beginning.
MCInit == /\ part \in {"runs", "facts"}
          /\ Init
          /\ Facts!Init /\ (part # "facts" => tags = {1})

InRuns == part = "runs" /\ UNCHANGED <<part, facts>>
InFacts == part = "facts" /\ UNCHANGED <<part, vars>>

MCNext == \/ InRuns /\ Next
          \/ InFacts /\ Facts!Next

MCSpec == /\ MCInit /\ [][MCNext]_<<part, vars, facts>>
          /\ part = "runs" => Fairness

-----------------------------------------------------------------------------
(* Not in the cfg: PointInTime says of both that they are violated, and in *)
(* the place of FiguresAreOfTheirDay TLC shows it.                         *)

SharesAreOnTodaysBasis == Facts!SharesAreOnTodaysBasis
GrowthIsOverAYear == Facts!GrowthIsOverAYear

=============================================================================
