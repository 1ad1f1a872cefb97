---------------------------- MODULE MCRateWindow ----------------------------
(***************************************************************************)
(* Two calls a window of three ticks, six calls: the third waits, the      *)
(* rest queue behind it, and calls of three windows overlap.  Timers fire  *)
(* up to one tick early and up to two late, and there are two resets.      *)
(*                                                                         *)
(* Or the rates of one process: the two share no state, so a behaviour is  *)
(* one of either, while the other stays as it began.                       *)
(***************************************************************************)
EXTENDS RateWindow

VARIABLE part

rates == <<clock, recorded, ratesCache, lastObserved, erpCache, seeded, ratesInFlight, refresh, restarts>>

MCInit == part \in {"window", "rates"} /\ Init /\ Market!Init

InWindow == part = "window" /\ UNCHANGED <<part, rates>>
InRates == part = "rates" /\ UNCHANGED <<part, vars>>

MCNext == \/ InWindow /\ Next
          \/ InRates /\ Market!Next

MCSpec == /\ MCInit /\ [][MCNext]_<<part, vars, rates>>
          /\ part = "window" => Fairness

=============================================================================
