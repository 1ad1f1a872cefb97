----------------------------- MODULE Semaphore -----------------------------
(***************************************************************************)
(* What the callers of a gate are promised, with the queue left out: at    *)
(* most Limit of them hold a slot, and a slot moves only by being taken    *)
(* while one is free, by being given back, or by passing from its holder   *)
(* to somebody who has none.                                               *)
(***************************************************************************)
EXTENDS Naturals, FiniteSets

CONSTANTS Callers, Limit

VARIABLE held

Init == held = {}

Take(c) ==
  /\ c \notin held
  /\ Cardinality(held) < Limit
  /\ held' = held \cup {c}

Give(c) ==
  /\ c \in held
  /\ held' = held \ {c}

Pass(c, d) ==
  /\ c \in held
  /\ d \notin held
  /\ held' = (held \ {c}) \cup {d}

Next ==
  \E c \in Callers :
    \/ Take(c)
    \/ Give(c)
    \/ \E d \in Callers : Pass(c, d)

Spec == Init /\ [][Next]_held

=============================================================================
