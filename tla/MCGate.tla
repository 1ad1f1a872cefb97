------------------------------- MODULE MCGate -------------------------------
(***************************************************************************)
(* The gate with two slots and five callers: enough for a queue of three   *)
(* behind a full gate, so that a hand-over, a second one before the first  *)
(* has resumed, and a late acquire between them all happen.                *)
(***************************************************************************)
EXTENDS Gate

=============================================================================
