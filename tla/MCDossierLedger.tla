--------------------------- MODULE MCDossierLedger ---------------------------
(* Two stocks, the first of which sits in a sector.                          *)
EXTENDS DossierLedger

CONSTANTS a, b, tech, e1, e2, e3

MCSectorsOf == [c \in Companies |-> IF c = a THEN Sectors ELSE {}]

(* A dual listing: both stocks are one entity to Distill. *)
Shared == [s \in Subjects |-> IF s = tech THEN e2 ELSE e1]

(* An entity for each subject. *)
Apart == [s \in Subjects |-> CASE s = a -> e1 [] s = b -> e3 [] s = tech -> e2]
=============================================================================
