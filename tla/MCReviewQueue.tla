---------------------------- MODULE MCReviewQueue ---------------------------
(* One file, its analysis, and two decisions on it.                          *)
EXTENDS ReviewQueue

CONSTANTS f1, a1, d1, d2

MCFileOf == [x \in Analyses \cup Decisions |-> f1]
=============================================================================
