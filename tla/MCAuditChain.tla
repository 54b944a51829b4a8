--------------------------- MODULE MCAuditChain ---------------------------
(* Two overlapping appends and a window smaller than the log can grow.     *)
EXTENDS AuditChain, TLC

Symmetry == Permutations(Appenders) \cup Permutations(Ids)
=============================================================================
