------------------------------ MODULE MCReview ------------------------------
(* f1 and f2 are two uploads of program p, f3 is program q.  The message of *)
(* f1's analysis is delivered again, while its summary is being written.    *)
EXTENDS Review

CONSTANTS f1, f2, f3, p, q, a1, a2, a3, a4, d1, d2, d3, w1

MCFileOf ==
  [x \in Analyses \cup Decisions \cup Summaries |->
     CASE x \in {a1, a2, d1, w1} -> f1
       [] x \in {a3, d2} -> f2
       [] x \in {a4, d3} -> f3]
MCProgramOf == [f \in Files |-> IF f = f3 THEN q ELSE p]
MCStory == <<p, q>>
=============================================================================
