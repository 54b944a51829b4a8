---------------------------- MODULE ReviewLedger ----------------------------
(***************************************************************************)
(* What the review promises: the recommendation of a source file is        *)
(* written by an analysis, pending, and a human's decision changes its     *)
(* status and nothing else.  Each happens in one step, and each analysis   *)
(* and each decision at most once.                                         *)
(***************************************************************************)
CONSTANTS
  Files,      \* the source files of a project
  Analyses,   \* executions of a file's analysis
  Decisions,  \* POST .../decision requests
  FileOf,     \* the file of each of them
  Earlier,    \* analyses written before, at most one of a file
  Nobody

VARIABLES
  docs,     \* the recommendation of every file: its author and its status
  written,  \* the analyses that have written theirs
  decided   \* the decisions that have been made

ledger == <<docs, written, decided>>

HumanReviewStatus == {"pending", "approved", "rejected"}
NoDoc == [by |-> Nobody, status |-> "pending"]

Init ==
  /\ docs = [f \in Files |->
       IF \E a \in Earlier : FileOf[a] = f
       THEN [by |-> CHOOSE a \in Earlier : FileOf[a] = f, status |-> "pending"]
       ELSE NoDoc]
  /\ written = Earlier
  /\ decided = {}

Analyse(a) ==
  /\ a \notin written
  /\ docs' = [docs EXCEPT ![FileOf[a]] = [by |-> a, status |-> "pending"]]
  /\ written' = written \cup {a}
  /\ UNCHANGED decided

Decide(d) ==
  /\ d \notin decided
  /\ docs[FileOf[d]].by # Nobody
  /\ \E status \in {"approved", "rejected"} :
       docs' = [docs EXCEPT ![FileOf[d]].status = status]
  /\ decided' = decided \cup {d}
  /\ UNCHANGED written

Next ==
  \/ \E a \in Analyses : Analyse(a)
  \/ \E d \in Decisions : Decide(d)

Spec == Init /\ [][Next]_ledger
=============================================================================
