------------------------------ MODULE MCIntake ------------------------------
(* An upload of two files, one to be chunked, a mainframe pull, a listing;  *)
(* and, on their own, the algorithms of Analysis: two systems that share    *)
(* nothing, of which one acts while the other has not begun.  For these,    *)
(* three programs, two copybooks, and extractions of one to three chunks,   *)
(* which may show different versions of one paragraph.                      *)
EXTENDS Intake

CONSTANTS u1, p1, l1

MCFileCount == [r \in {u1, p1} |-> IF r = u1 THEN 2 ELSE 1]
MCText ==
  [f \in Files |-> IF f = <<u1, 1>> THEN [lines |-> 3, headers |-> {2}]
                   ELSE [lines |-> 1, headers |-> {}]]

-----------------------------------------------------------------------------

CONSTANTS MaxLines, Programs, Extractions, SelfChecks, Outputs, Invalid, None
VARIABLES file, cut, structures, recs, epics

Algorithms == INSTANCE Analysis WITH chunks <- cut, LineBudget <- 4, OverlapLines <- 2

One(copybooks, name, targets) ==
  [copybooks |-> copybooks, paragraphs |-> <<[name |-> name, targets |-> targets]>>,
   unresolved |-> 0]

MCExtractions == {
  <<One({}, "main", <<>>)>>,
  <<One({"a"}, "main", <<>>)>>,
  <<One({"b"}, "main", <<1>>)>>,
  <<[One({"a"}, "main", <<2>>) EXCEPT !.unresolved = 3]>>,
  <<One({"a"}, "main", <<>>), One({"b"}, "calc", <<>>)>>,
  <<One({}, "main", <<1>>), One({}, "main", <<2, 3>>)>>,
  <<One({}, "main", <<3, 3>>), One({"b"}, "main", <<1>>)>>,
  <<One({}, "main", <<2>>), One({}, "main", <<1, 3>>), One({"a"}, "exit", <<>>)>> }

own == <<file, cut, structures, recs, epics>>

\* Nothing has been asked of the algorithms, or of the intake.
Fresh == file.lines = 0 /\ \A p \in Programs : structures[p] = None
Unasked == \A r \in Requests : request[r].at = "new"

MCInit == Init /\ Algorithms!Init
MCNext ==
  \/ Fresh /\ Next /\ UNCHANGED own
  \/ Unasked /\ Algorithms!Next /\ UNCHANGED vars

MCSpec == MCInit /\ [][MCNext]_<<vars, own>>

\* Analysis' properties: the chunks of a file of up to MaxLines lines cover it ...
ChunksCoverTheFile == Algorithms!ChunksCoverTheFile

\* ... and epics are the connected components of the programs.
EpicsAreComponents == Algorithms!EpicsAreComponents
=============================================================================
