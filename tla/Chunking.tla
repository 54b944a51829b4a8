------------------------------ MODULE Chunking -------------------------------
(***************************************************************************)
(* How a long text is cut into chunks: the loop of build_chunks            *)
(* (agents/ingestion_chunking/chunker.py), one turn at a time.  Intake     *)
(* lets the ingestion task take the turns, Analysis cuts texts of every    *)
(* shape.                                                                  *)
(***************************************************************************)
EXTENDS Integers, Sequences, FiniteSetsExt

CONSTANTS
  LineBudget, OverlapLines   \* COBOL_LINE_BUDGET, OVERLAP_LINES

ASSUME ChunkingAssumption == LineBudget \in Nat \ {0} /\ OverlapLines \in Nat

\* A text is known by how many lines it has and by the lines, from 0, at which
\* a paragraph starts.
IsText(text) == text.lines \in Nat /\ text.headers \subseteq 0 .. text.lines - 1

\* chunking_required
ChunkingRequired(text) == text.lines > LineBudget

Boundaries(text) ==
  IF text.headers # {} THEN text.headers
  ELSE {i \in 0 .. text.lines - 1 : i % LineBudget = 0}

\* Mutant: the end of the text does not end the last chunk.
BudgetEnd(text, start) == start + LineBudget

TargetEnd(text, start) == Min({start + LineBudget, text.lines})

\* Mutant: chunks end where the budget does.
EndAtBudget(text, start) == TargetEnd(text, start)

\* The last boundary in reach, or else the end of the budget.
EndOf(text, start) ==
  LET candidates == {b \in Boundaries(text) : start < b /\ b <= TargetEnd(text, start)}
  IN IF candidates = {} THEN TargetEnd(text, start) ELSE Max(candidates)

\* Where chunk i of those cut so far ends, and how far they reach together.
End(cut, i) == IF i = 0 THEN 0 ELSE cut[i].end_line
Reached(cut) == End(cut, Len(cut))

ChunkFrom(text, start) ==
  [start_line |-> Max({0, start - OverlapLines}) + 1, end_line |-> EndOf(text, start)]

\* The loop goes on with the chunk that starts where the last one ended.
CutNext(text, cut) == Append(cut, ChunkFrom(text, Reached(cut)))
AtEnd(text, cut) == Reached(cut) >= text.lines

\* Chunk i ends in the text, has no more lines of its own than the budget, begins
\* with the end of the one before as far as there is one, and is cut in the middle
\* of a paragraph only where no paragraph starts within the budget.
WellCut(text, cut, i) ==
  LET start == End(cut, i - 1)
      end == End(cut, i)
  IN /\ end \in start + 1 .. start + LineBudget /\ end <= text.lines
     /\ start - cut[i].start_line + 1 = Min({OverlapLines, start})
     /\ \/ end \in text.headers \cup {text.lines}
        \/ \A h \in text.headers : h <= start \/ h > start + LineBudget

\* The chunks cut so far leave out no line up to where they reach.
Covers(text, cut) == \A i \in DOMAIN cut : WellCut(text, cut, i)
=============================================================================
