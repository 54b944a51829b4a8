----------------------------- MODULE MCBacklog -----------------------------
(* Every run and every edit is of story s1.  At most MaxCallers of the      *)
(* callers begin, the second run and the second export after the first ones *)
(* (which is which does not matter), and the second fault is left to        *)
(* exports and edits.                                                       *)
EXTENDS Backlog

CONSTANTS
  s1, r1, r2, x1, x2,
  MaxCallers  \* bound: runs, edits and exports that begin

MCStoryOf == [w \in Runs \cup Edits |-> s1]

RunsBegun == {r \in Runs : at[r] # "queued"}
EditsBegun == {e \in Edits : edit[e].at # "new"}
ExportsBegun == {x \in Exports : export[x].at # "new"}

WithinBounds ==
  /\ Cardinality(RunsBegun) + Cardinality(EditsBegun) + Cardinality(ExportsBegun) <= MaxCallers
  /\ r2 \in RunsBegun => r1 \in RunsBegun
  /\ x2 \in ExportsBegun => x1 \in ExportsBegun
  /\ faults > 1 => RunsBegun = {}

MCNext == Next /\ WithinBounds'

\* No bound ever stops a run that has begun.
MCSpec == Init /\ [][MCNext]_vars /\ \A r \in Runs : WF_vars(RunStep(r))
=============================================================================
