------------------------------ MODULE Analysis -------------------------------
(***************************************************************************)
(* The algorithms of the agents: how a long file is cut into chunks        *)
(* (agents/ingestion_chunking/chunker.py), how what a model extracted from *)
(* the chunks becomes one structure with a confidence (cobol_structural),  *)
(* how a recommendation gets its own (recommendation), and how programs    *)
(* are grouped into epics (epic_story_writer/clustering.py).               *)
(*                                                                         *)
(* A behaviour is one call of build_chunks, or the way of a project from   *)
(* what the models answer to its epics.  Scores are in thousandths.        *)
(***************************************************************************)
EXTENDS Chunking, FiniteSets, SequencesExt, Graphs

CONSTANTS
  MaxLines,     \* bound: lines of a file
  Programs,     \* program_ids, numbers for the sake of their order
  Extractions,  \* what a model may extract from a program's chunks, in order
  SelfChecks,   \* discrepancies it may find when it checks itself
  Outputs,      \* what it may recommend: a score, or Invalid
  Invalid,
  None

VARIABLES
  file,        \* the file build_chunks is called with
  chunks,      \* and its result
  structures,  \* cobol_program_structure of every program, or None, and (a
               \* history) what it was made from
  recs,        \* migration_recommendation of every program, or None
  epics        \* the epics written

vars == <<file, chunks, structures, recs, epics>>

-----------------------------------------------------------------------------
(* build_chunks *)

File == UNION {[lines: {n}, headers: SUBSET (0..(n - 1))] : n \in 0..MaxLines}

-----------------------------------------------------------------------------
(* merge_chunk_extractions, compute_structural_confidence *)

\* The version of a paragraph with more calls and performs wins, the first of
\* equals; a target may be listed twice.
Keep(paragraphs, new) ==
  LET same == SelectInSeq(paragraphs, LAMBDA old : old.name = new.name)
  IN IF same = 0 THEN Append(paragraphs, new)
     ELSE IF Len(new.targets) > Len(paragraphs[same].targets)
     THEN ReplaceAt(paragraphs, same, new)
     ELSE paragraphs

Merge(extractions) ==
  [copybooks |-> UNION {e.copybooks : e \in ToSet(extractions)},
   edges |-> UNION {ToSet(p.targets) : p \in ToSet(FoldLeft(Keep, <<>>,
               FlattenSeq([i \in DOMAIN extractions |-> extractions[i].paragraphs])))},
   unresolved |-> FoldLeft(LAMBDA sum, e : sum + e.unresolved, 0, extractions)]

StructuralScore(chunksUsed, discrepancies, unresolved) ==
  Max({0, 1000 - 30 * (chunksUsed - 1) - 100 * discrepancies - 50 * unresolved})

StructureFrom(extractions, discrepancies) ==
  LET merged == Merge(extractions)
      score == StructuralScore(Len(extractions), discrepancies, merged.unresolved)
  IN [copybooks |-> merged.copybooks, edges |-> merged.edges, score |-> score,
      from |-> extractions]

-----------------------------------------------------------------------------
(* check_output with max_retries = 1, cap_recommendation_confidence *)

Attempts(first, second) == SelectSeq(<<first, second>>, LAMBDA output : output # Invalid)

Cap(score, structure) == Min({score, structure.score})

-----------------------------------------------------------------------------
(* cluster_programs *)

\* _union: the loop halves the path on its way to the root, where its turns change
\* nothing any more.
Halve(found, turn) ==
  LET above == found.parent[found.parent[found.root]]
  IN [parent |-> [found.parent EXCEPT ![found.root] = above], root |-> above]

Find(parent, node) ==
  FoldLeft(Halve, [parent |-> parent, root |-> node], SetToSeq(DOMAIN parent))

\* Mutant: the second program itself is put under the first one's root.
ConnectNode(parent, pair) == [parent EXCEPT ![pair[2]] = Find(parent, pair[1]).root]

Connect(parent, pair) ==
  LET a == Find(parent, pair[1])
      b == Find(a.parent, pair[2])
  IN IF a.root = b.root THEN b.parent ELSE [b.parent EXCEPT ![a.root] = b.root]

Owners(ids, copybook) == SelectSeq(ids, LAMBDA p : copybook \in structures[p].copybooks)

Copybooks(ids) == UNION {structures[p].copybooks : p \in ToSet(ids)}

\* The first owner of a copybook is connected with all others ...
SharedCopybooks(ids) ==
  FlattenSeq(SetToSeq({[i \in 1..(Len(Owners(ids, c)) - 1) |->
                          <<Owners(ids, c)[1], Owners(ids, c)[i + 1]>>] : c \in Copybooks(ids)}))

\* ... and a program with those it calls or performs.
Calls(ids) ==
  SetToSeq({e \in ToSet(ids) \X ToSet(ids) : e[2] \in structures[e[1]].edges})

Clusters(ids) ==
  LET parent == FoldLeft(Connect, [p \in ToSet(ids) |-> p], SharedCopybooks(ids) \o Calls(ids))
      members == {{p \in ToSet(ids) : Find(parent, p).root = r} :
                    r \in {Find(parent, p).root : p \in ToSet(ids)}}
  IN SetToSortSeq(members, LAMBDA c, d : Min(c) < Min(d))

EpicOf(cluster) ==
  [members |-> cluster, score |-> Min({Cap(recs[p], structures[p]) : p \in cluster})]

-----------------------------------------------------------------------------

NoFile == [lines |-> 0, headers |-> {}]

Init ==
  /\ file = NoFile
  /\ chunks = <<>>
  /\ structures = [p \in Programs |-> None]
  /\ recs = [p \in Programs |-> None]
  /\ epics = None

SplitFile ==
  /\ file = NoFile /\ \A p \in Programs : structures[p] = None
  /\ file' \in File \ {NoFile}
  /\ UNCHANGED <<chunks, structures, recs, epics>>

CutChunk ==
  /\ ChunkingRequired(file)
  /\ ~AtEnd(file, chunks)
  /\ chunks' = CutNext(file, chunks)
  /\ UNCHANGED <<file, structures, recs, epics>>

\* Every program's pipeline is on its own: here one follows the other.
AnalyseProgram(p) ==
  /\ file = NoFile /\ epics = None
  /\ structures[p] = None
  /\ \A q \in Programs : q < p => structures[q] # None
  /\ \E extractions \in Extractions, discrepancies \in SelfChecks :
       structures' = [structures EXCEPT ![p] = StructureFrom(extractions, discrepancies)]
  /\ UNCHANGED <<file, chunks, recs, epics>>

\* Two outputs that do not fit the schema end the task.
Recommend(p) ==
  /\ epics = None /\ structures[p] # None /\ recs[p] = None
  /\ \A q \in Programs : q > p => structures[q] = None
  /\ \E first, second \in Outputs :
       LET valid == Attempts(first, second)
       IN valid # <<>> /\ recs' = [recs EXCEPT ![p] = Cap(Head(valid), structures[p])]
  /\ UNCHANGED <<file, chunks, structures, epics>>

\* Programs come in the order the query has them in.
WriteEpics ==
  /\ epics = None /\ \A p \in Programs : structures[p] # None
  /\ \E ids \in SetToSeqs({p \in Programs : recs[p] # None}) :
       epics' = [i \in DOMAIN Clusters(ids) |-> EpicOf(Clusters(ids)[i])]
  /\ UNCHANGED <<file, chunks, structures, recs>>

Next ==
  \/ SplitFile \/ CutChunk
  \/ \E p \in Programs : AnalyseProgram(p) \/ Recommend(p)
  \/ WriteEpics

Spec == Init /\ [][Next]_vars

-----------------------------------------------------------------------------
(* Properties *)

\* Whatever the paragraphs are like, the chunks of a long file leave out no
\* line, have no more lines of their own than the budget, overlap, and are cut in
\* the middle of a paragraph only where no paragraph starts within the budget.
\* A short file has none.
ChunksCoverTheFile ==
  IF ChunkingRequired(file) THEN Covers(file, chunks) ELSE chunks = <<>>

\* The busiest version of every paragraph any chunk showed, the first of
\* several.
Versions(p) ==
  FlattenSeq([i \in DOMAIN structures[p].from |-> structures[p].from[i].paragraphs])
CalledBy(p) ==
  LET v == Versions(p) IN
  UNION {ToSet(v[i].targets) : i \in {j \in DOMAIN v : \A k \in DOMAIN v : v[k].name = v[j].name =>
    LET busier == Len(v[k].targets) - Len(v[j].targets)
    IN busier < 0 \/ (busier = 0 /\ j <= k)}}
CopiedBy(p) == UNION {e.copybooks : e \in ToSet(structures[p].from)}

Related(p, q) ==
  q \in CalledBy(p) \/ p \in CalledBy(q) \/ CopiedBy(p) \cap CopiedBy(q) # {}

\* In whatever order the programs come, the epics are the connected
\* components of the programs that have a recommendation, by what the chunks
\* showed, in a stable order; and an epic is trusted no more than the structure of
\* any of its programs.
EpicsAreComponents ==
  epics # None =>
    LET ids == {p \in Programs : recs[p] # None}
        connected == ConnectionsIn(
          [node |-> ids, edge |-> {e \in ids \X ids : Related(e[1], e[2])}])
    IN /\ {e.members : e \in ToSet(epics)} = {{q \in ids : connected[p, q]} : p \in ids}
       /\ \A i, j \in DOMAIN epics : i < j => Min(epics[i].members) < Min(epics[j].members)
       /\ \A e \in ToSet(epics), p \in Programs : p \in e.members =>
            e.score <= structures[p].score
=============================================================================
