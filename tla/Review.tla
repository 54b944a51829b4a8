------------------------------- MODULE Review -------------------------------
(***************************************************************************)
(* The structure and the recommendation document of every source file, and *)
(* those that read and write them at the same time: the two analysis       *)
(* stages (agents/cobol_structural, agents/recommendation), humans'        *)
(* decisions (recommendation_service), the epic writer's summaries         *)
(* (agents/epic_story_writer), and the code generations of one story       *)
(* (agents/codegen) that must find its programs approved, as must the list *)
(* of eligible stories (codegen_bff).                                      *)
(*                                                                         *)
(* A source file is analysed once, and again when the broker delivers the  *)
(* message of a stage a second time.  An exception ends a task or request; *)
(* where it has written nothing, or nobody learns of the end, that is the  *)
(* same as never going on, which nothing here obliges it to.  A program's  *)
(* text is known by who wrote it.                                          *)
(***************************************************************************)
EXTENDS Naturals, Sequences, FiniteSets

CONSTANTS
  Files, Programs, Analyses, Decisions,
  Summaries,   \* epic writing tasks, each as far as one structure goes
  Runs,        \* code generations of the story
  FileOf,      \* the file of an analysis, a decision and a summary
  ProgramOf,   \* program_id of a file, not unique
  Story,       \* source_program_ids of the story
  Earlier,     \* analyses that ended before, at most one of a file
  Nobody

ASSUME FileOfAssumption == FileOf \in [Analyses \cup Decisions \cup Summaries -> Files]
ASSUME ProgramOfAssumption == ProgramOf \in [Files -> Programs]
ASSUME StoryAssumption == Story \in Seq(Programs) /\ Story # <<>>
ASSUME ReviewersAssumption ==
  /\ Nobody \notin Analyses
  /\ Analyses \cap Decisions = {} /\ Analyses \cap Summaries = {} /\ Analyses \cap Runs = {}
  /\ Decisions \cap Summaries = {} /\ Decisions \cap Runs = {} /\ Summaries \cap Runs = {}
ASSUME EarlierAssumption ==
  /\ Earlier \subseteq Analyses
  /\ \A a, b \in Earlier : FileOf[a] = FileOf[b] => a = b

VARIABLES
  structs,   \* the cobol_program_structure documents
  recs,      \* the migration_recommendation documents
  clock,     \* the last updated_at of a recommendation
  at,        \* where every task and request is
  copy,      \* the document, or its revision, a task or request has read
  decided,   \* history: the decisions that were written
  audited,   \* the decisions with an audit event
  run,       \* what a code generation has found so far
  approved   \* history: analyses approved at a moment since the run started

vars == <<structs, recs, clock, at, copy, decided, audited, run, approved>>

-----------------------------------------------------------------------------
(* Documents *)

Author == Analyses \cup {Nobody}
Structure == [rev: Nat, by: Author, summary: BOOLEAN]
Recommendation ==
  [rev: Nat, by: Author, from: Author, updated: Nat,
   status: {"pending", "approved", "rejected"}]
NoStructure == [rev |-> 0, by |-> Nobody, summary |-> FALSE]
NoRecommendation ==
  [rev |-> 0, by |-> Nobody, from |-> Nobody, updated |-> 0, status |-> "pending"]

Exists(doc) == doc.by # Nobody
FilesOf(p) == {f \in Files : ProgramOf[f] = p}

\* What couchdb_write remembers of the document under the deterministic id,
\* and what a recommendation will be about.
Target == [rev: Nat, from: Author]
NoTarget == [rev |-> 0, from |-> Nobody]

Goto(p, place) == at' = [at EXCEPT ![p] = place]
Hold(p, value) == copy' = [copy EXCEPT ![p] = value]

\* CouchDB refuses a put that does not carry the current revision.
Accepts(doc, rev) == doc.rev = rev

-----------------------------------------------------------------------------
(* The two stages of an analysis *)

\* couchdb_write reads the document that is to be replaced ...
FindStructure(a) ==
  /\ at[a] = "queued"
  /\ Hold(a, [rev |-> structs[FileOf[a]].rev, from |-> Nobody])
  /\ Goto(a, "putStructure")
  /\ UNCHANGED <<structs, recs, clock, decided, audited, run>>

\* ... and puts the new one over it, without the summary the old one had.
PutStructure(a) ==
  /\ at[a] = "putStructure"
  /\ Accepts(structs[FileOf[a]], copy[a].rev)
  /\ structs' = [structs EXCEPT ![FileOf[a]] =
                   [rev |-> @.rev + 1, by |-> a, summary |-> FALSE]]
  /\ Hold(a, NoTarget)
  /\ Goto(a, "structured")
  /\ UNCHANGED <<recs, clock, decided, audited, run>>

\* run_recommendation reads the structure by its id, also when only its own
\* message is delivered again.
ReadStructure(a) ==
  /\ \/ at[a] = "structured"
     \/ at[a] = "queued" /\ Exists(structs[FileOf[a]])
  /\ Hold(a, [rev |-> 0, from |-> structs[FileOf[a]].by])
  /\ Goto(a, "recommending")
  /\ UNCHANGED <<structs, recs, clock, decided, audited, run>>

FindRecommendation(a) ==
  /\ at[a] = "recommending"
  /\ Hold(a, [copy[a] EXCEPT !.rev = recs[FileOf[a]].rev])
  /\ Goto(a, "putRecommendation")
  /\ UNCHANGED <<structs, recs, clock, decided, audited, run>>

\* Mutant: a repeated analysis leaves the human's decision in place.
KeepsDecision(a, doc) ==
  [rev |-> doc.rev + 1, by |-> a, from |-> copy[a].from, updated |-> clock + 1,
   status |-> doc.status]

\* human_review_status: "pending", whatever stood there before.
Recommended(a, doc) ==
  [rev |-> doc.rev + 1, by |-> a, from |-> copy[a].from, updated |-> clock + 1,
   status |-> "pending"]

PutRecommendation(a) ==
  /\ at[a] = "putRecommendation"
  /\ Accepts(recs[FileOf[a]], copy[a].rev)
  /\ recs' = [recs EXCEPT ![FileOf[a]] = Recommended(a, @)]
  /\ clock' = clock + 1
  /\ Hold(a, NoTarget)
  /\ Goto(a, "done")
  /\ UNCHANGED <<structs, decided, audited, run>>

AnalysisConflict(a) ==
  /\ \/ at[a] = "putStructure" /\ ~Accepts(structs[FileOf[a]], copy[a].rev)
     \/ at[a] = "putRecommendation" /\ ~Accepts(recs[FileOf[a]], copy[a].rev)
  /\ Hold(a, NoTarget)
  /\ Goto(a, "failed")
  /\ UNCHANGED <<structs, recs, clock, decided, audited, run>>

Analysis(a) ==
  \/ FindStructure(a) \/ PutStructure(a) \/ ReadStructure(a)
  \/ FindRecommendation(a) \/ PutRecommendation(a) \/ AnalysisConflict(a)

-----------------------------------------------------------------------------
(* record_decision *)

\* A missing document is a 404.
ReadForDecision(d) ==
  /\ at[d] = "queued"
  /\ IF Exists(recs[FileOf[d]])
     THEN Hold(d, recs[FileOf[d]]) /\ Goto(d, "put")
     ELSE Goto(d, "refused") /\ UNCHANGED copy
  /\ UNCHANGED <<structs, recs, clock, decided, audited, run>>

\* Mutant: the decision is stored as the caller spells it.
AsSpelled(doc, status) ==
  [doc EXCEPT !.rev = @ + 1, !.updated = clock + 1,
               !.status = IF status = "approved" THEN "approve" ELSE "reject"]

Decided(doc, status) ==
  [doc EXCEPT !.rev = @ + 1, !.updated = clock + 1, !.status = status]

\* The whole document goes back, on the revision that was read.
PutDecision(d) ==
  /\ at[d] = "put"
  /\ Accepts(recs[FileOf[d]], copy[d].rev)
  /\ \E status \in {"approved", "rejected"} :
       recs' = [recs EXCEPT ![FileOf[d]] = Decided(copy[d], status)]
  /\ clock' = clock + 1
  /\ decided' = decided \cup {d}
  /\ Hold(d, NoRecommendation)
  /\ \E place \in {"audit", "refused"} : Goto(d, place)  \* the reply may be lost
  /\ UNCHANGED <<structs, audited, run>>

AuditDecision(d) ==
  /\ at[d] = "audit"
  /\ \/ audited' = audited \cup {d} /\ Goto(d, "answered")
     \/ audited' = audited /\ Goto(d, "refused")
  /\ UNCHANGED <<structs, recs, clock, copy, decided, run>>

\* A conflict is not retried.
DecisionConflict(d) ==
  /\ at[d] = "put"
  /\ ~Accepts(recs[FileOf[d]], copy[d].rev)
  /\ Hold(d, NoRecommendation)
  /\ Goto(d, "refused")
  /\ UNCHANGED <<structs, recs, clock, decided, audited, run>>

Decision(d) ==
  ReadForDecision(d) \/ PutDecision(d) \/ AuditDecision(d) \/ DecisionConflict(d)

-----------------------------------------------------------------------------
(* _understand_program of the epic writer *)

\* The structures of all recommendations are read before the first is
\* summarised; one that has a summary is left alone.
ReadForSummary(w) ==
  /\ at[w] = "queued"
  /\ Exists(recs[FileOf[w]])
  /\ IF structs[FileOf[w]].summary
     THEN Goto(w, "done") /\ UNCHANGED copy
     ELSE Hold(w, structs[FileOf[w]]) /\ Goto(w, "put")
  /\ UNCHANGED <<structs, recs, clock, decided, audited, run>>

PutSummary(w) ==
  /\ at[w] = "put"
  /\ IF Accepts(structs[FileOf[w]], copy[w].rev)
     THEN /\ structs' = [structs EXCEPT ![FileOf[w]] =
                           [copy[w] EXCEPT !.rev = @ + 1, !.summary = TRUE]]
          /\ Goto(w, "done")
     ELSE Goto(w, "failed") /\ UNCHANGED structs
  /\ Hold(w, NoStructure)
  /\ UNCHANGED <<recs, clock, decided, audited, run>>

Summary(w) == ReadForSummary(w) \/ PutSummary(w)

-----------------------------------------------------------------------------
(* run_codegen, from the story to the commit *)

Becomes(r, state) == run' = [run EXCEPT ![r] = state]
NewRun ==
  [next |-> 1, todo |-> {}, found |-> {}, pick |-> Nobody, file |-> Nobody, text |-> Nobody]

MostRecent(files) == CHOOSE f \in files : \A g \in files : recs[g].updated <= recs[f].updated

\* resolve_approved_recommendation: all structures with the program's id ...
FindStructures(r) ==
  /\ at[r] = "queued"
  /\ LET found == {f \in FilesOf(Story[run[r].next]) : Exists(structs[f])} IN
     IF found = {} THEN Goto(r, "failed") /\ UNCHANGED run
     ELSE /\ Becomes(r, [run[r] EXCEPT !.todo = found, !.found = {}])
          /\ Goto(r, "checking")
  /\ UNCHANGED <<structs, recs, clock, copy, decided, audited>>

\* ... then one structure's recommendation after the other ...
CheckFile(r) ==
  /\ at[r] = "checking"
  /\ \E f \in run[r].todo :
       Becomes(r, [run[r] EXCEPT
         !.todo = @ \ {f},
         !.found = IF recs[f].status = "approved"
                   THEN @ \cup {[file |-> f, by |-> recs[f].by, updated |-> recs[f].updated]}
                   ELSE @])
  /\ UNCHANGED <<structs, recs, clock, at, copy, decided, audited>>

\* Mutant: the first program speaks for the others.
FirstOnly(r) == TRUE
LastProgram(r) == run[r].next = Len(Story)

\* ... and the most recent approved one is used, for the first program; the
\* other programs only have to have one.
JudgeProgram(r) ==
  /\ at[r] = "checking"
  /\ run[r].todo = {}
  /\ IF run[r].found = {} THEN Goto(r, "failed") /\ UNCHANGED run
     ELSE LET best == CHOOSE x \in run[r].found :
                        \A y \in run[r].found : y.updated <= x.updated
          IN /\ Becomes(r, [run[r] EXCEPT
                  !.next = IF LastProgram(r) THEN @ ELSE @ + 1,
                  !.found = {},
                  !.pick = IF run[r].next = 1 THEN best.by ELSE @,
                  !.file = IF run[r].next = 1 THEN best.file ELSE @])
             /\ Goto(r, IF LastProgram(r) THEN "approved" ELSE "queued")
  /\ UNCHANGED <<structs, recs, clock, copy, decided, audited>>

\* Mutant: the structure is looked up by the program's id.
OfThatProgram(r) == {f \in FilesOf(Story[1]) : Exists(structs[f])}

\* The structure the recommendation names (subject_id).
Subject(r) == {run[r].file}

ReadSubject(r) ==
  /\ at[r] = "approved"
  /\ \E f \in Subject(r) :
       IF structs[f].summary
       THEN /\ Becomes(r, [run[r] EXCEPT !.text = structs[f].by])
            /\ Goto(r, "generating")
       ELSE Goto(r, "failed") /\ UNCHANGED run
  /\ UNCHANGED <<structs, recs, clock, copy, decided, audited>>

\* The generation takes minutes, and nothing is read again after it.
CommitCode(r) ==
  /\ at[r] = "generating"
  /\ Goto(r, "committed")
  /\ UNCHANGED <<structs, recs, clock, copy, decided, audited, run>>

Generation(r) ==
  FindStructures(r) \/ CheckFile(r) \/ JudgeProgram(r) \/ ReadSubject(r) \/ CommitCode(r)

-----------------------------------------------------------------------------

Processes == Analyses \cup Decisions \cup Summaries \cup Runs
Place ==
  {"queued", "putStructure", "structured", "recommending", "putRecommendation",
   "put", "audit", "checking", "approved", "generating",
   "done", "failed", "refused", "answered", "committed"}

EarlierOf(f) == {a \in Earlier : FileOf[a] = f}

\* What was analysed before is not reviewed yet, and summarised unless a task
\* is still to do it.
Init ==
  /\ structs = [f \in Files |->
       IF EarlierOf(f) = {} THEN NoStructure
       ELSE [rev |-> 1, by |-> CHOOSE a \in EarlierOf(f) : TRUE,
             summary |-> \A w \in Summaries : FileOf[w] # f]]
  /\ recs = [f \in Files |->
       IF EarlierOf(f) = {} THEN NoRecommendation
       ELSE LET a == CHOOSE x \in EarlierOf(f) : TRUE
            IN [rev |-> 1, by |-> a, from |-> a, updated |-> 0, status |-> "pending"]]
  /\ clock = 0
  /\ at = [p \in Processes |-> IF p \in Earlier THEN "done" ELSE "queued"]
  /\ copy = [p \in Analyses \cup Decisions \cup Summaries |->
               CASE p \in Analyses  -> NoTarget
                 [] p \in Decisions -> NoRecommendation
                 [] p \in Summaries -> NoStructure]
  /\ decided = {}
  /\ audited = {}
  /\ run = [r \in Runs |-> NewRun]
  /\ approved = [r \in Runs |-> {}]

Step ==
  \/ \E a \in Analyses : Analysis(a)
  \/ \E d \in Decisions : Decision(d)
  \/ \E w \in Summaries : Summary(w)
  \/ \E r \in Runs : Generation(r)

ApprovedNow == {recs[f].by : f \in {g \in Files : recs[g].status = "approved"}}

\* The history variable: a run has started once it has looked for a program.
Remember ==
  approved' = [r \in Runs |->
    IF at'[r] = "queued" /\ run'[r].next = 1 THEN {}
    ELSE approved[r] \cup ApprovedNow \cup ApprovedNow']

Next == Step /\ Remember

Spec == Init /\ [][Next]_vars

-----------------------------------------------------------------------------
(* The list of eligible stories *)

Documents == {f \in Files : Exists(recs[f])}

\* Mutant: the first recommendation of a program instead of the latest.
OldestOf(docs, p) ==
  CHOOSE f \in docs \cap FilesOf(p) :
    \A g \in docs \cap FilesOf(p) : recs[f].updated <= recs[g].updated

\* by_program_id: the latest recommendation fetched for a program.
LatestOf(docs, p) == MostRecent(docs \cap FilesOf(p))

\* list_eligible_stories shows the story: all its programs are approved, among
\* the recommendations its query, which has a limit, returned.
Listed(docs) ==
  \A i \in DOMAIN Story :
    /\ docs \cap FilesOf(Story[i]) # {}
    /\ recs[LatestOf(docs, Story[i])].status = "approved"

\* The files run_codegen finds approved for a program if it asks now.
ApprovedFiles(p) ==
  {f \in FilesOf(p) : Exists(structs[f]) /\ recs[f].status = "approved"}

-----------------------------------------------------------------------------
(* Properties *)

\* Documents and local states are well formed, and the audit log has events
\* of decisions that were written, and of all that were answered.
TypeOK ==
  /\ structs \in [Files -> Structure]
  /\ recs \in [Files -> Recommendation]
  /\ clock \in Nat
  /\ at \in [Processes -> Place]
  /\ \A a \in Analyses : copy[a] \in Target
  /\ \A d \in Decisions : copy[d] \in Recommendation
  /\ \A w \in Summaries : copy[w] \in Structure
  /\ audited \subseteq decided /\ decided \subseteq Decisions
  /\ {d \in Decisions : at[d] = "answered"} \subseteq audited
  /\ \A r \in Runs : run[r].next \in DOMAIN Story /\ approved[r] \subseteq Author

\* Whatever races, a decision is about the recommendation it was read with
\* and changes nothing else, an analysis starts the review afresh, and
\* neither undoes what it has not seen.
Ledger == INSTANCE ReviewLedger WITH
  docs <- [f \in Files |-> [by |-> recs[f].by, status |-> recs[f].status]],
  written <- {a \in Analyses : at[a] = "done"}

ImplementsLedger == Ledger!Spec

\* No code without approval: while a run was under way, a human's approval
\* stood for the very recommendation it took, and for one of every other
\* program of the story; and it read the structure of that recommendation's
\* file, not of another file with the same program_id.
CodeHasApproval ==
  \A r \in Runs : at[r] = "committed" =>
    /\ run[r].pick \in approved[r]
    /\ \A i \in DOMAIN Story :
         \E a \in approved[r] : ProgramOf[FileOf[a]] = Story[i]
    /\ FileOf[run[r].text] = FileOf[run[r].pick]

\* The two joins of stories and approvals agree: what the list offers, a task
\* started at once accepts, even if the list's query left documents out; and
\* if it left out none, the target it shows is the one that is generated.
ListedIsAccepted ==
  \A docs \in SUBSET Documents : Listed(docs) =>
    /\ \A i \in DOMAIN Story : ApprovedFiles(Story[i]) # {}
    /\ docs = Documents =>
         LatestOf(docs, Story[1]) = MostRecent(ApprovedFiles(Story[1]))
=============================================================================
