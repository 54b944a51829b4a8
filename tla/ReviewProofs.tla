---------------------------- MODULE ReviewProofs ----------------------------
(***************************************************************************)
(* What Review guarantees for every set of files, analyses, decisions,     *)
(* summaries and code generations, and every story.                        *)
(***************************************************************************)
EXTENDS Review, SequenceTheorems, WellFoundedInduction, TLAPS

-----------------------------------------------------------------------------
(* Lemmas about "the most recent" *)

\* Of times that do not exceed a bound, one is the latest.
LEMMA LatestExists ==
  ASSUME NEW S, S # {}, NEW time \in [S -> Nat], NEW bound \in Nat,
         \A x \in S : time[x] <= bound
  PROVE  \E x \in S : \A y \in S : time[y] <= time[x]
<1> DEFINE T == {bound - time[x] : x \in S}
<1>1. T \subseteq Nat /\ T # {}
  OBVIOUS
<1> HIDE DEF T
<1>2. PICK n \in T : \A m \in T : ~(<<m, n>> \in OpToRel(<, Nat))
  BY <1>1, NatLessThanWellFounded, WFMin, Zenon
<1>3. \A m \in T : ~(m < n)
  BY <1>1, <1>2 DEF OpToRel
<1>4. PICK x \in S : n = bound - time[x]
  BY DEF T
<1>5. ASSUME NEW y \in S
      PROVE  time[y] <= time[x]
  <2>1. bound - time[y] \in T
    BY DEF T
  <2>2. ~(bound - time[y] < bound - time[x])
    BY <2>1, <1>3, <1>4
  <2> QED
    BY <2>2
<1> QED
  BY <1>5

-----------------------------------------------------------------------------
(* The inductive invariant *)

Finding == [file: Files, by: Analyses, updated: Nat]
RunState ==
  [next: DOMAIN Story, todo: SUBSET Files, found: SUBSET Finding,
   pick: Author, file: Files \cup {Nobody}, text: Author]

Readers == Analyses \cup Decisions \cup Summaries
Holdable == Target \cup Recommendation \cup Structure

\* TypeOK, and what it leaves open about copies and runs.
Types ==
  /\ TypeOK
  /\ copy \in [Readers -> Holdable]
  /\ run \in [Runs -> RunState]
  /\ approved \in [Runs -> SUBSET Analyses]

\* A document was written by an analysis of its file, there is a structure
\* where there is a recommendation, and only updates get a time of their own.
DocumentsInv ==
  /\ \A f \in Files :
       /\ Exists(structs[f]) => FileOf[structs[f].by] = f
       /\ structs[f].summary => Exists(structs[f])
       /\ Exists(recs[f]) => FileOf[recs[f].by] = f /\ Exists(structs[f])
       /\ recs[f].status = "approved" => Exists(recs[f]) /\ recs[f].updated # 0
       /\ ~Exists(recs[f]) => recs[f].status = "pending"
       /\ recs[f].updated <= clock
  /\ \A f, g \in Files : recs[f].updated = recs[g].updated /\ recs[f].updated # 0 => f = g

\* Of an analysis past the structural stage the file has a structure.
StructuredInv ==
  \A a \in Analyses :
    at[a] \in {"structured", "recommending", "putRecommendation"} =>
      Exists(structs[FileOf[a]])

\* A document that was read is the current one or an older one.
IsCopy(c, doc) == c.rev <= doc.rev /\ (c.rev = doc.rev => c = doc)

CopiesInv ==
  /\ \A d \in Decisions : at[d] = "put" =>
       IsCopy(copy[d], recs[FileOf[d]]) /\ Exists(copy[d])
  /\ \A w \in Summaries : at[w] = "put" =>
       IsCopy(copy[w], structs[FileOf[w]]) /\ Exists(copy[w])

\* A request decides once.
DecidedInv ==
  \A d \in Decisions :
    /\ at[d] \in {"queued", "put"} => d \notin decided
    /\ at[d] \in {"audit", "answered"} => d \in decided

\* Program i of the story was found approved since run r started.
Found(r, i) == \E a \in approved[r] : ProgramOf[FileOf[a]] = Story[i]
Passed == {"approved", "generating", "committed"}

RunInv(r) ==
  /\ at[r] = "checking" =>
       /\ run[r].todo \subseteq FilesOf(Story[run[r].next])
       /\ \A x \in run[r].found :
            /\ x.by \in approved[r] /\ FileOf[x.by] = x.file /\ x.updated <= clock
            /\ ProgramOf[x.file] = Story[run[r].next]
  /\ at[r] \in Passed => run[r].next = Len(Story)
  /\ run[r].next # 1 \/ at[r] \in Passed =>
       run[r].pick \in approved[r] /\ run[r].file = FileOf[run[r].pick]
  /\ \A i \in DOMAIN Story : i < run[r].next \/ at[r] \in Passed => Found(r, i)
  /\ at[r] \in {"generating", "committed"} =>
       run[r].text \in Analyses /\ FileOf[run[r].text] = FileOf[run[r].pick]

RunsInv == \A r \in Runs : RunInv(r)

IInv == Types /\ DocumentsInv /\ StructuredInv /\ CopiesInv /\ DecidedInv /\ RunsInv

-----------------------------------------------------------------------------
(* What the documents' writers put is well formed *)

\* The fields of the documents.
LEMMA FieldTypes ==
  /\ NoTarget \in Target /\ NoStructure \in Structure /\ NoRecommendation \in Recommendation
  /\ \A t \in Target : t.rev \in Nat /\ t.from \in Author
  /\ \A doc \in Structure : doc.rev \in Nat /\ doc.by \in Author /\ doc.summary \in BOOLEAN
  /\ \A doc \in Recommendation :
       doc.rev \in Nat /\ doc.by \in Author /\ doc.from \in Author /\ doc.updated \in Nat
BY DEF Target, NoTarget, Structure, NoStructure, Recommendation, NoRecommendation, Author

\* What an analysis holds while it looks for the documents to replace.
LEMMA TargetTypes ==
  /\ \A n \in Nat, by \in Author : [rev |-> n, from |-> by] \in Target
  /\ \A t \in Target, n \in Nat : [t EXCEPT !.rev = n] \in Target
BY DEF Target

\* The recommendation an analysis puts.
LEMMA RecommendedFacts ==
  ASSUME NEW doc \in Recommendation, NEW a \in Analyses, copy[a] \in Target, clock \in Nat
  PROVE  LET new == Recommended(a, doc) IN
         /\ new \in Recommendation
         /\ new.rev = doc.rev + 1
         /\ new.by = a
         /\ new.updated = clock + 1
         /\ new.status = "pending"
BY DEF Recommended, Recommendation, Target, Author

\* The recommendation a decision puts.
LEMMA DecidedFacts ==
  ASSUME NEW doc \in Recommendation, NEW status \in {"approved", "rejected"}, clock \in Nat
  PROVE  LET new == Decided(doc, status) IN
         /\ new \in Recommendation
         /\ new.rev = doc.rev + 1
         /\ new.by = doc.by
         /\ new.updated = clock + 1
         /\ new.status = status
<1>1. doc.rev + 1 \in Nat /\ clock + 1 \in Nat
  BY DEF Recommendation
<1>2. Decided(doc, status) \in Recommendation
  BY <1>1, Zenon DEF Decided, Recommendation
<1> QED
  BY <1>2 DEF Decided, Recommendation

\* The structure the epic writer puts.
LEMMA SummarisedFacts ==
  ASSUME NEW doc \in Structure
  PROVE  LET new == [doc EXCEPT !.rev = @ + 1, !.summary = TRUE] IN
         new \in Structure /\ new.rev = doc.rev + 1 /\ new.by = doc.by
<1>1. doc.rev + 1 \in Nat
  BY DEF Structure
<1> QED
  BY <1>1 DEF Structure

\* Everyone who reads a document reads that of a file, and a story has a program.
LEMMA FilesOfTasks ==
  /\ \A p \in Readers : FileOf[p] \in Files
  /\ Readers \subseteq Processes /\ Runs \subseteq Processes
  /\ Len(Story) \in Nat \ {0} /\ DOMAIN Story = 1 .. Len(Story)
BY FileOfAssumption, StoryAssumption, EmptySeq, LenProperties DEF Readers, Processes

\* Before the first step every file analysed before has a structure and a
\* recommendation of that one analysis, and nothing has been approved.
LEMMA InitInv == Init => IInv
<1> SUFFICES ASSUME Init PROVE IInv
  OBVIOUS
<1> USE DEF Init, Author, Structure, Recommendation, Target, NoTarget, NoStructure,
        NoRecommendation
<1>1. \A f \in Files : EarlierOf(f) # {} =>
        (CHOOSE a \in EarlierOf(f) : TRUE) \in EarlierOf(f)
  OBVIOUS
<1>2. \A f \in Files : \A a \in EarlierOf(f) : a \in Analyses /\ FileOf[a] = f
  BY EarlierAssumption DEF EarlierOf
<1>3. structs \in [Files -> Structure]
  BY <1>1, <1>2
<1>4. \A f \in Files : recs[f] \in Recommendation /\ recs[f].status = "pending"
                       /\ recs[f].updated = 0
  BY <1>1, <1>2
<1>5. recs \in [Files -> Recommendation]
  BY <1>4
<1>6. \A f \in Files :
        /\ recs[f].by = structs[f].by
        /\ Exists(structs[f]) => FileOf[structs[f].by] = f
        /\ structs[f].summary => Exists(structs[f])
  BY <1>1, <1>2, ReviewersAssumption DEF Exists
<1>7. Types
  <2>1. /\ \A a \in Analyses : copy[a] = NoTarget
        /\ \A d \in Decisions : copy[d] = NoRecommendation
        /\ \A w \in Summaries : copy[w] = NoStructure
    BY ReviewersAssumption
  <2>2. copy \in [Readers -> Holdable]
    BY <2>1 DEF Readers, Holdable
  <2>3. run \in [Runs -> RunState] /\ \A r \in Runs : run[r].next \in DOMAIN Story
    BY FilesOfTasks DEF NewRun, RunState
  <2>4. TypeOK
    BY <1>3, <1>5, <2>1, <2>3, ReviewersAssumption, EarlierAssumption
    DEF TypeOK, Place, Processes
  <2>5. approved \in [Runs -> SUBSET Analyses]
    OBVIOUS
  <2> HIDE DEF Init, Author, Structure, Recommendation, Target, NoTarget, NoStructure,
          NoRecommendation
  <2> QED
    BY <2>2, <2>3, <2>4, <2>5 DEF Types
<1>8. DocumentsInv
  BY <1>4, <1>6 DEF DocumentsInv, Exists
<1>9. StructuredInv /\ CopiesInv
  BY ReviewersAssumption, EarlierAssumption DEF StructuredInv, CopiesInv, Processes
<1>10. DecidedInv
  BY ReviewersAssumption, EarlierAssumption DEF DecidedInv, Processes
<1>11. RunsInv
  BY ReviewersAssumption, EarlierAssumption, FilesOfTasks
  DEF RunsInv, RunInv, Passed, NewRun, Processes
<1> QED
  BY <1>7, <1>8, <1>9, <1>10, <1>11 DEF IInv

\* A run that goes on keeps the approvals it has seen, and sees those that stand.
LEMMA Remembers ==
  ASSUME IInv, Remember, recs' \in [Files -> Recommendation], DocumentsInv'
  PROVE  /\ approved' \in [Runs -> SUBSET Analyses]
         /\ \A r \in Runs : ~(at'[r] = "queued" /\ run'[r].next = 1) =>
              /\ approved[r] \subseteq approved'[r]
              /\ \A f \in Files : recs[f].status = "approved" => recs[f].by \in approved'[r]
<1> USE DEF IInv, Types, TypeOK
<1>1. ApprovedNow \subseteq Analyses
  BY FieldTypes DEF ApprovedNow, DocumentsInv, Exists, Author
<1>2. ApprovedNow' \subseteq Analyses
  BY FieldTypes DEF ApprovedNow, DocumentsInv, Exists, Author
<1>3. \A f \in Files : recs[f].status = "approved" => recs[f].by \in ApprovedNow
  BY DEF ApprovedNow
<1> HIDE DEF ApprovedNow
<1> QED
  BY <1>1, <1>2, <1>3 DEF Remember

\* A run that does not move keeps what it has found.
LEMMA RunUntouched ==
  ASSUME IInv, Remember, recs' \in [Files -> Recommendation], DocumentsInv',
         NEW r \in Runs, at'[r] = at[r], run'[r] = run[r], clock' \in Nat, clock <= clock'
  PROVE  RunInv(r)'
<1> USE DEF IInv, Types, TypeOK
<1>1. at[r] = "checking" \/ at[r] \in Passed \/ run[r].next # 1 =>
        approved[r] \subseteq approved'[r]
  BY Remembers DEF Passed
<1>2. ASSUME at[r] = "checking", NEW x \in run[r].found
      PROVE  x.updated <= clock'
  <2>1. x.updated <= clock /\ x.updated \in Nat
    BY <1>2 DEF RunsInv, RunInv, RunState, Finding
  <2> QED
    BY <2>1
<1>3. ASSUME at[r] \in Passed \/ run[r].next # 1
      PROVE  \A i \in DOMAIN Story : Found(r, i) => Found(r, i)'
  BY <1>1, <1>3 DEF Found
<1>4. \A i \in DOMAIN Story : i < run[r].next => run[r].next # 1
  BY FilesOfTasks DEF RunState
<1>5. (\A i \in DOMAIN Story : i < run[r].next \/ at[r] \in Passed => Found(r, i))'
  BY <1>3, <1>4 DEF RunsInv, RunInv
<1> QED
  BY <1>1, <1>2, <1>5 DEF RunsInv, RunInv, Passed

\* What the other processes leave of the runs.
LEMMA RunsUntouched ==
  ASSUME IInv, Remember, recs' \in [Files -> Recommendation], DocumentsInv',
         \A r \in Runs : at'[r] = at[r], run' = run, clock' \in Nat, clock <= clock'
  PROVE  RunsInv' /\ run' \in [Runs -> RunState] /\ approved' \in [Runs -> SUBSET Analyses]
<1>1. approved' \in [Runs -> SUBSET Analyses]
  BY Remembers
<1>2. \A r \in Runs : RunInv(r)'
  BY RunUntouched
<1> QED
  BY <1>1, <1>2 DEF RunsInv, IInv, Types

-----------------------------------------------------------------------------
(* Every step keeps the invariant *)

\* A process goes to its next place.
LEMMA Moves ==
  ASSUME Types, NEW p \in Processes, NEW place \in Place, Goto(p, place)
  PROVE  /\ at' \in [Processes -> Place]
         /\ at'[p] = place
         /\ \A q \in Processes : q # p => at'[q] = at[q]
BY DEF Types, TypeOK, Goto

\* A task or request remembers what it has read.
LEMMA Holds ==
  ASSUME Types, NEW p \in Readers, NEW value \in Holdable, Hold(p, value)
  PROVE  /\ copy' \in [Readers -> Holdable]
         /\ copy'[p] = value
         /\ \A q \in Readers : q # p => copy'[q] = copy[q]
BY DEF Types, Hold, Holdable

\* While p moves, what the others have read stays the current document or an
\* older one.
LEMMA CopiesOfOthers ==
  ASSUME IInv, NEW p \in Readers,
         \A q \in Processes : q # p => at'[q] = at[q],
         \A q \in Readers : q # p => copy'[q] = copy[q],
         \A f \in Files : recs'[f] = recs[f] \/ recs'[f].rev = recs[f].rev + 1,
         \A f \in Files : structs'[f] = structs[f] \/ structs'[f].rev = structs[f].rev + 1
  PROVE  /\ \A d \in Decisions : d # p /\ at'[d] = "put" =>
              IsCopy(copy'[d], recs'[FileOf[d]]) /\ Exists(copy'[d])
         /\ \A w \in Summaries : w # p /\ at'[w] = "put" =>
              IsCopy(copy'[w], structs'[FileOf[w]]) /\ Exists(copy'[w])
<1> USE DEF IInv, Types, TypeOK
<1>1. \A f \in Files : recs[f].rev \in Nat /\ structs[f].rev \in Nat
  BY FieldTypes
<1>2. ASSUME NEW d \in Decisions, d # p, at'[d] = "put"
      PROVE  IsCopy(copy'[d], recs'[FileOf[d]]) /\ Exists(copy'[d])
  <2>1. d \in Readers /\ d \in Processes /\ FileOf[d] \in Files
    BY FilesOfTasks DEF Readers
  <2>2. copy'[d] = copy[d] /\ at[d] = "put" /\ copy[d].rev \in Nat
    BY <1>2, <2>1, FieldTypes
  <2> QED
    BY <1>1, <2>1, <2>2 DEF CopiesInv, IsCopy
<1>3. ASSUME NEW w \in Summaries, w # p, at'[w] = "put"
      PROVE  IsCopy(copy'[w], structs'[FileOf[w]]) /\ Exists(copy'[w])
  <2>1. w \in Readers /\ w \in Processes /\ FileOf[w] \in Files
    BY FilesOfTasks DEF Readers
  <2>2. copy'[w] = copy[w] /\ at[w] = "put" /\ copy[w].rev \in Nat
    BY <1>3, <2>1, FieldTypes
  <2> QED
    BY <1>1, <2>1, <2>2 DEF CopiesInv, IsCopy
<1> QED
  BY <1>2, <1>3

\* A step of an analysis: its structure and its recommendation go over
\* whatever stood there, on the revision it has seen.
LEMMA AnalysisKeeps ==
  ASSUME IInv, NEW a \in Analyses, Analysis(a), Remember
  PROVE  IInv'
<1> USE DEF IInv
<1> DEFINE file == FileOf[a]
           before == {"queued", "putStructure", "structured", "recommending", "putRecommendation"}
           after == before \cup {"done", "failed"}
<1>1. a \in Processes /\ a \in Readers /\ file \in Files /\ a # Nobody
  BY FilesOfTasks, ReviewersAssumption DEF Readers
<1>2. PICK place \in after, target \in Target :
        /\ at[a] \in before
        /\ Goto(a, place) /\ Hold(a, target)
        /\ UNCHANGED <<decided, audited, run>>
        /\ at[a] = "putStructure" \/ structs' = structs
  <2>1. structs[file].rev \in Nat /\ structs[file].by \in Author /\ recs[file].rev \in Nat
        /\ copy[a] \in Target
    BY <1>1, FieldTypes DEF Types, TypeOK
  <2>2. CASE FindStructure(a)
    BY <2>1, <2>2, TargetTypes DEF FindStructure, Author
  <2>3. CASE PutStructure(a)
    BY <2>3, FieldTypes DEF PutStructure
  <2>4. CASE ReadStructure(a)
    BY <2>1, <2>4, TargetTypes DEF ReadStructure
  <2>5. CASE FindRecommendation(a)
    BY <2>1, <2>5, TargetTypes DEF FindRecommendation
  <2>6. CASE PutRecommendation(a)
    BY <2>6, FieldTypes DEF PutRecommendation
  <2>7. CASE AnalysisConflict(a)
    BY <2>7, FieldTypes DEF AnalysisConflict
  <2> QED
    BY <2>2, <2>3, <2>4, <2>5, <2>6, <2>7 DEF Analysis
<1>3. /\ structs' \in [Files -> Structure]
      /\ \A f \in Files :
           \/ structs'[f] = structs[f]
           \/ /\ f = file /\ at[a] = "putStructure"
              /\ structs'[f].rev = structs[f].rev + 1
              /\ structs'[f].by = a /\ structs'[f].summary = FALSE
  <2> DEFINE new == [rev |-> structs[file].rev + 1, by |-> a, summary |-> FALSE]
  <2>1. CASE PutStructure(a)
    <3>1. structs[file] \in Structure
      BY <1>1 DEF Types, TypeOK
    <3>2. new \in Structure
      BY <3>1 DEF Structure, Author
    <3>3. structs' = [structs EXCEPT ![file] = new]
      BY <2>1 DEF PutStructure, Types, TypeOK
    <3> QED
      BY <1>1, <2>1, <3>2, <3>3 DEF PutStructure, Types, TypeOK
  <2> QED
    BY <2>1 DEF Analysis, FindStructure, ReadStructure, FindRecommendation, PutRecommendation,
         AnalysisConflict, Types, TypeOK
<1>4. \/ recs' = recs /\ clock' = clock
      \/ /\ at[a] = "putRecommendation"
         /\ recs' = [recs EXCEPT ![file] = Recommended(a, recs[file])]
         /\ clock' = clock + 1
  BY DEF Types, TypeOK, Analysis, FindStructure, PutStructure, ReadStructure,
     FindRecommendation, PutRecommendation, AnalysisConflict
<1>5. /\ recs' \in [Files -> Recommendation]
      /\ \A f \in Files :
           \/ recs'[f] = recs[f]
           \/ /\ f = file /\ at[a] = "putRecommendation" /\ clock' = clock + 1
              /\ recs'[f].rev = recs[f].rev + 1 /\ recs'[f].by = a
              /\ recs'[f].updated = clock + 1 /\ recs'[f].status = "pending"
  <2>1. LET new == Recommended(a, recs[file]) IN
        /\ new \in Recommendation /\ new.rev = recs[file].rev + 1 /\ new.by = a
        /\ new.updated = clock + 1 /\ new.status = "pending"
    BY <1>1, RecommendedFacts DEF Types, TypeOK
  <2> QED
    BY <1>1, <1>4, <2>1 DEF Types, TypeOK
<1>6. /\ at' \in [Processes -> Place]
      /\ at'[a] \in after
      /\ \A q \in Processes : q # a => at'[q] = at[q]
  BY <1>1, <1>2, Moves DEF Place
<1>7. /\ copy' \in [Readers -> Holdable]
      /\ copy'[a] \in Target
      /\ \A q \in Readers : q # a => copy'[q] = copy[q]
  BY <1>1, <1>2, Holds DEF Holdable
<1>8. StructuredInv'
  <2>1. at'[a] \in {"structured", "recommending", "putRecommendation"} =>
          Exists(structs'[file])
    BY <1>1, <1>3 DEF StructuredInv, Exists, Types, TypeOK, Analysis, FindStructure, PutStructure,
         ReadStructure, FindRecommendation, PutRecommendation, AnalysisConflict, Goto
  <2>2. \A f \in Files : Exists(structs[f]) => Exists(structs'[f])
    BY <1>1, <1>3 DEF Exists
  <2> QED
    BY <1>6, <2>1, <2>2, FilesOfTasks DEF StructuredInv, Readers
<1>9. DocumentsInv'
  <2>1. Exists(structs[file]) \/ recs' = recs
    BY <1>4 DEF StructuredInv
  <2>2. \A f \in Files : recs[f].updated \in Nat /\ clock \in Nat
    BY FieldTypes DEF Types, TypeOK
  <2> QED
    BY <1>1, <1>3, <1>4, <1>5, <2>1, <2>2 DEF DocumentsInv, Exists
<1>10. CopiesInv'
  BY <1>3, <1>5, <1>6, <1>7, <1>1, CopiesOfOthers, ReviewersAssumption DEF CopiesInv
<1>11. DecidedInv'
  BY <1>2, <1>6, ReviewersAssumption DEF DecidedInv, Processes
<1>12. RunsInv' /\ run' \in [Runs -> RunState] /\ approved' \in [Runs -> SUBSET Analyses]
  <2>1. \A r \in Runs : at'[r] = at[r]
    BY <1>6, ReviewersAssumption DEF Processes
  <2>2. clock' \in Nat /\ clock <= clock'
    BY <1>4 DEF Types, TypeOK
  <2> QED
    BY <1>2, <1>5, <1>9, <2>1, <2>2, RunsUntouched
<1>13. Types'
  <2>1. TypeOK'
    BY SMTT(30), <1>2, <1>3, <1>4, <1>5, <1>6, <1>7, <1>12, ReviewersAssumption
    DEF Types, TypeOK, Readers, Processes, RunState, Author
  <2> QED
    BY <1>7, <1>12, <2>1 DEF Types
<1> QED
  BY <1>8, <1>9, <1>10, <1>11, <1>12, <1>13

\* A step of record_decision, which puts the recommendation it has read.
LEMMA DecisionKeeps ==
  ASSUME IInv, NEW d \in Decisions, Decision(d), Remember
  PROVE  IInv'
<1> USE DEF IInv
<1> DEFINE file == FileOf[d]
<1>1. d \in Processes /\ d \in Readers /\ file \in Files
      /\ recs[file] \in Recommendation /\ copy[d] \in Recommendation
  BY FilesOfTasks DEF Readers, Types, TypeOK
<1>2. PICK place \in {"put", "audit", "answered", "refused"}, doc \in Recommendation :
        /\ Goto(d, place) /\ Hold(d, doc)
        /\ UNCHANGED <<structs, run>>
        /\ place = "put" => doc = recs[file] /\ Exists(doc) /\ recs' = recs
  <2>1. copy = [copy EXCEPT ![d] = copy[d]]
    BY <1>1 DEF Types
  <2>2. CASE ReadForDecision(d)
    BY <1>1, <2>1, <2>2 DEF ReadForDecision, Hold
  <2>3. CASE PutDecision(d)
    BY <2>3, FieldTypes DEF PutDecision
  <2>4. CASE AuditDecision(d)
    BY <1>1, <2>1, <2>4 DEF AuditDecision, Hold
  <2>5. CASE DecisionConflict(d)
    BY <2>5, FieldTypes DEF DecisionConflict
  <2> QED
    BY <2>2, <2>3, <2>4, <2>5 DEF Decision
<1>3. PutDecision(d) => copy[d] = recs[file] /\ Exists(recs[file])
  BY DEF PutDecision, CopiesInv, IsCopy, Accepts
<1>4. \/ recs' = recs /\ clock' = clock /\ decided' = decided
      \/ /\ PutDecision(d)
         /\ \E status \in {"approved", "rejected"} :
              recs' = [recs EXCEPT ![file] = Decided(recs[file], status)]
         /\ clock' = clock + 1 /\ decided' = decided \cup {d}
  BY <1>3 DEF Decision, ReadForDecision, PutDecision, AuditDecision, DecisionConflict
<1>5. /\ recs' \in [Files -> Recommendation]
      /\ \A f \in Files :
           \/ recs'[f] = recs[f]
           \/ /\ f = file /\ PutDecision(d) /\ clock' = clock + 1
              /\ recs'[f].rev = recs[f].rev + 1 /\ recs'[f].by = recs[f].by
              /\ recs'[f].updated = clock + 1
  <2>1. CASE recs' = recs
    BY <2>1 DEF Types, TypeOK
  <2>2. ASSUME NEW status \in {"approved", "rejected"}, PutDecision(d), clock' = clock + 1,
               recs' = [recs EXCEPT ![file] = Decided(recs[file], status)]
        PROVE  <1>5!1 /\ <1>5!2
    <3>1. LET new == Decided(recs[file], status) IN
          /\ new \in Recommendation /\ new.rev = recs[file].rev + 1
          /\ new.by = recs[file].by /\ new.updated = clock + 1
      BY <1>1, DecidedFacts DEF Types, TypeOK
    <3> QED
      BY <1>1, <2>2, <3>1 DEF Types, TypeOK
  <2> QED
    BY <1>4, <2>1, <2>2
<1>6. /\ at' \in [Processes -> Place]
      /\ at'[d] \in {"put", "audit", "answered", "refused"}
      /\ \A q \in Processes : q # d => at'[q] = at[q]
  BY <1>1, <1>2, Moves DEF Place
<1>7. /\ copy' \in [Readers -> Holdable]
      /\ copy'[d] \in Recommendation
      /\ \A q \in Readers : q # d => copy'[q] = copy[q]
  BY <1>1, <1>2, Holds DEF Holdable
<1>8. DocumentsInv'
  <2>1. \A f \in Files : recs[f].updated \in Nat /\ clock \in Nat
    BY FieldTypes DEF Types, TypeOK
  <2> QED
    BY <1>1, <1>2, <1>3, <1>4, <1>5, <2>1 DEF DocumentsInv, Exists
<1>9. StructuredInv'
  BY <1>2, <1>6, ReviewersAssumption DEF StructuredInv, Exists, Processes
<1>10. CopiesInv'
  <2>1. at'[d] = "put" => IsCopy(copy'[d], recs'[file]) /\ Exists(copy'[d])
    <3>1. at'[d] = place /\ copy'[d] = doc
      BY <1>1, <1>2, Moves, Holds DEF Place, Holdable
    <3> QED
      BY <1>1, <1>2, <3>1, FieldTypes DEF IsCopy
  <2> QED
    BY <1>1, <1>2, <1>5, <1>6, <1>7, <2>1, CopiesOfOthers, ReviewersAssumption DEF CopiesInv
<1>11. DecidedInv' /\ audited' \subseteq decided' /\ decided' \subseteq Decisions
                   /\ ({c \in Decisions : at[c] = "answered"} \subseteq audited)'
  BY <1>1, <1>6 DEF DecidedInv, Decision, ReadForDecision, PutDecision, AuditDecision,
       DecisionConflict, Goto, Processes, Types, TypeOK
<1>12. RunsInv' /\ run' \in [Runs -> RunState] /\ approved' \in [Runs -> SUBSET Analyses]
  <2>1. \A r \in Runs : at'[r] = at[r]
    BY <1>6, ReviewersAssumption DEF Processes
  <2>2. clock' \in Nat /\ clock <= clock'
    BY <1>4 DEF Types, TypeOK
  <2> QED
    BY <1>2, <1>5, <1>8, <2>1, <2>2, RunsUntouched
<1>13. Types'
  <2>1. TypeOK'
    BY <1>2, <1>4, <1>5, <1>6, <1>7, <1>11, <1>12, ReviewersAssumption
    DEF Types, TypeOK, Readers, Processes, RunState, Author
  <2> QED
    BY <1>7, <1>12, <2>1 DEF Types
<1> QED
  BY <1>8, <1>9, <1>10, <1>11, <1>12, <1>13

\* A step of the epic writer, which adds a summary to the structure it has read.
LEMMA SummaryKeeps ==
  ASSUME IInv, NEW w \in Summaries, Summary(w), Remember
  PROVE  IInv'
<1> USE DEF IInv
<1> DEFINE file == FileOf[w]
<1>1. w \in Processes /\ w \in Readers /\ file \in Files
      /\ structs[file] \in Structure /\ copy[w] \in Structure
  BY FilesOfTasks DEF Readers, Types, TypeOK
<1>2. PICK place \in {"put", "done", "failed"}, doc \in Structure :
        /\ Goto(w, place) /\ Hold(w, doc)
        /\ UNCHANGED <<recs, clock, decided, audited, run>>
        /\ place = "put" => doc = structs[file] /\ Exists(doc) /\ structs' = structs
  <2>1. copy = [copy EXCEPT ![w] = copy[w]]
    BY <1>1 DEF Types
  <2>2. CASE ReadForSummary(w)
    <3>1. Exists(structs[file])
      BY <1>1, <2>2 DEF ReadForSummary, DocumentsInv
    <3> QED
      BY <1>1, <2>1, <2>2, <3>1 DEF ReadForSummary, Hold
  <2>3. CASE PutSummary(w)
    BY <2>3, FieldTypes DEF PutSummary
  <2> QED
    BY <2>2, <2>3 DEF Summary
<1>3. /\ structs' \in [Files -> Structure]
      /\ \A f \in Files :
           \/ structs'[f] = structs[f]
           \/ /\ f = file /\ structs'[f].rev = structs[f].rev + 1
              /\ structs'[f].by = structs[f].by /\ Exists(structs[f])
  <2> DEFINE new == [copy[w] EXCEPT !.rev = @ + 1, !.summary = TRUE]
  <2>1. CASE structs' = structs
    BY <2>1 DEF Types, TypeOK
  <2>2. CASE PutSummary(w) /\ Accepts(structs[file], copy[w].rev)
    <3>1. copy[w] = structs[file] /\ Exists(structs[file])
      BY <2>2 DEF PutSummary, CopiesInv, IsCopy, Accepts
    <3>2. new \in Structure /\ new.rev = copy[w].rev + 1 /\ new.by = copy[w].by
      BY <1>1, SummarisedFacts
    <3>3. structs' = [structs EXCEPT ![file] = new]
      BY <2>2 DEF PutSummary
    <3> HIDE DEF new
    <3> QED
      BY <1>1, <3>1, <3>2, <3>3 DEF Types, TypeOK
  <2> QED
    BY <2>1, <2>2 DEF Summary, ReadForSummary, PutSummary
<1>4. /\ at' \in [Processes -> Place]
      /\ \A q \in Processes : q # w => at'[q] = at[q]
  BY <1>1, <1>2, Moves DEF Place
<1>5. /\ copy' \in [Readers -> Holdable]
      /\ copy'[w] \in Structure
      /\ \A q \in Readers : q # w => copy'[q] = copy[q]
  BY <1>1, <1>2, Holds DEF Holdable
<1>6. DocumentsInv'
  BY <1>1, <1>2, <1>3 DEF DocumentsInv, Exists
<1>7. StructuredInv'
  BY <1>3, <1>4, FilesOfTasks, ReviewersAssumption DEF StructuredInv, Exists, Processes, Readers
<1>8. CopiesInv'
  <2>1. at'[w] = "put" => IsCopy(copy'[w], structs'[file]) /\ Exists(copy'[w])
    <3>1. at'[w] = place /\ copy'[w] = doc
      BY <1>1, <1>2, Moves, Holds DEF Place, Holdable
    <3> QED
      BY <1>1, <1>2, <3>1, FieldTypes DEF IsCopy
  <2> QED
    BY <1>1, <1>2, <1>3, <1>4, <1>5, <2>1, CopiesOfOthers, ReviewersAssumption DEF CopiesInv
<1>9. DecidedInv'
  BY <1>2, <1>4, ReviewersAssumption DEF DecidedInv, Processes
<1>10. RunsInv' /\ run' \in [Runs -> RunState] /\ approved' \in [Runs -> SUBSET Analyses]
  <2>1. \A r \in Runs : at'[r] = at[r]
    BY <1>4, ReviewersAssumption DEF Processes
  <2>2. recs' \in [Files -> Recommendation] /\ clock' \in Nat /\ clock <= clock'
    BY <1>2 DEF Types, TypeOK
  <2> QED
    BY <1>2, <1>6, <2>1, <2>2, RunsUntouched
<1>11. Types'
  <2>1. ({d \in Decisions : at[d] = "answered"} \subseteq audited)'
    BY <1>2, <1>4, ReviewersAssumption DEF Types, TypeOK, Processes
  <2>2. \A r \in Runs : run'[r].next \in DOMAIN Story /\ approved'[r] \subseteq Author
    BY <1>10 DEF RunState, Author
  <2>3. TypeOK'
    BY <1>2, <1>3, <1>4, <1>5, <2>1, <2>2, ReviewersAssumption DEF Types, TypeOK, Readers
  <2> QED
    BY <1>5, <1>10, <2>3 DEF Types
<1> QED
  BY <1>6, <1>7, <1>8, <1>9, <1>10, <1>11

\* When a program is judged, the choice among the approvals found for it is one
\* of them: the times of recommendations do not exceed the clock.
LEMMA BestIsFound ==
  ASSUME IInv, NEW r \in Runs, at[r] = "checking", run[r].found # {}
  PROVE  (CHOOSE x \in run[r].found : \A y \in run[r].found : y.updated <= x.updated)
           \in run[r].found
<1> USE DEF IInv, Types, TypeOK
<1> DEFINE found == run[r].found
           time == [x \in found |-> x.updated]
<1>1. \A x \in found : x.updated \in Nat /\ x.updated <= clock
  BY DEF RunsInv, RunInv, RunState, Finding
<1>2. time \in [found -> Nat] /\ \A x \in found : time[x] <= clock
  BY <1>1
<1> HIDE DEF found
<1>3. found # {} /\ clock \in Nat
  BY DEF found
<1> HIDE DEF time
<1>4. \E x \in found : \A y \in found : time[y] <= time[x]
  BY <1>2, <1>3, LatestExists
<1>5. \E x \in found : \A y \in found : y.updated <= x.updated
  BY <1>4 DEF time
<1> QED
  BY <1>5 DEF found

\* A step of run_codegen: what a run takes was approved since it started.
LEMMA GenerationKeeps ==
  ASSUME IInv, NEW r \in Runs, Generation(r), Remember
  PROVE  IInv'
<1> USE DEF IInv
<1> DEFINE after == {"queued", "checking", "approved", "generating", "committed", "failed"}
<1>1. r \in Processes /\ run[r] \in RunState /\ run[r].next \in Nat \ {0}
      /\ run[r].next <= Len(Story)
  BY FilesOfTasks DEF Types, RunState
<1>2. UNCHANGED <<structs, recs, clock, copy, decided, audited>>
  BY DEF Generation, FindStructures, CheckFile, JudgeProgram, ReadSubject, CommitCode
<1>3. DocumentsInv'
  BY <1>2 DEF DocumentsInv, Exists
<1>4. /\ at' \in [Processes -> Place]
      /\ at'[r] \in after
      /\ \A q \in Processes : q # r => at'[q] = at[q]
  <2>1. CASE CheckFile(r)
    BY <1>1, <2>1 DEF CheckFile, Types, TypeOK
  <2>2. ASSUME NEW place \in after, Goto(r, place)
        PROVE  <1>4!1 /\ <1>4!2 /\ <1>4!3
    BY <1>1, <2>2, Moves DEF Place
  <2> QED
    BY <2>1, <2>2 DEF Generation, FindStructures, JudgeProgram, ReadSubject, CommitCode
<1>5. /\ approved' \in [Runs -> SUBSET Analyses]
      /\ \A s \in Runs : ~(at'[s] = "queued" /\ run'[s].next = 1) =>
           /\ approved[s] \subseteq approved'[s]
           /\ \A f \in Files : recs[f].status = "approved" => recs[f].by \in approved'[s]
  BY <1>2, <1>3, Remembers DEF Types, TypeOK
<1> DEFINE Becoming(state) ==
             /\ state \in RunState
             /\ Becomes(r, state)
             /\ RunInv(r)'
<1>6. \A state \in RunState : Becomes(r, state) =>
        /\ run' \in [Runs -> RunState]
        /\ run'[r] = state
        /\ \A s \in Runs : s # r => run'[s] = run[s]
  BY DEF Becomes, Types
<1>7. run' = run => Becomes(r, run[r])
  BY DEF Becomes, Types
<1>8. at'[r] # "queued" \/ run'[r].next # 1 =>
        \A i \in DOMAIN Story : Found(r, i) => Found(r, i)'
  BY <1>5 DEF Found
<1>9. \E state : Becoming(state)
  <2> USE DEF RunsInv, RunInv
  <2>1. ASSUME Goto(r, "failed"), run' = run,
               at[r] \in {"queued", "checking", "approved"}
        PROVE  Becoming(run[r])
    <3>1. at'[r] = "failed"
      BY <1>1, <2>1, Moves DEF Place
    <3> QED
      BY <1>1, <1>5, <1>6, <1>7, <1>8, <2>1, <3>1 DEF Passed
  <2>2. CASE FindStructures(r)
    <3> DEFINE p == Story[run[r].next]
               found == {f \in FilesOf(p) : Exists(structs[f])}
               state == [run[r] EXCEPT !.todo = found, !.found = {}]
    <3>1. CASE Goto(r, "failed") /\ run' = run
      BY <2>1, <2>2, <3>1 DEF FindStructures
    <3>2. CASE Goto(r, "checking") /\ Becomes(r, state)
      <4>1. found \subseteq FilesOf(p) /\ found \subseteq Files
        BY DEF FilesOf
      <4> HIDE DEF found
      <4>2. /\ state \in RunState
            /\ state.todo = found /\ state.found = {}
            /\ state.next = run[r].next /\ state.pick = run[r].pick
            /\ state.file = run[r].file
        BY <1>1, <4>1 DEF RunState
      <4> HIDE DEF state
      <4>3. run'[r] = state /\ at[r] = "queued" /\ at'[r] = "checking"
        BY <1>1, <1>6, <2>2, <3>2, <4>2, Moves DEF FindStructures, Place
      <4>4. RunInv(r)'
        BY <1>1, <1>5, <1>8, <4>1, <4>2, <4>3 DEF Passed
      <4> QED
        BY <3>2, <4>2, <4>4
    <3> QED
      BY <2>2, <3>1, <3>2 DEF FindStructures
  <2>3. CASE CheckFile(r)
    <3>1. at[r] = "checking" /\ at' = at
      BY <2>3 DEF CheckFile
    <3> DEFINE finding(f) == [file |-> f, by |-> recs[f].by, updated |-> recs[f].updated]
               new(f) == IF recs[f].status = "approved"
                         THEN run[r].found \cup {finding(f)} ELSE run[r].found
    <3>2. PICK f \in run[r].todo :
            Becomes(r, [run[r] EXCEPT !.todo = @ \ {f}, !.found = new(f)])
      BY <1>1, <2>3 DEF CheckFile, RunState
    <3> DEFINE state == [run[r] EXCEPT !.todo = @ \ {f}, !.found = new(f)]
    <3>3. f \in Files /\ ProgramOf[f] = Story[run[r].next]
      BY <1>1, <3>1 DEF FilesOf, RunState
    <3>4. /\ recs[f].updated \in Nat /\ recs[f].updated <= clock
          /\ recs[f].status = "approved" =>
               recs[f].by \in Analyses /\ FileOf[recs[f].by] = f
      BY <3>3, FieldTypes DEF Types, TypeOK, DocumentsInv, Exists, Author
    <3>5. /\ new(f) \in SUBSET Finding
          /\ \A x \in new(f) :
               x \in run[r].found \/ (recs[f].status = "approved" /\ x = finding(f))
      <4>1. recs[f].status = "approved" => finding(f) \in Finding
        BY <3>3, <3>4 DEF Finding
      <4>2. run[r].found \in SUBSET Finding
        BY <1>1 DEF RunState
      <4> QED
        BY <4>1, <4>2
    <3> HIDE DEF new
    <3>6. /\ state \in RunState
          /\ state.todo \subseteq run[r].todo /\ state.found = new(f)
          /\ state.next = run[r].next /\ state.pick = run[r].pick
          /\ state.file = run[r].file
      BY <1>1, <3>5 DEF RunState
    <3> HIDE DEF state
    <3>7. run'[r] = state
      BY <1>6, <3>2, <3>6 DEF state
    <3>8. ASSUME NEW x \in state.found
          PROVE  /\ x.by \in approved'[r] /\ FileOf[x.by] = x.file /\ x.updated <= clock'
                 /\ ProgramOf[x.file] = Story[state.next]
      <4>1. x \in new(f)
        BY <3>6
      <4>2. CASE x \in run[r].found
        BY <1>2, <1>5, <3>1, <3>6, <4>2
      <4>3. CASE recs[f].status = "approved" /\ x = finding(f)
        BY <1>2, <1>5, <3>1, <3>3, <3>4, <3>6, <4>3
      <4> QED
        BY <3>5, <4>1, <4>2, <4>3
    <3>9. RunInv(r)'
      BY <1>1, <1>5, <1>8, <3>1, <3>6, <3>7, <3>8 DEF Passed
    <3> QED
      BY <3>2, <3>6, <3>9 DEF state
  <2>4. CASE JudgeProgram(r)
    <3> DEFINE best == CHOOSE x \in run[r].found : \A y \in run[r].found : y.updated <= x.updated
               first == run[r].next = 1
               state == [run[r] EXCEPT
                  !.next = IF LastProgram(r) THEN @ ELSE @ + 1,
                  !.found = {},
                  !.pick = IF first THEN best.by ELSE @,
                  !.file = IF first THEN best.file ELSE @]
               place == IF LastProgram(r) THEN "approved" ELSE "queued"
    <3>1. at[r] = "checking"
      BY <2>4 DEF JudgeProgram
    <3>2. CASE Goto(r, "failed") /\ run' = run
      BY <2>1, <3>1, <3>2
    <3>3. CASE run[r].found # {} /\ Becomes(r, state) /\ Goto(r, place)
      <4>1. /\ best \in Finding
            /\ best.by \in approved[r] /\ FileOf[best.by] = best.file
            /\ ProgramOf[best.file] = Story[run[r].next]
        <5>1. best \in run[r].found
          BY <3>1, <3>3, BestIsFound
        <5> HIDE DEF best
        <5> QED
          BY <1>1, <3>1, <5>1 DEF RunState
      <4> HIDE DEF best
      <4>2. best.by \in Analyses /\ best.file \in Files
        BY <4>1 DEF Finding
      <4>3. /\ state \in RunState
            /\ state.next = IF LastProgram(r) THEN run[r].next ELSE run[r].next + 1
            /\ state.pick = IF first THEN best.by ELSE run[r].pick
            /\ state.file = IF first THEN best.file ELSE run[r].file
        <5>1. ~LastProgram(r) => run[r].next + 1 \in DOMAIN Story
          BY <1>1, FilesOfTasks DEF LastProgram
        <5> QED
          BY <1>1, <4>2, <5>1 DEF RunState, Author
      <4> HIDE DEF state
      <4>4. run'[r] = state
        BY <1>6, <3>3, <4>3
      <4>5. at'[r] = place
        BY <1>1, <3>3, Moves DEF Place
      <4>6. at'[r] # "queued" \/ run'[r].next # 1
        BY <1>1, <4>3, <4>4, <4>5
      <4>7. state.pick \in approved'[r] /\ state.file = FileOf[state.pick]
        BY <1>1, <1>5, <4>1, <4>3, <4>6
      <4>8. \A i \in DOMAIN Story : i <= run[r].next => Found(r, i)
        BY <1>1, <4>1, FilesOfTasks DEF Found
      <4>9. \A i \in DOMAIN Story : i < state.next \/ place \in Passed => Found(r, i)'
        <5>1. \A i \in DOMAIN Story : i < state.next \/ place \in Passed => i <= run[r].next
          BY <1>1, <4>3, FilesOfTasks DEF LastProgram, Passed
        <5> QED
          BY <1>8, <4>6, <4>8, <5>1
      <4>10. RunInv(r)'
        BY <4>3, <4>4, <4>5, <4>7, <4>9 DEF Passed, LastProgram
      <4> QED
        BY <3>3, <4>3, <4>10
    <3> QED
      BY <2>4, <3>2, <3>3 DEF JudgeProgram
  <2>5. CASE ReadSubject(r)
    <3> DEFINE file == run[r].file
               state == [run[r] EXCEPT !.text = structs[file].by]
    <3>1. CASE Goto(r, "failed") /\ run' = run
      BY <2>1, <2>5, <3>1 DEF ReadSubject
    <3>2. CASE structs[file].summary /\ Becomes(r, state) /\ Goto(r, "generating")
      <4>1. at[r] = "approved" /\ at'[r] = "generating"
        BY <1>1, <2>5, <3>2, Moves DEF ReadSubject, Place
      <4>2. /\ run[r].pick \in approved[r] /\ run[r].pick \in Analyses
            /\ file = FileOf[run[r].pick] /\ file \in Files
        BY <4>1, FilesOfTasks DEF Passed, Types, Readers
      <4>3. structs[file].by \in Analyses /\ FileOf[structs[file].by] = file
        BY <3>2, <4>2, FieldTypes DEF Types, TypeOK, DocumentsInv, Exists, Author
      <4>4. /\ state \in RunState
            /\ state.text = structs[file].by
            /\ state.next = run[r].next /\ state.pick = run[r].pick
            /\ state.file = run[r].file
        BY <1>1, <4>3 DEF RunState, Author
      <4> HIDE DEF state
      <4>5. run'[r] = state
        BY <1>6, <3>2, <4>4
      <4>6. RunInv(r)'
        BY <1>1, <1>5, <1>8, <4>1, <4>2, <4>3, <4>4, <4>5 DEF Passed
      <4> QED
        BY <3>2, <4>4, <4>6
    <3> QED
      BY <2>5, <3>1, <3>2 DEF ReadSubject, Subject
  <2>6. CASE CommitCode(r)
    <3>1. at[r] = "generating" /\ at'[r] = "committed" /\ run' = run
      BY <1>1, <2>6 DEF CommitCode, Goto, Types, TypeOK
    <3> QED
      BY <1>1, <1>5, <1>6, <1>7, <1>8, <3>1 DEF Passed
  <2> QED
    BY <2>2, <2>3, <2>4, <2>5, <2>6 DEF Generation
<1>10. RunsInv' /\ run' \in [Runs -> RunState]
  <2>1. ASSUME NEW s \in Runs, s # r
        PROVE  RunInv(s)'
    <3>1. s \in Processes
      BY FilesOfTasks
    <3> QED
      BY <1>2, <1>3, <1>4, <1>6, <1>9, <2>1, <3>1, RunUntouched DEF Types, TypeOK
  <2> QED
    BY <1>6, <1>9, <2>1 DEF RunsInv
<1>11. StructuredInv' /\ CopiesInv' /\ DecidedInv'
  BY <1>2, <1>4, ReviewersAssumption
  DEF StructuredInv, CopiesInv, DecidedInv, IsCopy, Exists, Processes
<1>12. Types'
  <2>1. ({d \in Decisions : at[d] = "answered"} \subseteq audited)'
    BY <1>2, <1>4, ReviewersAssumption DEF Types, TypeOK, Processes
  <2>2. \A s \in Runs : run'[s].next \in DOMAIN Story /\ approved'[s] \subseteq Author
    BY <1>5, <1>10 DEF RunState, Author
  <2>3. TypeOK'
    BY <1>2, <1>4, <2>1, <2>2 DEF Types, TypeOK
  <2> QED
    BY <1>2, <1>5, <1>10, <2>3 DEF Types
<1> QED
  BY <1>3, <1>10, <1>11, <1>12

\* A step of the specification, or a stuttering step.
LEMMA NextInv == IInv /\ [Next]_vars => IInv'
<1> SUFFICES ASSUME IInv, [Next]_vars
             PROVE  IInv'
  OBVIOUS
<1>1. CASE UNCHANGED vars
  BY <1>1 DEF vars, IInv, Types, TypeOK, DocumentsInv, StructuredInv, CopiesInv, DecidedInv,
       RunsInv, RunInv, Found, IsCopy, Exists
<1>2. CASE Next
  BY <1>2, AnalysisKeeps, DecisionKeeps, SummaryKeeps, GenerationKeeps DEF Next, Step
<1> QED
  BY <1>1, <1>2

-----------------------------------------------------------------------------
(* The theorems *)

\* The inductive invariant holds of every reachable state.
THEOREM Invariance == Spec => []IInv
<1>1. Init => IInv
  BY InitInv
<1>2. IInv /\ [Next]_vars => IInv'
  BY NextInv
<1> QED
  BY <1>1, <1>2, PTL DEF Spec

\* Documents and what tasks and requests hold stay well formed, and the audit
\* log has events of written decisions only, and of all that were answered.
THEOREM TypeCorrect == Spec => []TypeOK
<1>1. IInv => TypeOK
  BY DEF IInv, Types
<1> QED
  BY <1>1, Invariance, PTL

\* run_codegen commits code only for a recommendation that a human had
\* approved while it ran, with an approved one for every program of the story,
\* and from the structure of the very file the recommendation is about.
THEOREM Approval == Spec => []CodeHasApproval
<1>1. IInv => CodeHasApproval
  <2> SUFFICES ASSUME IInv, NEW r \in Runs, at[r] = "committed"
               PROVE  /\ run[r].pick \in approved[r]
                      /\ \A i \in DOMAIN Story :
                           \E a \in approved[r] : ProgramOf[FileOf[a]] = Story[i]
                      /\ FileOf[run[r].text] = FileOf[run[r].pick]
    BY DEF CodeHasApproval
  <2> QED
    BY DEF IInv, RunsInv, RunInv, Passed, Found
<1> QED
  BY <1>1, Invariance, PTL

\* Of some recommendations, one is the most recent, and MostRecent chooses it.
LEMMA MostRecentFacts ==
  ASSUME IInv, NEW files \in SUBSET Files, files # {}
  PROVE  /\ MostRecent(files) \in files
         /\ \A g \in files : recs[g].updated <= recs[MostRecent(files)].updated
<1> DEFINE time == [f \in files |-> recs[f].updated]
<1>1. /\ time \in [files -> Nat] /\ clock \in Nat
      /\ \A f \in files : time[f] <= clock
  BY FieldTypes DEF IInv, Types, TypeOK, DocumentsInv
<1> HIDE DEF time
<1>2. \E f \in files : \A g \in files : time[g] <= time[f]
  BY <1>1, LatestExists
<1>3. \E f \in files : \A g \in files : recs[g].updated <= recs[f].updated
  BY <1>2 DEF time
<1> QED
  BY <1>3 DEF MostRecent

\* What list_eligible_stories offers, run_codegen accepts, even when the list's
\* query left documents out; and it generates for the target that was shown.
THEOREM Eligibility == Spec => []ListedIsAccepted
<1>1. IInv => ListedIsAccepted
  <2> SUFFICES ASSUME IInv, NEW docs \in SUBSET Documents, Listed(docs)
               PROVE  /\ \A i \in DOMAIN Story : ApprovedFiles(Story[i]) # {}
                      /\ docs = Documents =>
                           LatestOf(docs, Story[1]) = MostRecent(ApprovedFiles(Story[1]))
    BY DEF ListedIsAccepted
  <2>1. ASSUME NEW p
        PROVE  ApprovedFiles(p) \subseteq Documents \cap FilesOf(p)
               /\ Documents \cap FilesOf(p) \subseteq Files
    BY DEF ApprovedFiles, Documents, FilesOf, IInv, DocumentsInv
  <2>2. ASSUME NEW i \in DOMAIN Story
        PROVE  LET f == LatestOf(docs, Story[i]) IN
               /\ f \in ApprovedFiles(Story[i])
               /\ \A g \in docs \cap FilesOf(Story[i]) : recs[g].updated <= recs[f].updated
    <3> DEFINE p == Story[i]
               f == LatestOf(docs, p)
    <3>1. docs \cap FilesOf(p) \in SUBSET Files /\ docs \cap FilesOf(p) # {}
      BY <2>1 DEF Listed, Documents
    <3>2. /\ f \in docs \cap FilesOf(p)
          /\ \A g \in docs \cap FilesOf(p) : recs[g].updated <= recs[f].updated
      BY <3>1, MostRecentFacts DEF LatestOf
    <3>3. recs[f].status = "approved"
      BY DEF Listed
    <3> QED
      BY <3>1, <3>2, <3>3 DEF ApprovedFiles, FilesOf, IInv, DocumentsInv
  <2>3. ASSUME docs = Documents
        PROVE  LatestOf(docs, Story[1]) = MostRecent(ApprovedFiles(Story[1]))
    <3> DEFINE p == Story[1]
               f == LatestOf(docs, p)
               g == MostRecent(ApprovedFiles(p))
    <3>1. 1 \in DOMAIN Story
      BY FilesOfTasks
    <3>2. f \in ApprovedFiles(p) /\ ApprovedFiles(p) \in SUBSET Files
      BY <2>2, <3>1 DEF ApprovedFiles, FilesOf
    <3>3. g \in ApprovedFiles(p) /\ recs[f].updated <= recs[g].updated
      BY <3>2, MostRecentFacts
    <3>4. recs[g].updated <= recs[f].updated
      BY <2>1, <2>2, <2>3, <3>1, <3>3
    <3>5. f \in Files /\ g \in Files /\ recs[f].status = "approved"
          /\ recs[f].updated \in Nat /\ recs[g].updated \in Nat
      BY <3>2, <3>3, FieldTypes DEF ApprovedFiles, IInv, Types, TypeOK
    <3>6. recs[f].updated = recs[g].updated
      BY <3>3, <3>4, <3>5
    <3> QED
      BY <3>5, <3>6 DEF IInv, DocumentsInv
  <2> QED
    BY <2>2, <2>3
<1> QED
  BY <1>1, Invariance, PTL

-----------------------------------------------------------------------------
(* Refinement: the recommendations are a ReviewLedger *)

\* Every analysis that ended before is its file's in the ledger too.
LEMMA InitMaps == Init => Ledger!Init
<1> SUFFICES ASSUME Init
             PROVE  Ledger!Init
  OBVIOUS
<1>1. {a \in Analyses : at[a] = "done"} = Earlier
  BY EarlierAssumption DEF Init, Processes
<1>2. ASSUME NEW f \in Files
      PROVE  [by |-> recs[f].by, status |-> recs[f].status] =
               IF \E a \in Earlier : FileOf[a] = f
               THEN [by |-> CHOOSE a \in Earlier : FileOf[a] = f, status |-> "pending"]
               ELSE Ledger!NoDoc
  <2>1. CASE EarlierOf(f) = {}
    BY <2>1 DEF Init, EarlierOf, NoRecommendation, Ledger!NoDoc
  <2>2. CASE EarlierOf(f) # {}
    <3>1. PICK a \in EarlierOf(f) : TRUE
      BY <2>2
    <3>2. a \in Earlier /\ FileOf[a] = f /\ \A b \in Earlier : FileOf[b] = f => b = a
      BY <3>1, EarlierAssumption DEF EarlierOf
    <3>3. (CHOOSE x \in EarlierOf(f) : TRUE) = a
      BY <3>1, <3>2 DEF EarlierOf
    <3>4. (CHOOSE x \in Earlier : FileOf[x] = f) = a
      BY <3>2
    <3>5. recs[f].by = a /\ recs[f].status = "pending"
      BY <2>2, <3>3 DEF Init
    <3> QED
      BY <3>2, <3>4, <3>5
  <2> QED
    BY <2>1, <2>2
<1>3. decided = {}
  BY DEF Init
<1> QED
  BY <1>1, <1>2, <1>3 DEF Ledger!Init

\* The put of a recommendation is an analysis in the ledger.
LEMMA AnalysisMaps ==
  ASSUME IInv, NEW a \in Analyses, PutRecommendation(a)
  PROVE  Ledger!Next
<1> USE DEF IInv, Types, TypeOK, PutRecommendation
<1> DEFINE file == FileOf[a]
<1>1. a \in Processes /\ file \in Files
  BY FilesOfTasks DEF Readers
<1>2. Recommended(a, recs[file]).by = a /\ Recommended(a, recs[file]).status = "pending"
  BY <1>1, RecommendedFacts
<1>3. \A f \in Files : f # file => recs'[f] = recs[f]
  BY <1>1
<1>4. recs'[file].by = a /\ recs'[file].status = "pending"
  BY <1>1, <1>2
<1>5. {b \in Analyses : at'[b] = "done"} = {b \in Analyses : at[b] = "done"} \cup {a}
      /\ at[a] # "done"
  BY <1>1 DEF Goto, Processes
<1>6. Ledger!Analyse(a)
  BY <1>1, <1>3, <1>4, <1>5 DEF Ledger!Analyse
<1> QED
  BY <1>6 DEF Ledger!Next

\* The put of a decision is one in the ledger.
LEMMA DecisionMaps ==
  ASSUME IInv, NEW d \in Decisions, PutDecision(d)
  PROVE  Ledger!Next
<1> USE DEF IInv, Types, TypeOK, PutDecision
<1> DEFINE file == FileOf[d]
<1>1. d \in Processes /\ file \in Files
  BY FilesOfTasks DEF Readers
<1>2. copy[d] = recs[file] /\ Exists(recs[file])
  BY DEF CopiesInv, IsCopy, Accepts
<1>3. PICK status \in {"approved", "rejected"} :
        recs' = [recs EXCEPT ![file] = Decided(recs[file], status)]
  BY <1>2
<1>4. /\ Decided(recs[file], status).by = recs[file].by
      /\ Decided(recs[file], status).status = status
  BY <1>1, DecidedFacts
<1>5. \A f \in Files : f # file => recs'[f] = recs[f]
  BY <1>1, <1>3
<1>6. recs'[file].by = recs[file].by /\ recs'[file].status = status
  BY <1>1, <1>3, <1>4
<1>7. \A a \in Analyses : at'[a] = at[a]
  BY ReviewersAssumption DEF Goto, Processes
<1>8. d \notin decided /\ decided' = decided \cup {d}
  BY DEF DecidedInv
<1> DEFINE docs == [f \in Files |-> [by |-> recs[f].by, status |-> recs[f].status]]
<1>9. docs' = [docs EXCEPT ![file].status = status]
  BY <1>1, <1>5, <1>6
<1>10. docs[file].by # Nobody
  BY <1>1, <1>2 DEF Exists
<1>11. {a \in Analyses : at[a] = "done"}' = {a \in Analyses : at[a] = "done"}
  BY <1>7
<1>12. Ledger!Decide(d)
  BY <1>8, <1>9, <1>10, <1>11 DEF Ledger!Decide
<1> QED
  BY <1>12 DEF Ledger!Next

\* Every other step changes neither an author, a status, nor who has written.
LEMMA OthersStutter ==
  ASSUME IInv, recs' = recs, decided' = decided,
         \A a \in Analyses : (at'[a] = "done") <=> (at[a] = "done")
  PROVE  UNCHANGED Ledger!ledger
BY DEF Ledger!ledger

\* The recommendations implement the ledger: no race between analyses, repeated
\* analyses and decisions makes one undo what it has not seen.
THEOREM Refinement == Spec => ImplementsLedger
<1>1. Init => Ledger!Init
  BY InitMaps
<1>2. IInv /\ [Next]_vars => [Ledger!Next]_(Ledger!ledger)
  <2> SUFFICES ASSUME IInv, [Next]_vars
               PROVE  Ledger!Next \/ UNCHANGED Ledger!ledger
    OBVIOUS
  <2> USE DEF IInv, Types, TypeOK
  <2>1. CASE UNCHANGED vars
    BY <2>1, OthersStutter DEF vars
  <2>2. ASSUME NEW a \in Analyses, Analysis(a)
        PROVE  Ledger!Next \/ UNCHANGED Ledger!ledger
    <3>1. CASE PutRecommendation(a)
      BY <3>1, AnalysisMaps
    <3>2. CASE ~PutRecommendation(a)
      <4>1. /\ recs' = recs /\ decided' = decided
            /\ \A b \in Analyses : (at'[b] = "done") <=> (at[b] = "done")
        BY <2>2, <3>2 DEF Analysis, FindStructure, PutStructure, ReadStructure,
             FindRecommendation, AnalysisConflict, Goto, Processes
      <4> QED
        BY <4>1, OthersStutter
    <3> QED
      BY <3>1, <3>2
  <2>3. ASSUME NEW d \in Decisions, Decision(d)
        PROVE  Ledger!Next \/ UNCHANGED Ledger!ledger
    <3>1. CASE PutDecision(d)
      BY <3>1, DecisionMaps
    <3>2. CASE ~PutDecision(d)
      <4>1. /\ recs' = recs /\ decided' = decided
            /\ \A b \in Analyses : at'[b] = at[b]
        BY <2>3, <3>2, ReviewersAssumption
        DEF Decision, ReadForDecision, AuditDecision, DecisionConflict, Goto, Processes
      <4> QED
        BY <4>1, OthersStutter
    <3> QED
      BY <3>1, <3>2
  <2>4. ASSUME NEW w \in Summaries, Summary(w)
        PROVE  UNCHANGED Ledger!ledger
    <3>1. /\ recs' = recs /\ decided' = decided
          /\ \A b \in Analyses : at'[b] = at[b]
      BY <2>4, ReviewersAssumption DEF Summary, ReadForSummary, PutSummary, Goto, Processes
    <3> QED
      BY <3>1, OthersStutter
  <2>5. ASSUME NEW r \in Runs, Generation(r)
        PROVE  UNCHANGED Ledger!ledger
    <3>1. /\ recs' = recs /\ decided' = decided
          /\ \A b \in Analyses : at'[b] = at[b]
      BY ZenonT(60), <2>5, ReviewersAssumption
      DEF Generation, FindStructures, CheckFile, JudgeProgram, ReadSubject, CommitCode,
          Goto, Processes
    <3> QED
      BY <3>1, OthersStutter
  <2> QED
    BY <2>1, <2>2, <2>3, <2>4, <2>5 DEF Next, Step
<1> QED
  BY <1>1, <1>2, Invariance, PTL DEF Spec, ImplementsLedger, Ledger!Spec
=============================================================================
