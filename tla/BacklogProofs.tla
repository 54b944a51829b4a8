---------------------------- MODULE BacklogProofs ---------------------------
(***************************************************************************)
(* What Backlog guarantees for every set of stories, generation runs,      *)
(* edits and exports, and any number of faults.                            *)
(***************************************************************************)
EXTENDS Backlog, TLAPS

-----------------------------------------------------------------------------
(* The inductive invariant *)

Types ==
  /\ TypeOK
  /\ tracker \in [issues: SUBSET (Stories \X Exports), milestones: SUBSET Exports]

\* A story that was read is the current one or an older one.
IsCopy(s, doc) == doc.rev <= stories[s].rev /\ (doc.rev = stories[s].rev => doc = stories[s])

\* A run marks a story generated after its commit only.
RunInv(r) ==
  /\ at[r] \in Putting => IsCopy(StoryOf[r], seen[r])
  /\ at[r] \in {"markGenerated", "putGenerated", "last", "completed"} => r \in landed
  /\ at[r] \in {"last", "completed"} /\ r \notin blind => stories[StoryOf[r]].commit # Nothing

\* A run that has left its mark to fail for good, or to its handler.
Abandoned(r) == r \in blind \/ at[r] \in {"markFailed", "putFailed", "raised", "lost"}

\* A mark that may still land is a mark of such a run, on the story it has read.
LateInv(mark) ==
  /\ IsCopy(StoryOf[mark.run], mark.doc)
  /\ mark.place = "putGenerated" => mark.run \in landed
  /\ mark.doc.rev = stories[StoryOf[mark.run]].rev => Abandoned(mark.run)

\* An edit is saved after its audit event only.
EditInv(e) ==
  /\ edit[e].at \in {"read", "audited"} => IsCopy(StoryOf[e], edit[e].seen)
  /\ edit[e].at = "audited" => e \in audits
  /\ edit[e].at = "saved" => e \in stories[StoryOf[e]].edits

\* An export writes back stories whose issue it has made, and has a milestone
\* only if that is the tracker's.
ExportInv(x) ==
  LET state == export[x] IN
  /\ state.at \in {"finding", "creating", "issues", "saving"} =>
       \A s \in Stories : IsCopy(s, state.seen[s])
  /\ state.at \in {"new", "finding", "creating"} => state.made = {}
  /\ \A s \in state.made : <<s, x>> \in tracker.issues
  /\ state.milestone # Nothing => tracker.milestones = {state.milestone}
  /\ state.at = "saving" => state.todo \subseteq state.made
  /\ state.at = "reported" => state.todo = {}
  /\ state.at \in {"saving", "reported"} =>
       \A s \in state.made \ state.todo : <<s, x>> \in audits /\ stories[s].issue # Nothing

CallersInv ==
  /\ \A r \in Runs : RunInv(r)
  /\ \A mark \in late : LateInv(mark)
  /\ \A e \in Edits : EditInv(e)
  /\ \A x \in Exports : ExportInv(x)

OneMilestone == \A m, n \in tracker.milestones : m = n

IInv == Types /\ CallersInv /\ OneMilestone /\ DocumentsTellTheTruth

-----------------------------------------------------------------------------
(* What a put changes of a document *)

\* One story's document has been replaced.
Replaced(s) ==
  /\ s \in Stories
  /\ stories' \in [Stories -> Story]
  /\ \A t \in Stories : t # s => stories'[t] = stories[t]
  /\ stories'[s].rev = stories[s].rev + 1

Edited(s, e) ==
  /\ stories'[s].edits = stories[s].edits \cup {e}
  /\ stories'[s].generation = stories[s].generation
  /\ stories'[s].commit = stories[s].commit
  /\ stories'[s].issue = stories[s].issue

MarkedAs(s, g) ==
  /\ stories'[s].generation = g
  /\ stories'[s].edits = stories[s].edits
  /\ stories'[s].commit = stories[s].commit
  /\ stories'[s].issue = stories[s].issue

GeneratedBy(s, r) ==
  /\ stories'[s].generation = "generated"
  /\ stories'[s].commit = r
  /\ stories'[s].edits = stories[s].edits
  /\ stories'[s].issue = stories[s].issue

\* What a mark of a run, put at a place, makes of its story.
MarkedBy(r, place) ==
  /\ Replaced(StoryOf[r])
  /\ place = "putGenerated" => GeneratedBy(StoryOf[r], r)
  /\ place # "putGenerated" => \E g \in {"generating", "failed"} : MarkedAs(StoryOf[r], g)
  /\ place = "putFailed" => stories'[StoryOf[r]].generation = "failed"

ExportedBy(s, x) ==
  /\ stories'[s].issue = x
  /\ stories'[s].edits = stories[s].edits
  /\ stories'[s].generation = stories[s].generation
  /\ stories'[s].commit = stories[s].commit

\* No document loses what a caller was told is in it.
Grown ==
  /\ stories' \in [Stories -> Story]
  /\ \A s \in Stories :
       \/ stories'[s] = stories[s]
       \/ /\ stories'[s].rev = stories[s].rev + 1
          /\ stories[s].edits \subseteq stories'[s].edits
          /\ stories[s].commit # Nothing => stories'[s].commit # Nothing
          /\ stories[s].issue # Nothing => stories'[s].issue # Nothing

\* The fields of a story.
LEMMA StoryFacts ==
  /\ NewStory \in Story
  /\ \A doc \in Story :
       /\ doc.rev \in Nat /\ doc.edits \subseteq Edits /\ doc.generation \in GenerationStatus
       /\ doc.commit \in Runs \cup {Nothing} /\ doc.issue \in Exports \cup {Nothing}
BY DEF NewStory, Story, GenerationStatus

\* A put of anything typed replaces that document.
LEMMA PutFacts ==
  ASSUME Types, NEW s \in Stories, NEW doc \in Story, doc.rev = stories[s].rev, Put(s, doc)
  PROVE  /\ Replaced(s)
         /\ stories'[s].edits = doc.edits /\ stories'[s].generation = doc.generation
         /\ stories'[s].commit = doc.commit /\ stories'[s].issue = doc.issue
<1> DEFINE new == [doc EXCEPT !.rev = @ + 1]
<1>1. /\ new \in Story /\ new.rev = doc.rev + 1 /\ new.edits = doc.edits
      /\ new.generation = doc.generation /\ new.commit = doc.commit /\ new.issue = doc.issue
  BY DEF Story
<1>2. stories' = [stories EXCEPT ![s] = new]
  BY DEF Put
<1> HIDE DEF new
<1>3. stories' \in [Stories -> Story] /\ stories'[s] = new
  BY <1>1, <1>2 DEF Types, TypeOK
<1>4. \A t \in Stories : t # s => stories'[t] = stories[t]
  BY <1>2 DEF Types, TypeOK
<1> QED
  BY <1>1, <1>3, <1>4 DEF Replaced

\* The put of an edit, accepted on the revision it has read.
LEMMA EditedPut ==
  ASSUME Types, NEW s \in Stories, NEW e \in Edits, NEW doc \in Story, IsCopy(s, doc),
         Accepts(s, doc), Put(s, [doc EXCEPT !.edits = @ \cup {e}])
  PROVE  Replaced(s) /\ Edited(s, e)
<1> DEFINE new == [doc EXCEPT !.edits = @ \cup {e}]
<1>1. /\ new \in Story /\ new.rev = doc.rev /\ new.edits = doc.edits \cup {e}
      /\ new.generation = doc.generation /\ new.commit = doc.commit /\ new.issue = doc.issue
  BY DEF Story
<1>2. doc = stories[s] /\ new.rev = stories[s].rev /\ Put(s, new)
  BY <1>1 DEF Accepts, IsCopy
<1> HIDE DEF new
<1> QED
  BY <1>1, <1>2, PutFacts DEF Edited

\* The put of an issue's key.
LEMMA IssuePut ==
  ASSUME Types, NEW s \in Stories, NEW x \in Exports, NEW doc \in Story, IsCopy(s, doc),
         Accepts(s, doc), Put(s, [doc EXCEPT !.issue = x])
  PROVE  Replaced(s) /\ ExportedBy(s, x)
<1> DEFINE new == [doc EXCEPT !.issue = x]
<1>1. /\ new \in Story /\ new.rev = doc.rev /\ new.issue = x
      /\ new.generation = doc.generation /\ new.commit = doc.commit /\ new.edits = doc.edits
  BY DEF Story
<1>2. doc = stories[s] /\ new.rev = stories[s].rev /\ Put(s, new)
  BY <1>1 DEF Accepts, IsCopy
<1> HIDE DEF new
<1> QED
  BY <1>1, <1>2, PutFacts DEF ExportedBy

\* The put of a mark: "generated" comes with the run's commit, and the other
\* marks leave a commit as it is.
LEMMA MarkedPut ==
  ASSUME Types, NEW r \in Runs, NEW place \in Putting, NEW doc \in Story,
         IsCopy(StoryOf[r], doc), Accepts(StoryOf[r], doc),
         Put(StoryOf[r], Marked(r, place, doc))
  PROVE  MarkedBy(r, place)
<1> DEFINE s == StoryOf[r]
           new == Marked(r, place, doc)
<1>1. s \in Stories
  BY StoryOfAssumption
<1>2. /\ new \in Story /\ new.rev = doc.rev /\ new.edits = doc.edits /\ new.issue = doc.issue
      /\ place = "putGenerated" => new.generation = "generated" /\ new.commit = r
      /\ place # "putGenerated" =>
           new.generation \in {"generating", "failed"} /\ new.commit = doc.commit
      /\ place = "putFailed" => new.generation = "failed"
  <2>1. CASE place = "putGenerating"
    BY <2>1 DEF Marked, Story, GenerationStatus
  <2>2. CASE place = "putGenerated"
    BY <2>2 DEF Marked, Story, GenerationStatus
  <2>3. CASE place = "putFailed"
    BY <2>3 DEF Marked, Story, GenerationStatus
  <2> QED
    BY <2>1, <2>2, <2>3 DEF Putting
<1>3. doc = stories[s] /\ new.rev = stories[s].rev /\ Put(s, new)
  BY <1>2 DEF Accepts, IsCopy
<1> HIDE DEF new, s
<1>4. /\ Replaced(s) /\ stories'[s].edits = new.edits /\ stories'[s].generation = new.generation
      /\ stories'[s].commit = new.commit /\ stories'[s].issue = new.issue
  BY <1>1, <1>2, <1>3, PutFacts
<1>5. place = "putGenerated" => GeneratedBy(s, r)
  BY <1>2, <1>3, <1>4 DEF GeneratedBy
<1>6. place # "putGenerated" => \E g \in {"generating", "failed"} : MarkedAs(s, g)
  BY <1>2, <1>3, <1>4 DEF MarkedAs
<1> QED
  BY <1>2, <1>4, <1>5, <1>6 DEF s, MarkedBy

\* Whatever a put changes, the documents grow.
LEMMA PutsGrow ==
  ASSUME Types, NEW s \in Stories, Replaced(s),
         \/ \E e \in Edits : Edited(s, e)
         \/ \E g \in GenerationStatus : MarkedAs(s, g)
         \/ \E r \in Runs : GeneratedBy(s, r)
         \/ \E x \in Exports : ExportedBy(s, x)
  PROVE  Grown
<1>1. /\ stories[s].edits \subseteq stories'[s].edits
      /\ stories[s].commit # Nothing => stories'[s].commit # Nothing
      /\ stories[s].issue # Nothing => stories'[s].issue # Nothing
  BY WritersAssumption DEF Edited, MarkedAs, GeneratedBy, ExportedBy
<1> QED
  BY <1>1 DEF Replaced, Grown

\* Documents nobody puts do too.
LEMMA SameGrow == Types /\ stories' = stories => Grown
BY DEF Types, TypeOK, Grown

-----------------------------------------------------------------------------
(* What a step leaves of the other callers *)

\* The shared state only grows, but for a milestone where there is none.
Growing ==
  /\ Grown
  /\ blind \subseteq blind' /\ landed \subseteq landed' /\ audits \subseteq audits'
  /\ tracker.issues \subseteq tracker'.issues
  /\ tracker'.milestones = tracker.milestones \/ tracker.milestones = {}

\* What was read stays the current document or becomes an older one.
LEMMA CopiesStay ==
  ASSUME Types, Grown, NEW s \in Stories, NEW doc \in Story, IsCopy(s, doc)
  PROVE  IsCopy(s, doc)'
<1>1. stories[s] \in Story /\ stories[s].rev \in Nat /\ doc.rev \in Nat
  BY StoryFacts DEF Types, TypeOK
<1> QED
  BY <1>1 DEF Grown, IsCopy

\* A run that does not move keeps what it relies on.
LEMMA RunStays ==
  ASSUME IInv, Growing, NEW r \in Runs, at'[r] = at[r], seen'[r] = seen[r]
  PROVE  RunInv(r)'
<1>1. StoryOf[r] \in Stories /\ seen[r] \in Story
  BY StoryOfAssumption DEF IInv, Types, TypeOK
<1>2. at[r] \in Putting => IsCopy(StoryOf[r], seen[r])'
  BY <1>1, CopiesStay DEF IInv, CallersInv, RunInv, Growing
<1>3. stories[StoryOf[r]].commit # Nothing => stories'[StoryOf[r]].commit # Nothing
  BY <1>1 DEF Growing, Grown
<1>4. at'[r] \in Putting => IsCopy(StoryOf[r], seen[r])'
  BY <1>2
<1>5. RunInv(r)
  BY DEF IInv, CallersInv
<1> QED
  BY <1>3, <1>4, <1>5 DEF RunInv, Growing, IsCopy

\* A mark that may still land stays what it is, unless its story moves on.
LEMMA LateStays ==
  ASSUME IInv, Growing, NEW mark \in late,
         \/ at'[mark.run] = at[mark.run]
         \/ Abandoned(mark.run) => Abandoned(mark.run)' \/ Replaced(StoryOf[mark.run])
  PROVE  LateInv(mark)'
<1> DEFINE s == StoryOf[mark.run]
<1>1. mark.run \in Runs /\ s \in Stories /\ mark.doc \in Story /\ LateInv(mark)
  BY StoryOfAssumption DEF IInv, Types, TypeOK, LateMark, CallersInv
<1>2. IsCopy(s, mark.doc)'
  BY <1>1, CopiesStay DEF IInv, LateInv, Growing
<1>3. mark.place = "putGenerated" => mark.run \in landed'
  BY <1>1 DEF LateInv, Growing
<1>4. ASSUME mark.doc.rev = stories'[s].rev PROVE Abandoned(mark.run)'
  <2>1. /\ stories[s].rev \in Nat /\ mark.doc.rev \in Nat
        /\ mark.doc.rev <= stories[s].rev
        /\ stories'[s] = stories[s] \/ stories'[s].rev = stories[s].rev + 1
    BY <1>1, StoryFacts DEF IInv, Types, TypeOK, LateInv, IsCopy, Growing, Grown
  <2>2. stories'[s].rev = stories[s].rev /\ mark.doc.rev = stories[s].rev
    BY <1>4, <2>1
  <2>3. Abandoned(mark.run) /\ ~Replaced(s)
    BY <1>1, <2>1, <2>2 DEF LateInv, Replaced
  <2>4. blind \subseteq blind'
    BY DEF Growing
  <2> QED
    BY <2>3, <2>4 DEF Abandoned
<1> QED
  BY <1>2, <1>3, <1>4 DEF LateInv, IsCopy

\* So does an edit.
LEMMA EditStays ==
  ASSUME IInv, Growing, NEW e \in Edits, edit'[e] = edit[e]
  PROVE  EditInv(e)'
<1>1. StoryOf[e] \in Stories /\ edit[e].seen \in Story
  BY StoryOfAssumption DEF IInv, Types, TypeOK
<1>2. EditInv(e)
  BY DEF IInv, CallersInv
<1>3. edit[e].at \in {"read", "audited"} => IsCopy(StoryOf[e], edit[e].seen)'
  BY <1>1, <1>2, CopiesStay DEF IInv, EditInv, Growing
<1>4. stories[StoryOf[e]].edits \subseteq stories'[StoryOf[e]].edits
  BY <1>1 DEF Growing, Grown
<1> QED
  BY <1>2, <1>3, <1>4 DEF EditInv, Growing, IsCopy

\* The fields of an export.
LEMMA ExportFacts ==
  ASSUME NEW state \in ExportState
  PROVE  /\ state.at \in ExportPlace /\ state.epicRev \in Nat
         /\ \A s \in Stories : state.seen[s] \in Story
         /\ state.todo \subseteq Stories /\ state.made \subseteq Stories
         /\ state.milestone \in Exports \cup {Nothing}
BY DEF ExportState

\* And an export.
LEMMA ExportStays ==
  ASSUME IInv, Growing, NEW x \in Exports, export'[x] = export[x]
  PROVE  ExportInv(x)'
<1> DEFINE state == export[x]
<1>1. state \in ExportState
  BY DEF IInv, Types, TypeOK
<1>2. /\ \A s \in Stories : state.seen[s] \in Story
      /\ state.made \subseteq Stories
  BY <1>1, ExportFacts
<1>3. ExportInv(x)
  BY DEF IInv, CallersInv
<1>4. state.at \in {"finding", "creating", "issues", "saving"} =>
        \A s \in Stories : IsCopy(s, state.seen[s])'
  BY <1>2, <1>3, CopiesStay DEF IInv, ExportInv, Growing
<1>5. \A s \in Stories : stories[s].issue # Nothing => stories'[s].issue # Nothing
  BY DEF Growing, Grown
<1>6. state.milestone # Nothing => tracker'.milestones = {state.milestone}
  BY <1>3 DEF ExportInv, Growing
<1> QED
  BY <1>2, <1>3, <1>4, <1>5, <1>6 DEF ExportInv, Growing, IsCopy

\* What the document of one story says happened.
Tells(s) ==
  /\ stories[s].edits \subseteq audits
  /\ stories[s].commit # Nothing => stories[s].commit \in landed
  /\ stories[s].issue # Nothing => <<s, stories[s].issue>> \in tracker.issues
  /\ stories[s].generation = "generated" => stories[s].commit # Nothing

\* The documents tell the truth after a step that changes one story's document
\* to what is true, and the epic's to the tracker's milestone.
LEMMA TruthStays ==
  ASSUME IInv, Growing, \A s \in Stories : stories'[s] = stories[s] \/ Tells(s)',
         epic' = epic \/ tracker'.milestones = {epic'.milestone}
  PROVE  DocumentsTellTheTruth'
<1>1. ASSUME NEW s \in Stories, stories'[s] = stories[s]
      PROVE  Tells(s)'
  <2>1. Tells(s)
    BY DEF IInv, DocumentsTellTheTruth, Tells
  <2> QED
    BY <1>1, <2>1 DEF Tells, Growing
<1>2. \A s \in Stories : Tells(s)'
  BY <1>1
<1>3. epic'.milestone # Nothing => tracker'.milestones = {epic'.milestone}
  BY DEF IInv, DocumentsTellTheTruth, Growing
<1> QED
  BY <1>2, <1>3 DEF DocumentsTellTheTruth, Tells

\* A mark tells the truth, "generated" after the commit only.
LEMMA MarkTells ==
  ASSUME IInv, UNCHANGED otherVars, landed \subseteq landed', NEW r \in Runs, NEW place,
         MarkedBy(r, place), place = "putGenerated" => r \in landed,
         NEW s \in Stories, stories'[s] # stories[s]
  PROVE  Tells(s)'
<1>1. /\ s = StoryOf[r]
      /\ place = "putGenerated" => GeneratedBy(s, r)
      /\ place # "putGenerated" => \E g \in {"generating", "failed"} : MarkedAs(s, g)
  BY DEF MarkedBy, Replaced
<1>2. Tells(s)
  BY DEF IInv, DocumentsTellTheTruth, Tells
<1>3. stories'[s].edits \subseteq audits' /\ stories'[s].issue = stories[s].issue
  BY <1>1, <1>2 DEF Tells, GeneratedBy, MarkedAs, otherVars
<1>4. /\ stories'[s].commit # Nothing => stories'[s].commit \in landed'
      /\ stories'[s].generation = "generated" => stories'[s].commit # Nothing
  BY <1>1, <1>2, WritersAssumption DEF Tells, GeneratedBy, MarkedAs
<1> QED
  BY <1>2, <1>3, <1>4 DEF Tells, otherVars

\* A mark is growth.
LEMMA MarksGrow ==
  ASSUME Types, NEW r \in Runs, NEW place, MarkedBy(r, place)
  PROVE  Grown
BY PutsGrow, StoryOfAssumption DEF MarkedBy, GenerationStatus

\* A call that fails is one more fault, within the bound.
LEMMA FaultFacts == Types /\ Fault => faults' \in 0 .. MaxFaults
BY BacklogFaultsAssumption DEF Types, TypeOK, Fault

\* Before the first step nothing is read, done or told.
LEMMA InitInv == Init => IInv
<1> SUFFICES ASSUME Init PROVE IInv
  OBVIOUS
<1> USE DEF Init
<1>1. stories \in [Stories -> Story] /\ seen \in [Runs -> Story]
  BY StoryFacts
<1>2. NewExport \in ExportState
  BY StoryFacts DEF NewExport, ExportState, ExportPlace
<1>3. /\ edit \in [Edits -> [at: {"new", "read", "audited", "saved", "refused"}, seen: Story]]
      /\ export \in [Exports -> ExportState]
  BY <1>2, StoryFacts
<1>4. Types
  BY <1>1, <1>3, BacklogFaultsAssumption DEF Types, TypeOK, RunPlace
<1>5. \A r \in Runs : RunInv(r)
  BY DEF RunInv, Putting
<1>6. \A e \in Edits : EditInv(e)
  BY DEF EditInv
<1>7. \A x \in Exports : ExportInv(x)
  BY DEF ExportInv, NewExport
<1>8. DocumentsTellTheTruth
  BY DEF DocumentsTellTheTruth, NewStory
<1> QED
  BY <1>4, <1>5, <1>6, <1>7, <1>8 DEF IInv, CallersInv, OneMilestone

-----------------------------------------------------------------------------
(* Every step keeps the invariant *)

RunActs(r) == Start(r) \/ RunStep(r) \/ NoticeKill(r) \/ Crash(r)

\* A run leaves the stories alone, or its mark replaces the one it has read.
LEMMA RunWrites ==
  ASSUME IInv, NEW r \in Runs, RunActs(r)
  PROVE  \/ stories' = stories
         \/ at[r] \in Putting /\ MarkPut(r) /\ MarkedBy(r, at[r])
<1>1. stories' = stories \/ MarkPut(r)
  BY DEF RunActs, Start, RunStep, NoticeKill, Proceed, CommitFiles, MarkRead, MarkNothing,
     MarkConflict, RunFails, Crash
<1>2. ASSUME MarkPut(r)
      PROVE  at[r] \in Putting /\ seen[r] \in Story /\ IsCopy(StoryOf[r], seen[r])
  BY <1>2 DEF MarkPut, IInv, Types, TypeOK, CallersInv, RunInv
<1> QED
  BY <1>1, <1>2, MarkedPut DEF MarkPut, IInv

\* A run is at one place, with one story in hand, after a step.
LEMMA RunGoes ==
  ASSUME IInv, NEW r \in Runs, RunActs(r)
  PROVE  /\ at' \in [Runs -> RunPlace] /\ \A q \in Runs : q # r => at'[q] = at[q]
         /\ seen' \in [Runs -> Story] /\ \A q \in Runs : q # r => seen'[q] = seen[q]
<1> USE DEF IInv, Types, TypeOK
<1>1. ASSUME NEW place \in RunPlace, Goto(r, place)
      PROVE  at' \in [Runs -> RunPlace] /\ \A q \in Runs : q # r => at'[q] = at[q]
  BY <1>1 DEF Goto
<1>2. /\ at[r] \in Marking => PutOf(at[r]) \in RunPlace
      /\ at[r] \in Marking \cup Putting => AfterMark(at[r]) \in RunPlace
      /\ Handler(at[r]) \in RunPlace
  BY DEF Marking, Putting, PutOf, AfterMark, Handler, RunPlace, Running
<1>3. \E place \in RunPlace : Goto(r, place)
  <2>1. CASE Start(r) \/ Proceed(r) \/ NoticeKill(r) \/ CommitFiles(r)
    BY <2>1 DEF Start, Proceed, NoticeKill, CommitFiles, RunPlace, Running, Marking
  <2>2. CASE MarkRead(r) \/ MarkNothing(r) \/ MarkPut(r)
    BY <1>2, <2>2 DEF MarkRead, MarkNothing, MarkPut
  <2>3. CASE MarkConflict(r) \/ RunFails(r)
    BY <1>2, <2>3 DEF MarkConflict, RunFails
  <2>4. CASE Crash(r)
    BY <2>4 DEF Crash, RunPlace
  <2> QED
    BY <2>1, <2>2, <2>3, <2>4 DEF RunActs, RunStep
<1>4. stories[StoryOf[r]] \in Story
  BY StoryOfAssumption
<1>5. \E doc \in Story : seen' = [seen EXCEPT ![r] = doc]
  <2>1. CASE seen' = seen
    BY <2>1
  <2>2. CASE Forget(r)
    BY <2>2, StoryFacts DEF Forget
  <2>3. CASE MarkRead(r)
    BY <1>4, <2>3 DEF MarkRead
  <2> QED
    BY <2>1, <2>2, <2>3 DEF RunActs, Start, RunStep, NoticeKill, Proceed, CommitFiles,
         MarkNothing, MarkPut, MarkConflict, RunFails, Crash
<1>6. seen' \in [Runs -> Story] /\ \A q \in Runs : q # r => seen'[q] = seen[q]
  BY <1>5
<1> QED
  BY <1>1, <1>3, <1>6

\* A step of a run leaves at most one mark behind, of the run it abandons.
LEMMA RunLeaves ==
  ASSUME IInv, NEW r \in Runs, RunActs(r)
  PROVE  \/ late' = late
         \/ \E mark \in LateMark :
              late' = late \cup {mark} /\ mark.run = r /\ LateInv(mark)'
<1>1. late' = late \/ RunFails(r) \/ Crash(r)
  BY DEF RunActs, Start, RunStep, NoticeKill, Proceed, CommitFiles, MarkRead, MarkNothing,
     MarkPut, MarkConflict
<1>2. PICK mark : mark = [run |-> r, place |-> at[r], doc |-> seen[r]]
  OBVIOUS
<1>3. ASSUME RunFails(r) \/ Crash(r), late' # late
      PROVE  mark \in LateMark /\ late' = late \cup {mark} /\ mark.run = r /\ LateInv(mark)'
  <2>1. /\ at[r] \in Putting /\ late' = late \cup {mark} /\ landed' = landed
        /\ stories' = stories /\ blind' = blind
    BY <1>2, <1>3 DEF RunFails, Crash, CallLeft
  <2>2. mark \in LateMark /\ mark.run = r /\ mark.place = at[r] /\ mark.doc = seen[r]
    BY <1>2, <2>1 DEF LateMark, IInv, Types, TypeOK
  <2>3. at'[r] \in {"markFailed", "raised", "lost"}
    BY <1>3, <2>1 DEF RunFails, Crash, Goto, Handler, IInv, Types, TypeOK
  <2>4. IsCopy(StoryOf[r], seen[r]) /\ (at[r] = "putGenerated" => r \in landed)
    BY <2>1 DEF IInv, CallersInv, RunInv
  <2> QED
    BY <2>1, <2>2, <2>3, <2>4 DEF LateInv, IsCopy, Abandoned
<1> QED
  BY <1>1, <1>3

\* A run that has abandoned a mark stays so, unless its story moves on.
LEMMA RunAbandons ==
  ASSUME IInv, NEW r \in Runs, RunActs(r), Abandoned(r)
  PROVE  Abandoned(r)' \/ Replaced(StoryOf[r])
<1>1. \A place : Goto(r, place) => at'[r] = place
  BY DEF Goto, IInv, Types, TypeOK
<1>2. blind \subseteq blind'
  BY DEF RunActs, Start, RunStep, NoticeKill, Proceed, CommitFiles, MarkRead, MarkNothing,
     MarkPut, MarkConflict, RunFails, Crash
<1>3. CASE r \in blind
  BY <1>2, <1>3 DEF Abandoned
<1>4. CASE MarkPut(r)
  BY <1>4, MarkedPut DEF MarkPut, MarkedBy, IInv, Types, TypeOK, CallersInv, RunInv
<1>5. CASE at[r] \in {"markFailed", "putFailed", "raised", "lost"} /\ ~MarkPut(r)
  <2>1. CASE MarkRead(r)
    BY <1>1, <1>5, <2>1 DEF MarkRead, Marking, PutOf, Abandoned
  <2>2. CASE MarkNothing(r)
    BY <2>2 DEF MarkNothing, Abandoned
  <2>3. CASE MarkConflict(r) \/ RunFails(r)
    BY <1>1, <1>5, <2>3 DEF MarkConflict, RunFails, Running, Marking, Putting, Handler, Abandoned
  <2>4. CASE Crash(r)
    BY <1>1, <2>4 DEF Crash, Abandoned
  <2> QED
    BY <1>5, <2>1, <2>2, <2>3, <2>4
    DEF RunActs, RunStep, Start, Proceed, CommitFiles, NoticeKill
<1> QED
  BY <1>3, <1>4, <1>5 DEF Abandoned

\* A mark that lands late is put on the story its run has read.
LEMMA LateWrites ==
  ASSUME IInv, NEW mark \in late, LandLate(mark)
  PROVE  mark.run \in Runs /\ MarkedBy(mark.run, mark.place)
<1>1. mark.run \in Runs /\ mark.place \in Putting /\ mark.doc \in Story /\ LateInv(mark)
  BY DEF IInv, Types, TypeOK, LateMark, CallersInv
<1> QED
  BY <1>1, MarkedPut DEF LandLate, LateInv, IInv

\* A step of a run.
LEMMA RunKeeps ==
  ASSUME IInv, NEW r \in Runs, RunActs(r)
  PROVE  IInv'
<1>1. UNCHANGED otherVars
  BY DEF RunActs, Start, RunStep, NoticeKill, Proceed, CommitFiles, MarkRead, MarkNothing,
     MarkPut, MarkConflict, RunFails, Crash
<1>2. /\ landed' = landed \/ landed' = landed \cup {r}
      /\ blind' = blind \/ blind' = blind \cup {r}
  <2>1. landed' = landed \/ landed' = landed \cup {r}
    BY DEF RunActs, Start, RunStep, NoticeKill, Proceed, CommitFiles, MarkRead, MarkNothing,
       MarkPut, MarkConflict, RunFails, Crash, CallLeft
  <2>2. blind' = blind \/ blind' = blind \cup {r}
    BY DEF RunActs, Start, RunStep, NoticeKill, Proceed, CommitFiles, MarkRead, MarkNothing,
       MarkPut, MarkConflict, RunFails, Crash
  <2> QED
    BY <2>1, <2>2
<1>3. faults' \in 0 .. MaxFaults
  <2>1. CASE Fault
    BY <2>1, FaultFacts DEF IInv
  <2> QED
    BY <2>1 DEF RunActs, Start, RunStep, NoticeKill, Proceed, CommitFiles, MarkRead,
       MarkNothing, MarkPut, MarkConflict, RunFails, Crash, IInv, Types, TypeOK
<1>4. Grown
  BY RunWrites, MarksGrow, SameGrow DEF IInv
<1>5. Growing
  BY <1>1, <1>2, <1>4 DEF Growing, otherVars
<1>6. Types'
  <2>1. late' \subseteq LateMark
    BY RunLeaves DEF IInv, Types, TypeOK, LateMark
  <2> QED
    BY <1>1, <1>2, <1>3, <1>4, <2>1, RunGoes DEF IInv, Types, TypeOK, Grown, otherVars
<1>7. ASSUME NEW q \in Runs PROVE RunInv(q)'
  <2>1. CASE q # r
    BY <1>5, <2>1, RunGoes, RunStays
  <2>2. ASSUME at'[r] \in Putting PROVE IsCopy(StoryOf[r], seen[r])'
    <3>1. MarkRead(r)
      BY <2>2 DEF RunActs, Start, RunStep, NoticeKill, Proceed, CommitFiles, MarkNothing,
         MarkPut, MarkConflict, RunFails, Crash, Goto, Marking, Putting, AfterMark,
         Handler, IInv, Types, TypeOK
    <3>2. stories' = stories /\ seen'[r] = stories[StoryOf[r]] /\ StoryOf[r] \in Stories
      BY <3>1, StoryOfAssumption DEF MarkRead, IInv, Types, TypeOK
    <3> QED
      BY <3>2, StoryFacts DEF IsCopy, IInv, Types, TypeOK
  <2>3. ASSUME at'[r] \in {"markGenerated", "putGenerated", "last", "completed"}
        PROVE  /\ r \in landed'
               /\ \/ at'[r] \in {"markGenerated", "putGenerated"}
                  \/ at[r] = "last" /\ at'[r] = "completed" /\ stories' = stories /\ blind' = blind
                  \/ at[r] = "putGenerated" /\ MarkPut(r)
                  \/ r \in blind'
    <3>1. CASE CommitFiles(r)
      BY <2>3, <3>1 DEF CommitFiles, Goto, IInv, Types, TypeOK
    <3>2. CASE Proceed(r)
      BY <2>3, <3>2 DEF Proceed, Goto, IInv, Types, TypeOK, CallersInv, RunInv
    <3>3. CASE MarkRead(r)
      BY <2>3, <3>3 DEF MarkRead, Goto, PutOf, Marking, IInv, Types, TypeOK, CallersInv, RunInv
    <3>4. CASE MarkNothing(r)
      BY <2>3, <3>4 DEF MarkNothing, Goto, AfterMark, Marking, IInv, Types, TypeOK, CallersInv,
         RunInv
    <3>5. CASE MarkPut(r)
      BY <2>3, <3>5 DEF MarkPut, Goto, AfterMark, Putting, IInv, Types, TypeOK, CallersInv, RunInv
    <3> QED
      BY <2>3, <3>1, <3>2, <3>3, <3>4, <3>5 DEF RunActs, Start, RunStep, NoticeKill,
         MarkConflict, RunFails, Crash, Goto, Handler, IInv, Types, TypeOK
  <2>4. ASSUME at'[r] \in {"last", "completed"}, r \notin blind'
        PROVE  stories'[StoryOf[r]].commit # Nothing
    <3>1. CASE at[r] = "last" /\ stories' = stories /\ blind' = blind
      BY <2>4, <3>1 DEF IInv, CallersInv, RunInv
    <3>2. CASE at[r] = "putGenerated" /\ MarkPut(r)
      <4>1. GeneratedBy(StoryOf[r], r)
        BY <3>2, MarkedPut
        DEF MarkPut, MarkedBy, Putting, IInv, Types, TypeOK, CallersInv, RunInv
      <4> QED
        BY <4>1, WritersAssumption DEF GeneratedBy
    <3> QED
      BY <2>3, <2>4, <3>1, <3>2
  <2> QED
    BY <2>1, <2>2, <2>3, <2>4 DEF RunInv, IsCopy
<1>8. \A e \in Edits : EditInv(e)'
  BY <1>1, <1>5, EditStays DEF otherVars
<1>9. \A x \in Exports : ExportInv(x)'
  BY <1>1, <1>5, ExportStays DEF otherVars
<1>10. DocumentsTellTheTruth'
  <2>1. ASSUME NEW s \in Stories, stories'[s] # stories[s]
        PROVE  Tells(s)'
    <3>1. MarkedBy(r, at[r]) /\ at[r] \in Putting
      BY <2>1, RunWrites
    <3>2. at[r] = "putGenerated" => r \in landed
      BY DEF IInv, CallersInv, RunInv
    <3> QED
      BY <1>1, <1>5, <2>1, <3>1, <3>2, MarkTells DEF Growing
  <2> QED
    BY <1>1, <1>5, <2>1, TruthStays DEF otherVars
<1>11. ASSUME NEW mark \in late' PROVE LateInv(mark)'
  <2>1. CASE mark \in late /\ mark.run # r
    <3>1. at'[mark.run] = at[mark.run]
      BY <2>1, RunGoes DEF IInv, Types, TypeOK, LateMark
    <3> QED
      BY <1>5, <2>1, <3>1, LateStays
  <2>2. CASE mark \in late /\ mark.run = r
    BY <1>5, <2>2, RunAbandons, LateStays
  <2>3. CASE mark \notin late
    BY <2>3, RunLeaves
  <2> QED
    BY <2>1, <2>2, <2>3
<1> QED
  BY <1>1, <1>6, <1>7, <1>8, <1>9, <1>10, <1>11
  DEF IInv, CallersInv, OneMilestone, otherVars

\* A mark that lands late.
LEMMA LandKeeps ==
  ASSUME IInv, NEW mark \in late, LandLate(mark)
  PROVE  IInv'
<1> DEFINE r == mark.run
<1>1. r \in Runs /\ mark.place \in Putting /\ mark.doc \in Story /\ LateInv(mark)
  BY DEF IInv, Types, TypeOK, LateMark, CallersInv
<1>2. UNCHANGED <<runVars, otherVars, faults>> /\ MarkedBy(r, mark.place)
  BY LateWrites DEF LandLate
<1>3. Growing
  BY <1>1, <1>2, MarksGrow DEF IInv, Growing, runVars, otherVars
<1>4. Types'
  BY <1>2, <1>3 DEF IInv, Types, TypeOK, runVars, otherVars, Growing, Grown
<1>5. \A q \in Runs : RunInv(q)'
  BY <1>2, <1>3, RunStays DEF runVars
<1>6. \A other \in late' : LateInv(other)'
  BY <1>2, <1>3, LateStays DEF runVars
<1>7. /\ \A e \in Edits : EditInv(e)'
      /\ \A x \in Exports : ExportInv(x)'
  BY <1>2, <1>3, EditStays, ExportStays DEF otherVars
<1>8. DocumentsTellTheTruth'
  <2>1. ASSUME NEW s \in Stories, stories'[s] # stories[s]
        PROVE  Tells(s)'
    BY <1>1, <1>2, <1>3, <2>1, MarkTells DEF LateInv, Growing
  <2> QED
    BY <1>2, <1>3, <2>1, TruthStays DEF otherVars
<1> QED
  BY <1>2, <1>4, <1>5, <1>6, <1>7, <1>8 DEF IInv, CallersInv, OneMilestone, otherVars

\* An edit leaves the stories alone, or replaces the one it has read, with its
\* audit event there.
LEMMA EditWrites ==
  ASSUME IInv, NEW e \in Edits, EditStep(e)
  PROVE  \/ stories' = stories
         \/ edit[e].at = "audited" /\ Replaced(StoryOf[e]) /\ Edited(StoryOf[e], e)
<1> DEFINE doc == edit[e].seen
           puts == /\ edit[e].at = "audited"
                   /\ Accepts(StoryOf[e], doc)
                   /\ Put(StoryOf[e], [doc EXCEPT !.edits = @ \cup {e}])
<1>1. stories' = stories \/ puts
  BY DEF EditStep, EditRead, EditAudit, EditPut, EditConflict, EditFails
<1>2. ASSUME puts
      PROVE  doc \in Story /\ IsCopy(StoryOf[e], doc) /\ StoryOf[e] \in Stories
  BY <1>2, StoryOfAssumption DEF IInv, Types, TypeOK, CallersInv, EditInv
<1> QED
  BY <1>1, <1>2, EditedPut DEF IInv

\* A step of an edit.
LEMMA EditKeeps ==
  ASSUME IInv, NEW e \in Edits, EditStep(e)
  PROVE  IInv'
<1> DEFINE EditState == [at: {"new", "read", "audited", "saved", "refused"}, seen: Story]
<1>1. /\ UNCHANGED <<runVars, epic, export, tracker>>
      /\ audits' = audits \/ audits' = audits \cup {e}
      /\ faults' = faults \/ Fault
  BY DEF EditStep, EditRead, EditAudit, EditPut, EditConflict, EditFails
<1>2. faults' \in 0 .. MaxFaults
  BY <1>1, FaultFacts DEF IInv, Types, TypeOK
<1>3. Growing
  BY <1>1, EditWrites, PutsGrow, SameGrow, StoryOfAssumption
  DEF IInv, Growing, runVars
<1>4. \E place \in {"read", "audited", "saved", "refused"}, doc \in Story :
        EditGoes(e, place, doc)
  BY StoryFacts, StoryOfAssumption
  DEF EditStep, EditRead, EditAudit, EditPut, EditConflict, EditFails, IInv, Types, TypeOK
<1>5. edit' \in [Edits -> EditState] /\ \A d \in Edits : d # e => edit'[d] = edit[d]
  BY <1>4 DEF EditGoes, IInv, Types, TypeOK
<1>6. Types'
  BY <1>1, <1>2, <1>3, <1>5 DEF IInv, Types, TypeOK, Growing, Grown, runVars
<1>7. \A r \in Runs : RunInv(r)'
  BY <1>1, <1>3, RunStays DEF runVars
<1>8. ASSUME NEW d \in Edits PROVE EditInv(d)'
  <2>1. CASE d # e
    BY <1>3, <1>5, <2>1, EditStays
  <2>2. CASE EditRead(e)
    <3>1. stories' = stories /\ edit'[e] = [at |-> "read", seen |-> stories[StoryOf[e]]]
      BY <2>2 DEF EditRead, EditGoes, IInv, Types, TypeOK
    <3> QED
      BY <3>1, StoryOfAssumption, StoryFacts, <2>1 DEF EditInv, IsCopy, IInv, Types, TypeOK
  <2>3. CASE EditAudit(e)
    <3>1. /\ stories' = stories /\ e \in audits' /\ edit[e].at = "read"
          /\ edit'[e] = [at |-> "audited", seen |-> edit[e].seen]
      BY <2>3 DEF EditAudit, EditGoes, IInv, Types, TypeOK
    <3>2. IsCopy(StoryOf[e], edit[e].seen)
      BY <3>1 DEF IInv, CallersInv, EditInv
    <3> QED
      BY <3>1, <3>2, <2>1 DEF EditInv, IsCopy
  <2>4. CASE EditPut(e)
    <3>1. edit'[e] = [at |-> "saved", seen |-> NewStory] /\ edit[e].at = "audited"
      BY <2>4 DEF EditPut, EditGoes, IInv, Types, TypeOK
    <3>2. Edited(StoryOf[e], e)
      BY <2>4, StoryOfAssumption, EditedPut DEF EditPut, IInv, Types, TypeOK, CallersInv, EditInv
    <3> QED
      BY <3>1, <3>2, <2>1 DEF EditInv, Edited
  <2>5. CASE EditConflict(e) \/ EditFails(e)
    <3>1. edit'[e] = [at |-> "refused", seen |-> NewStory]
      BY <2>5 DEF EditConflict, EditFails, EditGoes, IInv, Types, TypeOK
    <3> QED
      BY <3>1, <2>1 DEF EditInv
  <2> QED
    BY <2>2, <2>3, <2>4, <2>5 DEF EditStep
<1>9. \A x \in Exports : ExportInv(x)'
  BY <1>1, <1>3, ExportStays
<1>10. DocumentsTellTheTruth'
  <2>1. ASSUME NEW s \in Stories, stories'[s] # stories[s]
        PROVE  Tells(s)'
    <3>1. s = StoryOf[e] /\ edit[e].at = "audited" /\ Edited(s, e)
      BY <2>1, EditWrites, StoryOfAssumption DEF Replaced
    <3>2. Tells(s) /\ e \in audits
      BY <3>1 DEF IInv, DocumentsTellTheTruth, Tells, CallersInv, EditInv
    <3> QED
      BY <1>1, <3>1, <3>2 DEF Tells, Edited, runVars
  <2> QED
    BY <1>1, <1>3, <2>1, TruthStays
<1>11. \A mark \in late' : LateInv(mark)'
  BY <1>1, <1>3, LateStays DEF runVars
<1> QED
  BY <1>1, <1>6, <1>7, <1>8, <1>9, <1>10, <1>11 DEF IInv, CallersInv, OneMilestone

\* The stories an export puts are those it has read and made an issue of.
LEMMA ExportWrites ==
  ASSUME IInv, NEW x \in Exports, ExportStep(x)
  PROVE  \/ stories' = stories
         \/ /\ export[x].at = "saving"
            /\ \E s \in export[x].todo : PutIssue(x, s) /\ Replaced(s) /\ ExportedBy(s, x)
<1>1. \/ stories' = stories
      \/ export[x].at = "saving" /\ \E s \in export[x].todo : PutIssue(x, s)
  BY DEF ExportStep, Fetch, FindMilestone, CreateMilestone, MilestoneFails, CreateIssue,
     IssueFails, SaveStory, StartSaving, SaveConflict, SaveEpic, ExportRaises
<1>2. ASSUME export[x].at = "saving", NEW s \in export[x].todo, PutIssue(x, s)
      PROVE  Replaced(s) /\ ExportedBy(s, x)
  <2>1. s \in Stories /\ export[x].seen[s] \in Story
    BY ExportFacts DEF IInv, Types, TypeOK
  <2>2. IsCopy(s, export[x].seen[s])
    BY <1>2, <2>1 DEF IInv, CallersInv, ExportInv
  <2> QED
    BY <1>2, <2>1, <2>2, IssuePut DEF PutIssue, IInv
<1> QED
  BY <1>1, <1>2

\* The state of an export that is over.
LEMMA OverState ==
  ASSUME NEW state \in ExportState, NEW place \in ExportPlace
  PROVE  LET new == [NewExport EXCEPT !.at = place, !.made = state.made] IN
         /\ new \in ExportState /\ new.at = place
         /\ new.todo = {} /\ new.made = state.made /\ new.milestone = Nothing
<1>1. NewExport \in ExportState /\ NewExport.todo = {} /\ NewExport.milestone = Nothing
  BY StoryFacts DEF NewExport, ExportState, ExportPlace
<1>2. state.made \in SUBSET Stories
  BY ExportFacts
<1>3. ASSUME NEW base \in ExportState, NEW made \in SUBSET Stories
      PROVE  LET new == [base EXCEPT !.at = place, !.made = made] IN
             /\ new \in ExportState /\ new.at = place /\ new.todo = base.todo
             /\ new.made = made /\ new.milestone = base.milestone
  BY DEF ExportState
<1> QED
  BY <1>1, <1>2, <1>3

\* An export goes to its next state.
LEMMA Becoming ==
  ASSUME Types, NEW x \in Exports, NEW new \in ExportState, Becomes(x, new)
  PROVE  /\ export' \in [Exports -> ExportState]
         /\ export'[x] = new
         /\ \A y \in Exports : y # x => export'[y] = export[y]
BY DEF Types, TypeOK, Becomes

\* What an export does to the tracker, the epic and the audit log.
LEMMA ExportEffects ==
  ASSUME IInv, NEW x \in Exports, ExportStep(x)
  PROVE  /\ UNCHANGED <<runVars, edit>>
         /\ faults' = faults \/ Fault
         /\ \/ audits' = audits
            \/ \E s \in export[x].todo : SaveStory(x, s) /\ audits' = audits \cup {<<s, x>>}
         /\ \/ tracker' = tracker
            \/ /\ ~TitleTaken
               /\ tracker' = [tracker EXCEPT !.milestones = @ \cup {x}]
            \/ \E s \in export[x].todo : tracker' = [tracker EXCEPT !.issues = @ \cup {<<s, x>>}]
         /\ epic' = epic \/ (export[x].milestone # Nothing /\ PutEpic(x) /\ tracker' = tracker)
<1>1. UNCHANGED <<runVars, edit>> /\ (faults' = faults \/ Fault)
  BY DEF ExportStep, Fetch, FindMilestone, CreateMilestone, MilestoneFails, CreateIssue,
     IssueFails, SaveStory, StartSaving, SaveConflict, SaveEpic, ExportRaises
<1>2. \/ audits' = audits
      \/ \E s \in export[x].todo : SaveStory(x, s) /\ audits' = audits \cup {<<s, x>>}
  BY DEF ExportStep, Fetch, FindMilestone, CreateMilestone, MilestoneFails, CreateIssue,
     IssueFails, SaveStory, StartSaving, SaveConflict, SaveEpic, ExportRaises
<1>3. \/ tracker' = tracker
      \/ ~TitleTaken /\ tracker' = [tracker EXCEPT !.milestones = @ \cup {x}]
      \/ \E s \in export[x].todo : tracker' = [tracker EXCEPT !.issues = @ \cup {<<s, x>>}]
  BY DEF ExportStep, Fetch, FindMilestone, CreateMilestone, MilestoneFails, CreateIssue,
     IssueFails, SaveStory, StartSaving, SaveConflict, SaveEpic, ExportRaises
<1>4. epic' = epic \/ (export[x].milestone # Nothing /\ PutEpic(x) /\ tracker' = tracker)
  <2>1. CASE SaveEpic(x)
    BY <2>1 DEF SaveEpic
  <2>2. CASE ExportRaises(x)
    BY <2>2 DEF ExportRaises
  <2> QED
    BY <2>1, <2>2 DEF ExportStep, Fetch, FindMilestone, CreateMilestone, MilestoneFails,
       CreateIssue, IssueFails, SaveStory, StartSaving, SaveConflict
<1> QED
  BY <1>1, <1>2, <1>3, <1>4

\* The tracker's records only grow.
LEMMA TrackerGrows ==
  ASSUME IInv, NEW x \in Exports, ExportStep(x)
  PROVE  /\ tracker' \in [issues: SUBSET (Stories \X Exports), milestones: SUBSET Exports]
         /\ tracker.issues \subseteq tracker'.issues
         /\ \/ tracker'.milestones = tracker.milestones
            \/ tracker.milestones = {} /\ tracker'.milestones = {x}
<1> DEFINE Tracker == [issues: SUBSET (Stories \X Exports), milestones: SUBSET Exports]
<1>1. tracker \in Tracker
  BY DEF IInv, Types
<1>2. CASE tracker' = tracker
  BY <1>1, <1>2
<1>3. CASE ~TitleTaken /\ tracker' = [tracker EXCEPT !.milestones = @ \cup {x}]
  BY <1>1, <1>3 DEF TitleTaken
<1>4. ASSUME NEW s \in export[x].todo,
             tracker' = [tracker EXCEPT !.issues = @ \cup {<<s, x>>}]
      PROVE  /\ tracker' \in Tracker /\ tracker.issues \subseteq tracker'.issues
             /\ tracker'.milestones = tracker.milestones
  <2>1. s \in Stories
    BY ExportFacts DEF IInv, Types, TypeOK
  <2> QED
    BY <1>1, <1>4, <2>1
<1> QED
  BY <1>2, <1>3, <1>4, ExportEffects

\* While an export steps, the shared state grows.
LEMMA ExportGrows ==
  ASSUME IInv, NEW x \in Exports, ExportStep(x)
  PROVE  Growing
<1>1. Grown
  <2>1. CASE stories' = stories
    BY <2>1, SameGrow DEF IInv
  <2>2. ASSUME NEW s \in export[x].todo, Replaced(s), ExportedBy(s, x)
        PROVE  Grown
    BY <2>2, PutsGrow DEF IInv, Replaced
  <2> QED
    BY <2>1, <2>2, ExportWrites
<1> QED
  BY <1>1, ExportEffects, TrackerGrows DEF Growing, runVars

\* A step of an export up to the milestone: nothing has been made yet.
LEMMA SearchKeeps ==
  ASSUME IInv, NEW x \in Exports, ExportStep(x),
         Fetch(x) \/ FindMilestone(x) \/ CreateMilestone(x) \/ MilestoneFails(x)
  PROVE  (\E new \in ExportState : Becomes(x, new)) /\ ExportInv(x)'
<1> DEFINE state == export[x]
           Sound(new) ==
             /\ new \in ExportState /\ Becomes(x, new)
             /\ new.at \in {"finding", "creating", "issues", "saving"} /\ new.made = {}
             /\ new.seen = stories \/ (state.at # "new" /\ new.seen = state.seen)
             /\ new.milestone # Nothing => tracker'.milestones = {new.milestone}
             /\ new.at = "saving" => new.todo = {}
<1>1. state \in ExportState /\ ExportInv(x) /\ Growing /\ Types
  BY ExportGrows DEF IInv, Types, TypeOK, CallersInv
<1>2. state.at \in {"new", "finding", "creating"} /\ state.made = {} /\ stories' = stories
  BY <1>1 DEF Fetch, FindMilestone, CreateMilestone, MilestoneFails, ExportInv
<1>3. /\ epic.rev \in Nat /\ stories \in [Stories -> Story] /\ state.seen \in [Stories -> Story]
      /\ x \in Exports \cup {Nothing} /\ x # Nothing /\ {} \in SUBSET Stories
      /\ \A m \in tracker.milestones : m \in Exports /\ m # Nothing
  BY <1>1, WritersAssumption DEF Types, TypeOK, ExportState
<1>4. state.milestone # Nothing => tracker'.milestones = {state.milestone}
  BY SMTT(30), <1>1 DEF ExportInv, Growing
<1>5. /\ "finding" \in ExportPlace /\ "creating" \in ExportPlace
      /\ "issues" \in ExportPlace /\ "saving" \in ExportPlace
  BY DEF ExportPlace
<1>6. \E new : Sound(new)
  <2>1. CASE Fetch(x)
    <3>1. PICK found \in SUBSET Stories :
            Becomes(x, [state EXCEPT !.at = IF found = {} THEN "saving" ELSE "finding",
                                     !.epicRev = epic.rev, !.seen = stories, !.todo = found])
      BY <2>1 DEF Fetch
    <3> DEFINE place == IF found = {} THEN "saving" ELSE "finding"
               new == [state EXCEPT !.at = place, !.epicRev = epic.rev, !.seen = stories,
                                    !.todo = found]
    <3>2. new \in ExportState /\ new.at = place /\ new.seen = stories /\ new.todo = found
          /\ new.made = state.made /\ new.milestone = state.milestone
      <4>1. place \in ExportPlace
        BY <1>5
      <4> HIDE DEF place
      <4> QED
        BY <1>1, <1>3, <4>1 DEF ExportState
    <3>3. Becomes(x, new)
      BY <3>1
    <3> HIDE DEF new
    <3> QED
      BY <1>2, <1>4, <3>2, <3>3
  <2>2. CASE FindMilestone(x) /\ Becomes(x, [state EXCEPT !.at = "creating"])
    <3> DEFINE new == [state EXCEPT !.at = "creating"]
    <3>1. new \in ExportState /\ new.at = "creating" /\ new.seen = state.seen
          /\ new.made = state.made /\ new.milestone = state.milestone
      BY <1>1, <1>3, <1>5 DEF ExportState
    <3> HIDE DEF new
    <3>2. Becomes(x, new) /\ state.at = "finding"
      BY <2>2 DEF new, FindMilestone
    <3> QED
      BY <1>2, <1>4, <3>1, <3>2
  <2>3. ASSUME FindMilestone(x), NEW m \in tracker.milestones,
               Becomes(x, [state EXCEPT !.at = "issues", !.milestone = m])
        PROVE  \E new : Sound(new)
    <3> DEFINE new == [state EXCEPT !.at = "issues", !.milestone = m]
    <3>1. new \in ExportState /\ new.at = "issues" /\ new.seen = state.seen
          /\ new.made = state.made /\ new.milestone = m
      BY <1>1, <1>3, <1>5 DEF ExportState
    <3> HIDE DEF new
    <3>2. Becomes(x, new) /\ tracker' = tracker /\ state.at = "finding"
      BY <2>3 DEF new, FindMilestone
    <3>3. tracker.milestones = {m}
      BY DEF IInv, OneMilestone
    <3> QED
      BY <1>2, <3>1, <3>2, <3>3
  <2>4. CASE CreateMilestone(x)
    <3> DEFINE new == [state EXCEPT !.at = "issues", !.milestone = x]
    <3>1. new \in ExportState /\ new.at = "issues" /\ new.seen = state.seen
          /\ new.made = state.made /\ new.milestone = x
      BY <1>1, <1>3, <1>5 DEF ExportState
    <3> HIDE DEF new
    <3>2. Becomes(x, new) /\ state.at = "creating"
      BY <2>4 DEF new, CreateMilestone
    <3>3. tracker'.milestones = {x}
      BY <1>1, <2>4 DEF CreateMilestone, TitleTaken, Types
    <3> QED
      BY <1>2, <3>1, <3>2, <3>3
  <2>5. CASE MilestoneFails(x)
    <3> DEFINE new == [state EXCEPT !.at = "saving", !.todo = {}]
    <3>1. new \in ExportState /\ new.at = "saving" /\ new.seen = state.seen /\ new.todo = {}
          /\ new.made = state.made /\ new.milestone = state.milestone
      BY <1>1, <1>3, <1>5 DEF ExportState
    <3> HIDE DEF new
    <3>2. Becomes(x, new) /\ state.at # "new"
      BY <2>5 DEF new, MilestoneFails
    <3> QED
      BY <1>2, <1>4, <3>1, <3>2
  <2> QED
    BY <2>1, <2>2, <2>3, <2>4, <2>5 DEF FindMilestone
<1>7. PICK new : Sound(new)
  BY <1>6
<1>8. \A s \in Stories : IsCopy(s, new.seen[s])'
  BY <1>1, <1>2, <1>3, <1>7, StoryFacts DEF IsCopy, ExportInv
<1>9. export'[x] = new
  BY <1>1, <1>7, Becoming
<1> QED
  BY <1>7, <1>8, <1>9 DEF ExportInv, IsCopy

\* A step of an export at its issues: made holds those the tracker has.
LEMMA IssuesKeep ==
  ASSUME IInv, NEW x \in Exports, ExportStep(x),
         \/ \E s \in Stories : CreateIssue(x, s) \/ IssueFails(x, s)
         \/ StartSaving(x)
  PROVE  (\E new \in ExportState : Becomes(x, new)) /\ ExportInv(x)'
<1> DEFINE state == export[x]
<1>1. state \in ExportState /\ ExportInv(x) /\ Growing /\ Types
  BY ExportGrows DEF IInv, Types, TypeOK, CallersInv
<1>2. /\ state.at = "issues" /\ stories' = stories
      /\ tracker.milestones = tracker'.milestones
  BY <1>1 DEF CreateIssue, IssueFails, StartSaving, Types
<1> DEFINE Sound(new) ==
             /\ new \in ExportState /\ Becomes(x, new)
             /\ new.seen = state.seen /\ new.milestone = state.milestone
             /\ \A s \in new.made : <<s, x>> \in tracker'.issues
             /\ new.at = "issues" \/ (new.at = "saving" /\ new.todo = new.made)
<1>3. \A s \in state.made : <<s, x>> \in tracker'.issues
  BY <1>1 DEF ExportInv, Growing
<1>4. \E new : Sound(new)
  <2>1. ASSUME NEW s \in Stories, CreateIssue(x, s)
        PROVE  \E new : Sound(new)
    <3> DEFINE new == [state EXCEPT !.todo = @ \ {s}, !.made = @ \cup {s}]
    <3>1. new \in ExportState /\ new.at = state.at /\ new.seen = state.seen
          /\ new.made = state.made \cup {s} /\ new.milestone = state.milestone
      BY <1>1 DEF ExportState
    <3> HIDE DEF new
    <3>2. Becomes(x, new)
      BY <2>1 DEF new, CreateIssue
    <3>3. <<s, x>> \in tracker'.issues
      BY <1>1, <2>1 DEF CreateIssue, Types
    <3> QED
      BY <1>2, <1>3, <3>1, <3>2, <3>3
  <2>2. ASSUME NEW s \in Stories, IssueFails(x, s)
        PROVE  \E new : Sound(new)
    <3> DEFINE new == [state EXCEPT !.todo = @ \ {s}]
    <3>1. new \in ExportState /\ new.at = state.at /\ new.seen = state.seen
          /\ new.made = state.made /\ new.milestone = state.milestone
      BY <1>1 DEF ExportState
    <3> HIDE DEF new
    <3>2. Becomes(x, new)
      BY <2>2 DEF new, IssueFails
    <3> QED
      BY <1>2, <1>3, <3>1, <3>2
  <2>3. CASE StartSaving(x)
    <3> DEFINE new == [state EXCEPT !.at = "saving", !.todo = ToSave(x)]
    <3>1. new \in ExportState /\ new.at = "saving" /\ new.seen = state.seen
          /\ new.made = state.made /\ new.todo = new.made /\ new.milestone = state.milestone
      BY <1>1 DEF ExportState, ExportPlace, ToSave
    <3> HIDE DEF new
    <3>2. Becomes(x, new)
      BY <2>3 DEF new, StartSaving
    <3> QED
      BY <1>3, <3>1, <3>2
  <2> QED
    BY <2>1, <2>2, <2>3
<1>5. PICK new : Sound(new)
  BY <1>4
<1>6. \A s \in Stories : IsCopy(s, new.seen[s])'
  BY <1>1, <1>2, <1>5 DEF IsCopy, ExportInv
<1>7. export'[x] = new
  BY <1>1, <1>5, Becoming
<1> QED
  BY <1>1, <1>2, <1>5, <1>6, <1>7 DEF ExportInv, IsCopy

\* An export writes back a story and audits it.
LEMMA SaveKeeps ==
  ASSUME IInv, NEW x \in Exports, ExportStep(x), NEW s \in Stories, SaveStory(x, s)
  PROVE  (\E new \in ExportState : Becomes(x, new)) /\ ExportInv(x)'
<1> DEFINE state == export[x]
           new == [state EXCEPT !.todo = @ \ {s}]
<1>1. state \in ExportState /\ ExportInv(x) /\ Growing /\ Types
  BY ExportGrows DEF IInv, Types, TypeOK, CallersInv
<1>2. new \in ExportState /\ new.at = state.at /\ new.seen = state.seen
      /\ new.todo = state.todo \ {s} /\ new.made = state.made
      /\ new.milestone = state.milestone
  BY <1>1 DEF ExportState
<1>3. Becomes(x, new) /\ tracker' = tracker /\ audits' = audits \cup {<<s, x>>}
      /\ state.at = "saving" /\ s \in state.todo
  BY DEF SaveStory
<1> HIDE DEF new
<1>4. export'[x] = new
  BY <1>1, <1>2, <1>3, Becoming
<1>5. IsCopy(s, state.seen[s]) /\ state.seen[s] \in Story
  BY <1>1, <1>3, ExportFacts DEF ExportInv
<1>6. ExportedBy(s, x)
  BY <1>1, <1>5, IssuePut DEF SaveStory, PutIssue
<1>7. stories'[s].issue # Nothing
  BY <1>6, WritersAssumption DEF ExportedBy
<1>8. \A t \in Stories : /\ state.seen[t].rev <= stories'[t].rev
                         /\ state.seen[t].rev = stories'[t].rev => state.seen[t] = stories'[t]
  <2>1. \A t \in Stories : state.seen[t] \in Story /\ IsCopy(t, state.seen[t])
    BY <1>1, <1>3, ExportFacts DEF ExportInv
  <2>2. \A t \in Stories : \A doc \in Story : IsCopy(t, doc) => IsCopy(t, doc)'
    BY <1>1, CopiesStay DEF Growing
  <2> QED
    BY <2>1, <2>2 DEF IsCopy
<1>9. \A t \in state.made \ state.todo : <<t, x>> \in audits /\ stories'[t].issue # Nothing
  BY <1>1, <1>3, ExportFacts DEF ExportInv, Growing, Grown
<1>10. \A t \in new.made \ new.todo : <<t, x>> \in audits' /\ stories'[t].issue # Nothing
  BY <1>2, <1>3, <1>7, <1>9
<1> QED
  BY <1>1, <1>2, <1>3, <1>4, <1>8, <1>10 DEF ExportInv, IsCopy

\* An export that is over has written back and audited every issue it made,
\* unless it raised.
LEMMA EndKeeps ==
  ASSUME IInv, NEW x \in Exports, ExportStep(x),
         SaveConflict(x) \/ SaveEpic(x) \/ ExportRaises(x)
  PROVE  (\E new \in ExportState : Becomes(x, new)) /\ ExportInv(x)'
<1> DEFINE state == export[x]
           new(place) == [NewExport EXCEPT !.at = place, !.made = state.made]
<1>1. state \in ExportState /\ ExportInv(x) /\ Growing /\ Types
  BY ExportGrows DEF IInv, Types, TypeOK, CallersInv
<1>2. PICK place \in {"reported", "raised"} :
        /\ Over(x, place)
        /\ place = "reported" => SaveEpic(x)
  BY DEF SaveConflict, SaveEpic, ExportRaises
<1>3. place \in ExportPlace
  BY <1>2 DEF ExportPlace
<1>4. /\ new(place) \in ExportState /\ new(place).at = place /\ new(place).todo = {}
      /\ new(place).made = state.made /\ new(place).milestone = Nothing
  BY <1>1, <1>3, OverState
<1>5. Becomes(x, new(place))
  BY <1>2 DEF Over
<1> HIDE DEF new
<1>6. export'[x] = new(place)
  BY <1>1, <1>4, <1>5, Becoming
<1>7. \A s \in state.made : <<s, x>> \in tracker'.issues
  BY <1>1 DEF ExportInv, Growing
<1>8. ASSUME place = "reported", NEW s \in state.made
      PROVE  <<s, x>> \in audits' /\ stories'[s].issue # Nothing
  <2>1. state.at = "saving" /\ state.todo = {} /\ stories' = stories /\ audits' = audits
    BY <1>2, <1>8 DEF SaveEpic
  <2> QED
    BY <1>1, <2>1 DEF ExportInv
<1> QED
  BY <1>2, <1>4, <1>5, <1>6, <1>7, <1>8 DEF ExportInv

\* A step of an export.
LEMMA ExportKeeps ==
  ASSUME IInv, NEW x \in Exports, ExportStep(x)
  PROVE  IInv'
<1>1. Types /\ Growing
  BY ExportGrows DEF IInv
<1>2. (\E new \in ExportState : Becomes(x, new)) /\ ExportInv(x)'
  <2>1. CASE Fetch(x) \/ FindMilestone(x) \/ CreateMilestone(x) \/ MilestoneFails(x)
    BY <2>1, SearchKeeps
  <2>2. CASE (\E s \in Stories : CreateIssue(x, s) \/ IssueFails(x, s)) \/ StartSaving(x)
    BY <2>2, IssuesKeep
  <2>3. CASE \E s \in Stories : SaveStory(x, s)
    BY <2>3, SaveKeeps
  <2>4. CASE SaveConflict(x) \/ SaveEpic(x) \/ ExportRaises(x)
    BY <2>4, EndKeeps
  <2> QED
    BY <2>1, <2>2, <2>3, <2>4 DEF ExportStep
<1>3. /\ export' \in [Exports -> ExportState]
      /\ \A y \in Exports : y # x => export'[y] = export[y]
  BY <1>1, <1>2, Becoming
<1>4. export[x].todo \subseteq Stories /\ export[x].milestone \in Exports \cup {Nothing}
  BY <1>1, ExportFacts DEF Types, TypeOK
<1>5. Types'
  <2>1. audits' \subseteq Edits \cup (Stories \X Exports)
    BY <1>1, <1>4, ExportEffects DEF Types, TypeOK
  <2>2. epic' \in [rev: Nat, milestone: Exports \cup {Nothing}]
    BY <1>1, <1>4, ExportEffects DEF Types, TypeOK, PutEpic
  <2>3. faults' \in 0 .. MaxFaults
    BY <1>1, ExportEffects, FaultFacts DEF Types, TypeOK
  <2>4. UNCHANGED <<at, seen, blind, landed, late, edit>>
    BY ExportEffects DEF runVars
  <2>5. /\ tracker' \in [issues: SUBSET (Stories \X Exports), milestones: SUBSET Exports]
        /\ tracker'.issues \subseteq Stories \X Exports /\ tracker'.milestones \subseteq Exports
    BY TrackerGrows
  <2> QED
    BY <1>1, <1>3, <2>1, <2>2, <2>3, <2>4, <2>5 DEF Types, TypeOK, Growing, Grown
<1>6. \A r \in Runs : RunInv(r)'
  BY <1>1, ExportEffects, RunStays DEF runVars
<1>7. \A e \in Edits : EditInv(e)'
  BY <1>1, ExportEffects, EditStays
<1>8. \A y \in Exports : ExportInv(y)'
  BY <1>1, <1>2, <1>3, ExportStays
<1>9. OneMilestone'
  BY TrackerGrows DEF IInv, OneMilestone
<1>10. DocumentsTellTheTruth'
  <2>1. ASSUME NEW s \in Stories, stories'[s] # stories[s]
        PROVE  Tells(s)'
    <3>1. s \in export[x].todo /\ export[x].at = "saving" /\ ExportedBy(s, x)
      BY <2>1, ExportWrites DEF Replaced
    <3>2. Tells(s) /\ <<s, x>> \in tracker.issues
      BY <3>1 DEF IInv, DocumentsTellTheTruth, Tells, CallersInv, ExportInv
    <3> QED
      BY <1>1, <3>1, <3>2, ExportEffects DEF Tells, ExportedBy, Growing, runVars
  <2>2. epic' = epic \/ tracker'.milestones = {epic'.milestone}
    BY ExportEffects DEF IInv, CallersInv, ExportInv, PutEpic
  <2> QED
    BY <1>1, <2>1, <2>2, TruthStays
<1>11. \A mark \in late' : LateInv(mark)'
  BY <1>1, ExportEffects, LateStays DEF runVars
<1> QED
  BY <1>5, <1>6, <1>7, <1>8, <1>9, <1>10, <1>11 DEF IInv, CallersInv

\* Every step of every caller keeps the invariant.
LEMMA NextInv == IInv /\ [Next]_vars => IInv'
<1> SUFFICES ASSUME IInv, [Next]_vars PROVE IInv'
  OBVIOUS
<1>1. ASSUME NEW r \in Runs, RunActs(r) PROVE IInv'
  BY <1>1, RunKeeps
<1>2. ASSUME NEW e \in Edits, EditStep(e) PROVE IInv'
  BY <1>2, EditKeeps
<1>3. ASSUME NEW x \in Exports, ExportStep(x) PROVE IInv'
  BY <1>3, ExportKeeps
<1>4. CASE UNCHANGED vars
  BY <1>4 DEF vars, runVars, otherVars, IInv, Types, TypeOK, CallersInv, RunInv, LateInv,
     Abandoned, EditInv, ExportInv, IsCopy, OneMilestone, DocumentsTellTheTruth
<1>5. ASSUME NEW mark \in late, LandLate(mark) PROVE IInv'
  BY <1>5, LandKeeps
<1> QED
  BY <1>1, <1>2, <1>3, <1>4, <1>5 DEF Next, RunActs

-----------------------------------------------------------------------------
(* The theorems *)

\* Every state of a backlog satisfies the inductive invariant.
THEOREM Invariance == Spec => []IInv
<1>1. Init => IInv
  BY InitInv
<1>2. IInv /\ [Next]_vars => IInv'
  BY NextInv
<1> QED
  BY <1>1, <1>2, PTL DEF Spec

\* The documents, the tracker and the callers' local state are well formed.
THEOREM TypeCorrect == Spec => []TypeOK
<1>1. IInv => TypeOK
  BY DEF IInv, Types
<1> QED
  BY <1>1, Invariance, PTL

\* What the documents of the stories and the epic say happened: no put of
\* code generation, of an edit or of an export comes before what it records.
THEOREM Truth == Spec => []DocumentsTellTheTruth
<1>1. IInv => DocumentsTellTheTruth
  BY DEF IInv
<1> QED
  BY <1>1, Invariance, PTL

\* What a caller of an edit, a run or an export was told stays true, whatever
\* the others write afterwards.
THEOREM Answers == Spec => []AnswersStayTrue
<1>1. ASSUME IInv PROVE AnswersStayTrue
  <2>1. \A e \in Edits : edit[e].at = "saved" => e \in stories[StoryOf[e]].edits
    BY <1>1 DEF IInv, CallersInv, EditInv
  <2>2. \A r \in Runs \ blind : at[r] = "completed" => stories[StoryOf[r]].commit # Nothing
    BY <1>1 DEF IInv, CallersInv, RunInv
  <2>3. \A x \in Exports : export[x].at = "reported" =>
          \A s \in export[x].made : <<s, x>> \in audits /\ stories[s].issue # Nothing
    BY <1>1 DEF IInv, CallersInv, ExportInv
  <2> QED
    BY <2>1, <2>2, <2>3 DEF AnswersStayTrue
<1> QED
  BY <1>1, Invariance, PTL

-----------------------------------------------------------------------------
(* The parts of a story are independent *)

\* A new story has no edit, no code and no issue.
LEMMA InitMaps == Init => Fields!Init
BY DEF Init, NewStory, Fields!Init

\* Nothing is written of the parts of a story while its document stays.
LEMMA SameMaps == stories' = stories => UNCHANGED Fields!vars
BY DEF Fields!vars

\* A replaced document is one step of one part.
LEMMA ReplacedMaps ==
  ASSUME Types, NEW s \in Stories, Replaced(s),
         \/ \E e \in Edits : Edited(s, e)
         \/ \E g \in {"generating", "failed"} : MarkedAs(s, g)
         \/ \E r \in Runs : GeneratedBy(s, r)
         \/ \E x \in Exports : ExportedBy(s, x)
  PROVE  Fields!Next
<1>1. \A t \in Stories : t # s => stories'[t] = stories[t]
  BY DEF Replaced
<1>2. ASSUME NEW e \in Edits, Edited(s, e) PROVE Fields!Edit(s, e)
  BY <1>1, <1>2 DEF Edited, Fields!Edit
<1>3. ASSUME NEW g \in {"generating", "failed"}, MarkedAs(s, g) PROVE Fields!Mark(s, g)
  BY <1>1, <1>3 DEF MarkedAs, Fields!Mark
<1>4. ASSUME NEW r \in Runs, GeneratedBy(s, r) PROVE Fields!Generated(s, r)
  BY <1>1, <1>4 DEF GeneratedBy, Fields!Generated
<1>5. ASSUME NEW x \in Exports, ExportedBy(s, x) PROVE Fields!Exported(s, x)
  BY <1>1, <1>5 DEF ExportedBy, Fields!Exported
<1> QED
  BY <1>2, <1>3, <1>4, <1>5 DEF Fields!Next

\* A mark is a step of the story's code generation.
LEMMA MarkedMaps ==
  ASSUME Types, NEW r \in Runs, NEW place, MarkedBy(r, place)
  PROVE  Fields!Next
BY ReplacedMaps, StoryOfAssumption DEF MarkedBy

\* Every step of a backlog is a step of one part of one story, or none.
LEMMA NextMaps == IInv /\ [Next]_vars => [Fields!Next]_Fields!vars
<1> SUFFICES ASSUME IInv, [Next]_vars PROVE [Fields!Next]_Fields!vars
  OBVIOUS
<1> USE DEF IInv
<1>1. ASSUME NEW r \in Runs, RunActs(r) PROVE Fields!Next \/ stories' = stories
  BY <1>1, RunWrites, MarkedMaps
<1>2. ASSUME NEW e \in Edits, EditStep(e) PROVE Fields!Next \/ stories' = stories
  BY <1>2, EditWrites, ReplacedMaps, StoryOfAssumption
<1>3. ASSUME NEW x \in Exports, ExportStep(x) PROVE Fields!Next \/ stories' = stories
  BY <1>3, ExportWrites, ReplacedMaps DEF Replaced
<1>4. CASE UNCHANGED vars
  BY <1>4, SameMaps DEF vars
<1>5. ASSUME NEW mark \in late, LandLate(mark) PROVE Fields!Next \/ stories' = stories
  BY <1>5, LateWrites, MarkedMaps
<1> QED
  BY <1>1, <1>2, <1>3, <1>4, <1>5, SameMaps DEF Next, RunActs

\* Whole documents that are read, changed and put back behave like three
\* independent parts: no writer loses or undoes what another wrote.
THEOREM Refinement == Spec => ImplementsFields
<1>1. Init => Fields!Init
  BY InitMaps
<1>2. IInv /\ [Next]_vars => [Fields!Next]_Fields!vars
  BY NextMaps
<1> QED
  BY <1>1, <1>2, Invariance, PTL DEF Spec, ImplementsFields, Fields!Spec
-----------------------------------------------------------------------------
(* A story that is being generated *)

\* Where a run still has a mark to make after it may have marked its story as
\* generating.
Owing == {"work", "commit", "markGenerated", "putGenerated", "markFailed", "putFailed"}

Tended ==
  \A s \in Stories : stories[s].generation = "generating" =>
    Excused(s) \/ \E r \in Runs : StoryOf[r] = s /\ at[r] \in Owing

\* The steps a run has left at most.
Steps(place) ==
  CASE place = "queued"         -> 10
    [] place = "markGenerating" -> 9
    [] place = "putGenerating"  -> 8
    [] place = "work"           -> 7
    [] place = "commit"         -> 6
    [] place = "markGenerated"  -> 5
    [] place = "putGenerated"   -> 4
    [] place = "last"           -> 3
    [] place = "markFailed"     -> 2
    [] place = "putFailed"      -> 1
    [] OTHER                    -> 0

\* What one step of a run makes of its place.
LEMMA RunMoves ==
  ASSUME IInv, NEW r \in Runs, RunActs(r)
  PROVE  /\ at[r] \notin {"killed", "lost", "raised"}
         /\ at'[r] # at[r] /\ Steps(at'[r]) < Steps(at[r])
         /\ at[r] \in Owing =>
              \/ at'[r] \in Owing \cup {"killed", "lost", "raised"} \/ r \in blind'
              \/ at[r] \in {"putGenerated", "putFailed"} /\ MarkPut(r)
         /\ at[r] = "putGenerating" /\ stories' # stories => at'[r] \in Owing
<1>1. \A place : Goto(r, place) => at'[r] = place
  BY DEF Goto, IInv, Types, TypeOK
<1>2. CASE Start(r) \/ Proceed(r) \/ NoticeKill(r) \/ CommitFiles(r)
  BY <1>1, <1>2 DEF Start, Proceed, NoticeKill, CommitFiles, Owing, Steps
<1>3. CASE MarkRead(r)
  BY <1>1, <1>3 DEF MarkRead, Marking, PutOf, Owing, Steps
<1>4. CASE MarkNothing(r)
  BY <1>1, <1>4 DEF MarkNothing, Marking, AfterMark, Owing, Steps
<1>5. CASE MarkPut(r)
  BY <1>1, <1>5 DEF MarkPut, Putting, AfterMark, Owing, Steps
<1>6. CASE MarkConflict(r) \/ RunFails(r)
  <2>1. at[r] \in Running /\ at'[r] = Handler(at[r])
    BY <1>1, <1>6 DEF MarkConflict, RunFails, Running
  <2> QED
    BY <2>1 DEF Running, Marking, Putting, Handler, Owing, Steps
<1>7. CASE Crash(r)
  BY <1>1, <1>7 DEF Crash, Running, Marking, Putting, Owing, Steps
<1> QED
  BY <1>2, <1>3, <1>4, <1>5, <1>6, <1>7 DEF RunActs, RunStep

\* A run that moves on never comes back: with its queue and its handlers it is
\* over after ten steps of its own at most, whoever conflicts with it.
THEOREM Onward ==
  Spec => [][\A r \in Runs : RunActs(r) \/ at'[r] # at[r] => Steps(at'[r]) < Steps(at[r])]_vars
<1> DEFINE Moves == \A r \in Runs : RunActs(r) \/ at'[r] # at[r] => Steps(at'[r]) < Steps(at[r])
<1>1. IInv /\ [Next]_vars => [Moves]_vars
  <2> SUFFICES ASSUME IInv, [Next]_vars, NEW r \in Runs, RunActs(r) \/ at'[r] # at[r],
                      ~UNCHANGED vars
               PROVE  Steps(at'[r]) < Steps(at[r])
    OBVIOUS
  <2>1. CASE RunActs(r)
    BY <2>1, RunMoves
  <2>2. CASE at'[r] # at[r]
    <3>1. ASSUME NEW e \in Edits, EditStep(e) PROVE at' = at
      BY <3>1 DEF EditStep, EditRead, EditAudit, EditPut, EditConflict, EditFails, runVars
    <3>2. ASSUME NEW x \in Exports, ExportStep(x) PROVE at' = at
      BY <3>2 DEF ExportStep, Fetch, FindMilestone, CreateMilestone, MilestoneFails,
         CreateIssue, IssueFails, SaveStory, StartSaving, SaveConflict, SaveEpic, ExportRaises,
         runVars
    <3>3. ASSUME NEW mark \in late, LandLate(mark) PROVE at' = at
      BY <3>3 DEF LandLate, runVars
    <3>4. PICK q \in Runs : RunActs(q)
      BY <2>2, <3>1, <3>2, <3>3 DEF Next, RunActs
    <3>5. q = r
      BY <2>2, <3>4, RunGoes
    <3> QED
      BY <3>4, <3>5, RunMoves
  <2> QED
    BY <2>1, <2>2
<1> QED
  BY <1>1, Invariance, PTL DEF Spec

\* A story that shows "generating" is some run's to settle, unless a run of it
\* was killed, died, found no document to mark or failed in its handler: of two runs,
\* neither takes the mark of the other for its own.  It is what GenerationSettles
\* leaves to the workers to do.
THEOREM Settling == Spec => []Tended
<1>1. Init => Tended
  BY DEF Init, Tended, NewStory
<1>2. IInv /\ Tended /\ [Next]_vars => Tended'
  <2> SUFFICES ASSUME IInv, Tended, [Next]_vars,
                      NEW s \in Stories, stories'[s].generation = "generating"
               PROVE  Excused(s)' \/ \E r \in Runs : StoryOf[r] = s /\ at'[r] \in Owing
    BY DEF Tended
  <2>1. CASE UNCHANGED runVars /\ stories'[s].generation = stories[s].generation
    BY <2>1 DEF Tended, Excused, runVars
  <2>2. ASSUME NEW r \in Runs, RunActs(r)
        PROVE  Excused(s)' \/ \E q \in Runs : StoryOf[q] = s /\ at'[q] \in Owing
    <3>1. blind \subseteq blind'
      BY <2>2 DEF RunActs, Start, RunStep, NoticeKill, Proceed, CommitFiles, MarkRead,
         MarkNothing, MarkPut, MarkConflict, RunFails, Crash
    <3>2. CASE stories'[s] = stories[s]
      <4>1. Excused(s) => Excused(s)'
        BY <2>2, <3>1, RunGoes, RunMoves DEF Excused
      <4>2. ASSUME NEW q \in Runs, StoryOf[q] = s, at[q] \in Owing
            PROVE  Excused(s)' \/ at'[q] \in Owing
        <5>1. CASE q # r
          BY <2>2, <4>2, <5>1, RunGoes
        <5>2. CASE q = r /\ at[r] \in {"putGenerated", "putFailed"} /\ MarkPut(r)
          <6>1. Replaced(s)
            BY <4>2, <5>2, MarkedPut
            DEF MarkPut, MarkedBy, IInv, Types, TypeOK, CallersInv, RunInv
          <6>2. stories[s].rev \in Nat
            BY StoryFacts DEF IInv, Types, TypeOK
          <6> QED
            BY <3>2, <6>1, <6>2 DEF Replaced
        <5>3. CASE q = r /\ ~(at[r] \in {"putGenerated", "putFailed"} /\ MarkPut(r))
          BY <2>2, <4>2, <5>3, RunMoves DEF Excused
        <5> QED
          BY <5>1, <5>2, <5>3
      <4> QED
        BY <3>2, <4>1, <4>2 DEF Tended
    <3>3. CASE stories'[s] # stories[s]
      <4>1. /\ s = StoryOf[r] /\ at[r] \in Putting
            /\ at[r] = "putGenerated" => GeneratedBy(s, r)
            /\ at[r] = "putFailed" => stories'[s].generation = "failed"
        BY <2>2, <3>3, RunWrites DEF MarkedBy, Replaced
      <4>2. at[r] = "putGenerating"
        BY <4>1 DEF Putting, GeneratedBy
      <4>3. at'[r] \in Owing
        BY <2>2, <3>3, <4>2, RunMoves
      <4> QED
        BY <4>1, <4>3
    <3> QED
      BY <3>2, <3>3
  <2>3. ASSUME NEW e \in Edits, EditStep(e)
        PROVE  UNCHANGED runVars /\ stories'[s].generation = stories[s].generation
    <3>1. UNCHANGED runVars
      BY <2>3 DEF EditStep, EditRead, EditAudit, EditPut, EditConflict, EditFails
    <3> QED
      BY <2>3, <3>1, EditWrites DEF Replaced, Edited
  <2>4. ASSUME NEW x \in Exports, ExportStep(x)
        PROVE  UNCHANGED runVars /\ stories'[s].generation = stories[s].generation
    <3>1. UNCHANGED runVars
      BY <2>4 DEF ExportStep, Fetch, FindMilestone, CreateMilestone, MilestoneFails,
         CreateIssue, IssueFails, SaveStory, StartSaving, SaveConflict, SaveEpic, ExportRaises
    <3> QED
      BY <2>4, <3>1, ExportWrites DEF Replaced, ExportedBy
  <2>5. ASSUME NEW mark \in late, LandLate(mark)
        PROVE  Excused(s)' \/ \E r \in Runs : StoryOf[r] = s /\ at'[r] \in Owing
    <3>1. UNCHANGED runVars /\ mark.run \in Runs /\ MarkedBy(mark.run, mark.place)
      BY <2>5, LateWrites DEF LandLate
    <3>2. CASE stories'[s] = stories[s]
      BY <2>1, <3>1, <3>2
    <3>3. CASE stories'[s] # stories[s]
      <4>1. StoryOf[mark.run] = s
        BY <3>1, <3>3 DEF MarkedBy, Replaced
      <4>2. Abandoned(mark.run)
        BY <2>5 DEF IInv, CallersInv, LateInv, LandLate, Accepts
      <4> QED
        BY <3>1, <4>1, <4>2 DEF Abandoned, Excused, Owing, runVars
    <3> QED
      BY <3>2, <3>3
  <2>6. CASE UNCHANGED vars
    BY <2>1, <2>6 DEF vars
  <2> QED
    BY <2>1, <2>2, <2>3, <2>4, <2>5, <2>6 DEF Next, RunActs
<1> QED
  BY <1>1, <1>2, Invariance, PTL DEF Spec
=============================================================================
