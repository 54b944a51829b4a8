------------------------------ MODULE Backlog ------------------------------
(***************************************************************************)
(* The story documents of the backlog and the three kinds of writers that  *)
(* read a whole document, change their part of it and put it back without  *)
(* a retry: code generation runs (agents/codegen/task.py), edits by humans *)
(* (epic_story_service, stories.py) and exports to GitHub (export_tools.py *)
(* and the GitHubAdapter), with the epic's milestone in the tracker.       *)
(*                                                                         *)
(* CouchDB refuses a put that does not carry the current revision.  A      *)
(* gateway read that fails is seen as "no document".  A put whose caller   *)
(* has timed out or died may still land: later, where the caller goes on   *)
(* to its handler, and at once for an edit or an export, which is over.    *)
(* A worker that dies leaves its run: the message was acknowledged before  *)
(* the task began.  The commit of the generated files is one step here     *)
(* (CodegenCommit shows why it may be).                                    *)
(***************************************************************************)
EXTENDS Naturals, FiniteSets

CONSTANTS
  Stories,   \* the stories of one epic
  Runs,      \* code generation runs; a second one for a story is another run
  Edits,     \* PATCH requests for a story
  Exports,   \* POST /export requests, for the epic and all its stories
  StoryOf,   \* the story of every run and edit
  Nothing,
  MaxFaults  \* bound: calls that fail, reads that find nothing, lost replies, dead workers

ASSUME WritersAssumption == Nothing \notin Runs \cup Exports
ASSUME StoryOfAssumption == StoryOf \in [Runs \cup Edits -> Stories]
ASSUME BacklogFaultsAssumption == MaxFaults \in Nat

VARIABLES
  stories,   \* the story documents
  epic,      \* the epic document
  at,        \* where every run is
  seen,      \* the story as the run, between its read and its put, read it
  blind,     \* history: runs one of whose marks found no document
  landed,    \* runs whose commit is on the branch
  late,      \* marks in flight whose run has timed out or died
  edit,      \* every edit: where it is and the story it read
  export,    \* every export: where it is, what it read and what it has to do
  tracker,   \* the issues and milestones in GitHub
  audits,    \* edits, and stories with their exports, that are audited
  faults

runVars == <<at, seen, blind, landed, late>>
otherVars == <<epic, edit, export, tracker, audits>>
vars == <<stories, runVars, otherVars, faults>>

-----------------------------------------------------------------------------
(* Documents *)

GenerationStatus == {"not_generated", "generating", "generated", "failed"}
Story ==
  [rev: Nat, edits: SUBSET Edits, generation: GenerationStatus,
   commit: Runs \cup {Nothing}, issue: Exports \cup {Nothing}]
NewStory ==
  [rev |-> 1, edits |-> {}, generation |-> "not_generated",
   commit |-> Nothing, issue |-> Nothing]

\* Mutant: a store that takes any put.
AcceptsAnyRevision(s, doc) == TRUE
Accepts(s, doc) == stories[s].rev = doc.rev

Put(s, doc) == stories' = [stories EXCEPT ![s] = [doc EXCEPT !.rev = @ + 1]]

Fault == faults < MaxFaults /\ faults' = faults + 1

-----------------------------------------------------------------------------
(* Code generation: run_codegen and its wrapper *)

Marking == {"markGenerating", "markGenerated", "markFailed"}
Putting == {"putGenerating", "putGenerated", "putFailed"}
Running == {"work", "commit", "last"} \cup Marking \cup Putting
RunPlace == Running \cup {"queued", "completed", "failed", "killed", "raised", "lost"}

Goto(r, place) == at' = [at EXCEPT ![r] = place]

PutOf(place) ==
  CASE place = "markGenerating" -> "putGenerating"
    [] place = "markGenerated"  -> "putGenerated"
    [] place = "markFailed"     -> "putFailed"

\* What follows a _mark_story_status.
AfterMark(place) ==
  CASE place \in {"markGenerating", "putGenerating"} -> "work"
    [] place \in {"markGenerated", "putGenerated"}   -> "last"
    [] place \in {"markFailed", "putFailed"}         -> "failed"

\* Mutant: the wrapper records the failure of the job only.
SilentHandler(place) ==
  IF place \in {"markFailed", "putFailed"} THEN "raised" ELSE "failed"

\* Mutant: the final mark is made whatever happened.
MarkAnyway(place) == IF place = "work" THEN "markGenerated" ELSE "raised"

\* Where an exception leads: to the wrapper's handler, or out of it.
Handler(place) ==
  IF place \in {"markFailed", "putFailed"} THEN "raised" ELSE "markFailed"

\* Mutant: a new generation starts from a clean record.
MarkedAfresh(r, place, doc) ==
  CASE place = "putGenerating" -> [doc EXCEPT !.generation = "generating", !.commit = Nothing]
    [] place = "putGenerated"  -> [doc EXCEPT !.generation = "generated", !.commit = r]
    [] place = "putFailed"     -> [doc EXCEPT !.generation = "failed"]

\* Mutant: the job's status is written where the story's belongs.
MarkedAsJob(r, place, doc) ==
  CASE place = "putGenerating" -> [doc EXCEPT !.generation = "running"]
    [] place = "putGenerated"  -> [doc EXCEPT !.generation = "completed", !.commit = r]
    [] place = "putFailed"     -> [doc EXCEPT !.generation = "failed"]

\* The fields a mark of the run changes.
Marked(r, place, doc) ==
  CASE place = "putGenerating" -> [doc EXCEPT !.generation = "generating"]
    [] place = "putGenerated"  -> [doc EXCEPT !.generation = "generated", !.commit = r]
    [] place = "putFailed"     -> [doc EXCEPT !.generation = "failed"]

LateMark == [run: Runs, place: Putting, doc: Story]

Forget(r) == seen' = [seen EXCEPT ![r] = NewStory]

\* The task's first check and its first checkpoint.
Start(r) ==
  /\ at[r] = "queued"
  /\ Goto(r, "markGenerating")
  /\ UNCHANGED <<stories, seen, blind, landed, late, otherVars, faults>>

\* kill_switch.check passes, and the calls up to the next one succeed.
Proceed(r) ==
  /\ \/ at[r] = "work" /\ Goto(r, "commit")
     \/ at[r] = "last" /\ Goto(r, "completed")
  /\ UNCHANGED <<stories, seen, blind, landed, late, otherVars, faults>>

\* A check finds a kill's flag (JobPipeline says when): record_kill writes the
\* job, and the story stays as it is.
NoticeKill(r) ==
  /\ at[r] \in {"queued", "work", "last"}
  /\ Goto(r, "killed")
  /\ UNCHANGED <<stories, seen, blind, landed, late, otherVars, faults>>

\* The commit, and the audit event after it.
CommitFiles(r) ==
  /\ at[r] = "commit"
  /\ landed' = landed \cup {r}
  /\ Goto(r, "markGenerated")
  /\ UNCHANGED <<stories, seen, blind, late, otherVars, faults>>

MarkRead(r) ==
  /\ at[r] \in Marking
  /\ seen' = [seen EXCEPT ![r] = stories[StoryOf[r]]]
  /\ Goto(r, PutOf(at[r]))
  /\ UNCHANGED <<stories, blind, landed, late, otherVars, faults>>

\* if not story_docs: return
MarkNothing(r) ==
  /\ at[r] \in Marking
  /\ Fault
  /\ blind' = blind \cup {r}
  /\ Goto(r, AfterMark(at[r]))
  /\ UNCHANGED <<stories, seen, landed, late, otherVars>>

MarkPut(r) ==
  /\ at[r] \in Putting
  /\ Accepts(StoryOf[r], seen[r])
  /\ Put(StoryOf[r], Marked(r, at[r], seen[r]))
  /\ Forget(r)
  /\ Goto(r, AfterMark(at[r]))
  /\ UNCHANGED <<blind, landed, late, otherVars, faults>>

\* The put conflicts: an exception like any other.
MarkConflict(r) ==
  /\ at[r] \in Putting
  /\ ~Accepts(StoryOf[r], seen[r])
  /\ Forget(r)
  /\ Goto(r, Handler(at[r]))
  /\ UNCHANGED <<stories, blind, landed, late, otherVars, faults>>

\* What is left of a call nobody waits for any more: nothing; or the commit; or a
\* mark on its way, which a later revision of its story would refuse for good.
CallLeft(r) ==
  \/ UNCHANGED <<landed, late>>
  \/ at[r] = "commit" /\ landed' = landed \cup {r} /\ UNCHANGED late
  \/ /\ at[r] \in Putting
     /\ Accepts(StoryOf[r], seen[r])
     /\ late' = late \cup {[run |-> r, place |-> at[r], doc |-> seen[r]]}
     /\ UNCHANGED landed

\* A call fails or times out, or a check of the run's input fails: no approval,
\* a rejected output, a story that is not found.
RunFails(r) ==
  /\ at[r] \in Running
  /\ Fault
  /\ CallLeft(r)
  /\ Forget(r)
  /\ Goto(r, Handler(at[r]))
  /\ UNCHANGED <<stories, blind, otherVars>>

\* The worker dies.  task_acks_late is not set: nobody is given the task again.
Crash(r) ==
  /\ at[r] \in Running
  /\ Fault
  /\ CallLeft(r)
  /\ Forget(r)
  /\ Goto(r, "lost")
  /\ UNCHANGED <<stories, blind, otherVars>>

\* A mark lands that nobody waits for, once: its put makes a new revision.
LandLate(mark) ==
  /\ Accepts(StoryOf[mark.run], mark.doc)
  /\ Put(StoryOf[mark.run], Marked(mark.run, mark.place, mark.doc))
  /\ UNCHANGED <<runVars, otherVars, faults>>

RunStep(r) ==
  \/ Proceed(r) \/ CommitFiles(r)
  \/ MarkRead(r) \/ MarkNothing(r) \/ MarkPut(r) \/ MarkConflict(r)
  \/ RunFails(r)

-----------------------------------------------------------------------------
(* PATCH /stories/{story_id}: read, audit, put *)

EditGoes(e, place, doc) == edit' = [edit EXCEPT ![e] = [at |-> place, seen |-> doc]]

EditRead(e) ==
  /\ edit[e].at = "new"
  /\ EditGoes(e, "read", stories[StoryOf[e]])
  /\ UNCHANGED <<stories, runVars, epic, export, tracker, audits, faults>>

\* The event's id goes into edit_history_ref, so it is appended first.
EditAudit(e) ==
  /\ edit[e].at = "read"
  /\ audits' = audits \cup {e}
  /\ EditGoes(e, "audited", edit[e].seen)
  /\ UNCHANGED <<stories, runVars, epic, export, tracker, faults>>

EditPut(e) ==
  /\ edit[e].at = "audited"
  /\ Accepts(StoryOf[e], edit[e].seen)
  /\ Put(StoryOf[e], [edit[e].seen EXCEPT !.edits = @ \cup {e}])
  /\ EditGoes(e, "saved", NewStory)
  /\ UNCHANGED <<runVars, epic, export, tracker, audits, faults>>

EditConflict(e) ==
  /\ edit[e].at = "audited"
  /\ ~Accepts(StoryOf[e], edit[e].seen)
  /\ EditGoes(e, "refused", NewStory)
  /\ UNCHANGED <<stories, runVars, epic, export, tracker, audits, faults>>

\* A failing call, with or without its effect; a failed read is a 404.
EditFails(e) ==
  /\ edit[e].at \in {"new", "read", "audited"}
  /\ Fault
  /\ EditGoes(e, "refused", NewStory)
  /\ \/ UNCHANGED <<stories, audits>>
     \/ edit[e].at = "read" /\ audits' = audits \cup {e} /\ UNCHANGED stories
     \/ /\ edit[e].at = "audited"
        /\ Accepts(StoryOf[e], edit[e].seen)
        /\ Put(StoryOf[e], [edit[e].seen EXCEPT !.edits = @ \cup {e}])
        /\ UNCHANGED audits
  /\ UNCHANGED <<runVars, epic, export, tracker>>

EditStep(e) ==
  EditRead(e) \/ EditAudit(e) \/ EditPut(e) \/ EditConflict(e) \/ EditFails(e)

-----------------------------------------------------------------------------
(* POST /export: fetch, milestone, issues, then the documents *)

ExportPlace == {"new", "finding", "creating", "issues", "saving", "reported", "raised"}
ExportState ==
  [at: ExportPlace, epicRev: Nat, seen: [Stories -> Story],
   todo: SUBSET Stories, made: SUBSET Stories, milestone: Exports \cup {Nothing}]
NewExport ==
  [at |-> "new", epicRev |-> 0, seen |-> [s \in Stories |-> NewStory],
   todo |-> {}, made |-> {}, milestone |-> Nothing]

Becomes(x, state) == export' = [export EXCEPT ![x] = state]
Over(x, place) == Becomes(x, [NewExport EXCEPT !.at = place, !.made = export[x].made])

\* _fetch_docs leaves out what it does not find, without a word.  One step: each
\* document is put back on the revision read here, alone.
Fetch(x) ==
  /\ export[x].at = "new"
  /\ \E found \in SUBSET Stories :
       /\ IF found = Stories THEN UNCHANGED faults ELSE Fault
       /\ Becomes(x, [export[x] EXCEPT !.at = IF found = {} THEN "saving" ELSE "finding",
                                       !.epicRev = epic.rev,
                                       !.seen = stories,
                                       !.todo = found])
  /\ UNCHANGED <<stories, runVars, edit, epic, tracker, audits>>

\* GitHub keeps the titles of a repository's milestones unique: a second
\* creation is an error status.
TitleTaken == tracker.milestones # {}

\* _find_or_create_milestone: the search, and the creation if it failed.
FindMilestone(x) ==
  /\ export[x].at = "finding"
  /\ \/ ~TitleTaken /\ Becomes(x, [export[x] EXCEPT !.at = "creating"])
     \/ \E m \in tracker.milestones :
          Becomes(x, [export[x] EXCEPT !.at = "issues", !.milestone = m])
  /\ UNCHANGED <<stories, runVars, edit, epic, tracker, audits, faults>>

CreateMilestone(x) ==
  /\ export[x].at = "creating"
  /\ ~TitleTaken
  /\ tracker' = [tracker EXCEPT !.milestones = @ \cup {x}]
  /\ Becomes(x, [export[x] EXCEPT !.at = "issues", !.milestone = x])
  /\ UNCHANGED <<stories, runVars, edit, epic, audits, faults>>

\* An error status: all stories of the epic are reported as failed.
MilestoneFails(x) ==
  /\ export[x].at \in {"finding", "creating"}
  /\ IF export[x].at = "creating" /\ TitleTaken THEN UNCHANGED faults ELSE Fault
  /\ Becomes(x, [export[x] EXCEPT !.at = "saving", !.todo = {}])
  /\ UNCHANGED <<stories, runVars, edit, epic, tracker, audits>>

CreateIssue(x, s) ==
  /\ export[x].at = "issues"
  /\ s \in export[x].todo
  /\ tracker' = [tracker EXCEPT !.issues = @ \cup {<<s, x>>}]
  /\ Becomes(x, [export[x] EXCEPT !.todo = @ \ {s}, !.made = @ \cup {s}])
  /\ UNCHANGED <<stories, runVars, edit, epic, audits, faults>>

\* An error status or the rate limit: the story is reported as failed.
IssueFails(x, s) ==
  /\ export[x].at = "issues"
  /\ s \in export[x].todo
  /\ Fault
  /\ Becomes(x, [export[x] EXCEPT !.todo = @ \ {s}])
  /\ UNCHANGED <<stories, runVars, edit, epic, tracker, audits>>

ToSave(x) == export[x].made

\* The tracker part is over; todo now holds the stories to write back.
StartSaving(x) ==
  /\ export[x].at = "issues"
  /\ export[x].todo = {}
  /\ Becomes(x, [export[x] EXCEPT !.at = "saving", !.todo = ToSave(x)])
  /\ UNCHANGED <<stories, runVars, edit, epic, tracker, audits, faults>>

PutIssue(x, s) ==
  /\ Accepts(s, export[x].seen[s])
  /\ Put(s, [export[x].seen[s] EXCEPT !.issue = x])

\* A story's put and its audit event.
SaveStory(x, s) ==
  /\ export[x].at = "saving"
  /\ s \in export[x].todo
  /\ PutIssue(x, s)
  /\ audits' = audits \cup {<<s, x>>}
  /\ Becomes(x, [export[x] EXCEPT !.todo = @ \ {s}])
  /\ UNCHANGED <<runVars, edit, epic, tracker, faults>>

\* The first conflict ends the export (501).
SaveConflict(x) ==
  /\ export[x].at = "saving"
  /\ \/ \E s \in export[x].todo : ~Accepts(s, export[x].seen[s])
     \/ /\ export[x].todo = {} /\ export[x].milestone # Nothing
        /\ epic.rev # export[x].epicRev
  /\ Over(x, "raised")
  /\ UNCHANGED <<stories, runVars, edit, epic, tracker, audits, faults>>

PutEpic(x) ==
  /\ epic.rev = export[x].epicRev
  /\ epic' = [rev |-> epic.rev + 1, milestone |-> export[x].milestone]

\* The epic is written back last, if a milestone was found or made.
SaveEpic(x) ==
  /\ export[x].at = "saving"
  /\ export[x].todo = {}
  /\ IF export[x].milestone = Nothing THEN UNCHANGED epic ELSE PutEpic(x)
  /\ Over(x, "reported")
  /\ UNCHANGED <<stories, runVars, edit, tracker, audits, faults>>

\* A call fails or times out, with or without its effect, and nothing catches it.
ExportRaises(x) ==
  /\ export[x].at \notin {"reported", "raised"}
  /\ Fault
  /\ \/ UNCHANGED <<stories, epic, tracker>>
     \/ /\ export[x].at = "creating" /\ ~TitleTaken
        /\ tracker' = [tracker EXCEPT !.milestones = @ \cup {x}]
        /\ UNCHANGED <<stories, epic>>
     \/ /\ export[x].at = "issues"
        /\ \E s \in export[x].todo :
             tracker' = [tracker EXCEPT !.issues = @ \cup {<<s, x>>}]
        /\ UNCHANGED <<stories, epic>>
     \/ /\ export[x].at = "saving"
        /\ \E s \in export[x].todo : PutIssue(x, s)
        /\ UNCHANGED <<epic, tracker>>
     \/ /\ export[x].at = "saving"
        /\ export[x].todo = {} /\ export[x].milestone # Nothing
        /\ PutEpic(x)
        /\ UNCHANGED <<stories, tracker>>
  /\ Over(x, "raised")
  /\ UNCHANGED <<runVars, edit, audits>>

ExportStep(x) ==
  \/ Fetch(x) \/ FindMilestone(x) \/ CreateMilestone(x) \/ MilestoneFails(x)
  \/ \E s \in Stories : CreateIssue(x, s) \/ IssueFails(x, s) \/ SaveStory(x, s)
  \/ StartSaving(x) \/ SaveConflict(x) \/ SaveEpic(x) \/ ExportRaises(x)

-----------------------------------------------------------------------------

Init ==
  /\ stories = [s \in Stories |-> NewStory]
  /\ epic = [rev |-> 1, milestone |-> Nothing]
  /\ at = [r \in Runs |-> "queued"]
  /\ seen = [r \in Runs |-> NewStory]
  /\ blind = {}
  /\ landed = {}
  /\ late = {}
  /\ edit = [e \in Edits |-> [at |-> "new", seen |-> NewStory]]
  /\ export = [x \in Exports |-> NewExport]
  /\ tracker = [issues |-> {}, milestones |-> {}]
  /\ audits = {}
  /\ faults = 0

Next ==
  \/ \E r \in Runs : Start(r) \/ RunStep(r) \/ NoticeKill(r) \/ Crash(r)
  \/ \E mark \in late : LandLate(mark)
  \/ \E e \in Edits : EditStep(e)
  \/ \E x \in Exports : ExportStep(x)

Spec == Init /\ [][Next]_vars

\* A worker that lives goes on with its run: its calls return or time out.
FairSpec == Spec /\ \A r \in Runs : WF_vars(RunStep(r))

-----------------------------------------------------------------------------
(* Properties *)

\* The documents, the tracker and the callers' local state are well formed.
TypeOK ==
  /\ stories \in [Stories -> Story]
  /\ epic \in [rev: Nat, milestone: Exports \cup {Nothing}]
  /\ at \in [Runs -> RunPlace]
  /\ seen \in [Runs -> Story]
  /\ blind \subseteq Runs /\ landed \subseteq Runs /\ late \subseteq LateMark
  /\ edit \in [Edits -> [at: {"new", "read", "audited", "saved", "refused"}, seen: Story]]
  /\ export \in [Exports -> ExportState]
  /\ tracker.issues \subseteq Stories \X Exports
  /\ tracker.milestones \subseteq Exports
  /\ audits \subseteq Edits \cup (Stories \X Exports)
  /\ faults \in 0 .. MaxFaults

\* The writers put whole documents, yet none of them loses or changes what
\* another wrote: an edit, an issue's key and a commit stay in the story
\* whatever runs beside them.
Fields == INSTANCE StoryFields WITH
  edits <- [s \in Stories |-> stories[s].edits],
  generation <- [s \in Stories |-> stories[s].generation],
  commit <- [s \in Stories |-> stories[s].commit],
  issue <- [s \in Stories |-> stories[s].issue]

ImplementsFields == Fields!Spec

\* What a document says happened: a story's commit is on the branch, its issue
\* is in the tracker, its edits have audit events, and generated code is a
\* commit; the epic's milestone is the tracker's only one.
DocumentsTellTheTruth ==
  /\ \A s \in Stories :
       LET doc == stories[s] IN
       /\ doc.edits \subseteq audits
       /\ doc.commit # Nothing => doc.commit \in landed
       /\ doc.issue # Nothing => <<s, doc.issue>> \in tracker.issues
       /\ doc.generation = "generated" => doc.commit # Nothing
  /\ epic.milestone # Nothing => tracker.milestones = {epic.milestone}

\* What a caller was told stays true: a saved edit is in its story, the story
\* of a completed run names a commit, and of an export that returned every
\* issue it made is audited and its story names an issue.
AnswersStayTrue ==
  /\ \A e \in Edits : edit[e].at = "saved" => e \in stories[StoryOf[e]].edits
  /\ \A r \in Runs \ blind : at[r] = "completed" => stories[StoryOf[r]].commit # Nothing
  /\ \A x \in Exports : export[x].at = "reported" =>
       \A s \in export[x].made :
         <<s, x>> \in audits /\ stories[s].issue # Nothing

\* A story does not show "generating" for ever, unless one of its runs was
\* killed, died with its worker, found no document to mark, or failed in the
\* handler of a failure: nothing repairs the story after these.
Excused(s) ==
  \E r \in Runs :
    /\ StoryOf[r] = s
    /\ r \in blind \/ at[r] \in {"killed", "lost", "raised"}

GenerationSettles ==
  \A s \in Stories :
    stories[s].generation = "generating" ~>
      stories[s].generation # "generating" \/ Excused(s)

\* Each export is audited: when an export is over, every issue it made has an
\* audit event.
ExportsAreAudited ==
  \A x \in Exports : export[x].at \in {"reported", "raised"} =>
    \A s \in Stories : <<s, x>> \in tracker.issues => <<s, x>> \in audits
=============================================================================
