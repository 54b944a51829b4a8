-------------------------- MODULE CheckpointProofs --------------------------
(***************************************************************************)
(* What Checkpoint guarantees for every set of tasks and kill requests,    *)
(* every number of retries and every number of faults.                     *)
(***************************************************************************)
EXTENDS Checkpoint, SequenceTheorems, TLAPS

-----------------------------------------------------------------------------
(* Lemmas about job_run.tasks *)

\* In a list with one entry per task, the search finds that entry.
LEMMA FirstEntryIsTheEntry ==
  ASSUME NEW entries \in Seq(Entry), Unique(entries),
         NEW t, NEW i \in DOMAIN entries, entries[i].task = t
  PROVE  FirstEntry(entries, t) = i
<1>1. DOMAIN entries = 1 .. Len(entries) /\ Len(entries) \in Nat
  BY LenProperties
<1>2. \A j \in 1 .. i - 1 : entries[j].task # t
  BY <1>1 DEF Unique
<1>3. \A k \in DOMAIN entries : entries[k].task = t => k = i
  BY DEF Unique
<1> QED
  BY <1>2, <1>3 DEF FirstEntry

\* Recording a task yields a list with one entry per task, in which that task
\* has the new status and every other task the status it had.
LEMMA UpsertRecords ==
  ASSUME NEW entries \in Seq(Entry), Unique(entries),
         NEW t \in Tasks, NEW s \in TaskStatus
  PROVE  /\ Upsert(entries, t, s) \in Seq(Entry)
         /\ Unique(Upsert(entries, t, s))
         /\ StatusOf(Upsert(entries, t, s), t) = s
         /\ \A u \in Tasks : u # t =>
              StatusOf(Upsert(entries, t, s), u) = StatusOf(entries, u)
<1> DEFINE e == [task |-> t, status |-> s]
           new == Upsert(entries, t, s)
<1>1. DOMAIN entries = 1 .. Len(entries) /\ Len(entries) \in Nat
  BY LenProperties
<1>2. e \in Entry
  BY DEF Entry
<1>3. \A i \in DOMAIN entries : entries[i] \in Entry
  BY <1>1, ElementOfSeq
<1>4. CASE HasEntry(entries, t)
  <2>1. PICK i \in DOMAIN entries : entries[i].task = t
    BY <1>4 DEF HasEntry
  <2>2. FirstEntry(entries, t) = i
    BY <2>1, FirstEntryIsTheEntry
  <2>3. [entries[i] EXCEPT !.status = s] = e
    BY <2>1, <1>3 DEF Entry
  <2>4. new = [entries EXCEPT ![i] = e]
    BY <1>4, <2>2, <2>3 DEF Upsert
  <2>5. /\ new \in Seq(Entry)
        /\ DOMAIN new = DOMAIN entries
        /\ \A j \in DOMAIN entries : new[j] = IF j = i THEN e ELSE entries[j]
    BY <2>4, <1>1, <1>2, ExceptSeq
  <2>6. \A j \in DOMAIN new : new[j].task = entries[j].task
    BY <2>1, <2>5
  <2>7. Unique(new)
    BY <2>5, <2>6 DEF Unique
  <2>8. StatusOf(new, t) = s
    <3>1. new[i].task = t /\ new[i].status = s /\ i \in DOMAIN new
      BY <2>5
    <3>2. FirstEntry(new, t) = i
      BY <3>1, <2>5, <2>7, FirstEntryIsTheEntry
    <3> QED
      BY <3>1, <3>2 DEF StatusOf, HasEntry
  <2>9. ASSUME NEW u \in Tasks, u # t
        PROVE  StatusOf(new, u) = StatusOf(entries, u)
    <3>1. CASE HasEntry(entries, u)
      <4>1. PICK j \in DOMAIN entries : entries[j].task = u
        BY <3>1 DEF HasEntry
      <4>2. j # i /\ j \in DOMAIN new /\ new[j] = entries[j]
        BY <4>1, <2>1, <2>5, <2>9
      <4>3. FirstEntry(entries, u) = j
        BY <4>1, FirstEntryIsTheEntry
      <4>4. FirstEntry(new, u) = j
        BY <4>1, <4>2, <2>5, <2>7, FirstEntryIsTheEntry
      <4> QED
        BY <4>1, <4>2, <4>3, <4>4 DEF StatusOf, HasEntry
    <3>2. CASE ~HasEntry(entries, u)
      BY <3>2, <2>5, <2>6 DEF StatusOf, HasEntry
    <3> QED
      BY <3>1, <3>2
  <2> QED
    BY <2>5, <2>7, <2>8, <2>9
<1>5. CASE ~HasEntry(entries, t)
  <2> DEFINE n == Len(entries) + 1
  <2>1. /\ new = Append(entries, e)
        /\ new \in Seq(Entry)
        /\ DOMAIN new = 1 .. n
        /\ n \in DOMAIN new
        /\ new[n] = e
        /\ \A j \in DOMAIN entries : j # n /\ j \in DOMAIN new /\ new[j] = entries[j]
    BY <1>5, <1>1, <1>2 DEF Upsert
  <2>2. \A j \in DOMAIN new : j = n \/ j \in DOMAIN entries
    BY <2>1, <1>1
  <2>3. \A j \in DOMAIN entries : new[j].task # t
    BY <2>1, <1>5 DEF HasEntry
  <2>4. Unique(new)
    BY <2>1, <2>2, <2>3 DEF Unique
  <2>5. StatusOf(new, t) = s
    <3>1. new[n].task = t /\ new[n].status = s
      BY <2>1
    <3>2. FirstEntry(new, t) = n
      BY <3>1, <2>1, <2>4, FirstEntryIsTheEntry
    <3> QED
      BY <3>1, <3>2, <2>1 DEF StatusOf, HasEntry
  <2>6. ASSUME NEW u \in Tasks, u # t
        PROVE  StatusOf(new, u) = StatusOf(entries, u)
    <3>1. CASE HasEntry(entries, u)
      <4>1. PICK j \in DOMAIN entries : entries[j].task = u
        BY <3>1 DEF HasEntry
      <4>2. FirstEntry(entries, u) = j
        BY <4>1, FirstEntryIsTheEntry
      <4>3. FirstEntry(new, u) = j
        BY <4>1, <2>1, <2>4, FirstEntryIsTheEntry
      <4> QED
        BY <4>1, <4>2, <4>3, <2>1 DEF StatusOf, HasEntry
    <3>2. CASE ~HasEntry(entries, u)
      BY <3>2, <2>1, <2>2, <2>6 DEF StatusOf, HasEntry
    <3> QED
      BY <3>1, <3>2
  <2> QED
    BY <2>1, <2>4, <2>5, <2>6
<1> QED
  BY <1>4, <1>5

-----------------------------------------------------------------------------
(* The three writes of the job_run document *)

\* What a checkpoint puts.
LEMMA WithTaskFacts ==
  ASSUME NEW doc \in JobRunDoc, Unique(doc.entries),
         NEW t \in Tasks, NEW s \in TaskStatus
  PROVE  LET new == WithTask(doc, t, s) IN
         /\ new \in JobRunDoc
         /\ new.rev = doc.rev + 1
         /\ new.status = doc.status
         /\ new.killRequested = doc.killRequested
         /\ Unique(new.entries)
         /\ StatusOf(new.entries, t) = s
         /\ \A u \in Tasks : u # t =>
              StatusOf(new.entries, u) = StatusOf(doc.entries, u)
<1> DEFINE new == WithTask(doc, t, s)
           entries == doc.entries
           up == Upsert(entries, t, s)
<1>1. entries \in Seq(Entry) /\ Unique(entries)
  BY DEF JobRunDoc
<1>2. new = [doc EXCEPT !.rev = @ + 1, !.entries = up]
  BY DEF WithTask
<1> HIDE DEF new, entries
<1>3. /\ up \in Seq(Entry)
      /\ Unique(up)
      /\ StatusOf(up, t) = s
      /\ \A u \in Tasks : u # t => StatusOf(up, u) = StatusOf(entries, u)
  BY <1>1, UpsertRecords
<1> HIDE DEF up
<1>4. /\ new.rev = doc.rev + 1
      /\ new.status = doc.status
      /\ new.entries = up
  BY <1>2 DEF JobRunDoc
<1>5. new.killRequested = doc.killRequested
  BY <1>2 DEF JobRunDoc
<1>6. new \in JobRunDoc
  <2>1. doc.rev + 1 \in Nat
    BY DEF JobRunDoc
  <2> QED
    BY <2>1, <1>2, <1>3, Zenon DEF JobRunDoc
<1> QED
  BY <1>3, <1>4, <1>5, <1>6 DEF new, entries

\* What mark_job_run_finished puts.
LEMMA WithOutcomeFacts ==
  ASSUME NEW doc \in JobRunDoc, NEW s \in JobStatus
  PROVE  LET new == WithOutcome(doc, s) IN
         /\ new \in JobRunDoc
         /\ new.rev = doc.rev + 1
         /\ new.status = s
         /\ new.killRequested = doc.killRequested
         /\ new.entries = doc.entries
<1> DEFINE new == WithOutcome(doc, s)
<1>1. new \in JobRunDoc
  <2>1. doc.rev + 1 \in Nat
    BY DEF JobRunDoc
  <2> QED
    BY <2>1, Zenon DEF WithOutcome, JobRunDoc
<1>2. new.rev = doc.rev + 1 /\ new.status = s /\ new.entries = doc.entries
  BY DEF WithOutcome, JobRunDoc
<1>3. new.killRequested = doc.killRequested
  BY DEF WithOutcome, JobRunDoc
<1> QED
  BY <1>1, <1>2, <1>3

\* What kill_set puts.
LEMMA WithKillRequestFacts ==
  ASSUME NEW doc \in JobRunDoc
  PROVE  LET new == WithKillRequest(doc) IN
         /\ new \in JobRunDoc
         /\ new.rev = doc.rev + 1
         /\ new.status = doc.status
         /\ new.killRequested = TRUE
         /\ new.entries = doc.entries
<1> DEFINE new == WithKillRequest(doc)
<1>1. new \in JobRunDoc
  <2>1. doc.rev + 1 \in Nat
    BY DEF JobRunDoc
  <2> QED
    BY <2>1, Zenon DEF WithKillRequest, JobRunDoc
<1>2. new.rev = doc.rev + 1 /\ new.status = doc.status /\ new.entries = doc.entries
  BY DEF WithKillRequest, JobRunDoc
<1>3. new.killRequested = TRUE
  BY DEF WithKillRequest, JobRunDoc
<1> QED
  BY <1>1, <1>2, <1>3

-----------------------------------------------------------------------------
(* The inductive invariant *)

\* A document that was read is the current one or an older one.
IsCopy(c) == c.rev <= jobRun.rev /\ (c.rev = jobRun.rev => c = jobRun)

CopiesInv ==
  /\ jobRun.rev = 0 => jobRun = NewJobRun
  /\ \A t \in Tasks : at[t] \in {"jobWrite", "finishWrite"} => IsCopy(copy[t])
  /\ \A a \in Admins : killer[a] = "found" => IsCopy(killCopy[a]) /\ killCopy[a].rev # 0

\* Where a task is tells how the status it asked for relates to the recorded one.
Finishing == {"finishRead", "finishWrite"}
Checkpointed == Finishing \cup {"checkpointed", "finished"}
Recorded == Checkpointed \cup TaskLoop

ProgressInv ==
  \A t \in Tasks :
    LET recorded == StatusOf(jobRun.entries, t) IN
    /\ at[t] = "idle" => asked[t] = Unrecorded /\ recorded = Unrecorded
    /\ at[t] # "idle" => asked[t] # Unrecorded
    /\ at[t] \in {"jobRead", "jobWrite"} => asked[t] \in MayFollow(recorded)
    /\ at[t] \in Recorded => recorded = asked[t]
    /\ at[t] \in Checkpointed => agentTask[t].status = asked[t]
    /\ at[t] \in Finishing => asked[t] \in JobStatus \ {"running"}
    /\ at[t] = "raised" => recorded = asked[t] \/ asked[t] \in MayFollow(recorded)

\* A put in flight over the current revision comes before everything its task
\* has been asked to record since: nothing of that has reached the document.
LateInv ==
  \A p \in late :
    /\ p.of = "taskWrite" =>
         /\ p.taskRev <= agentTask[p.task].rev
         /\ p.taskRev = agentTask[p.task].rev => at[p.task] \notin Checkpointed
    /\ p.of # "taskWrite" => IsCopy(p.copy)
    /\ p.of = "finishWrite" => p.copy.rev # 0 /\ p.status \in JobStatus \ {"running"}
    /\ p.of = "jobWrite" /\ p.copy.rev = jobRun.rev =>
         /\ p.status \in MayFollow(StatusOf(jobRun.entries, p.task))
         /\ \/ asked[p.task] \in MayFollow(p.status) /\ at[p.task] \in {"jobRead", "jobWrite"}
            \/ asked[p.task] \in MayFollow(p.status) \cup {p.status} /\ at[p.task] = "raised"

\* A read that failed and a put that arrives late have cost a fault.
FaultsInv ==
  /\ late # {} => faults > 0
  /\ \A t \in Tasks : causes[t] \cap {"misread", "late"} # {} => faults > 0

IInv ==
  /\ TypeOK
  /\ OneEntryPerTask
  /\ CopiesInv
  /\ ProgressInv
  /\ LateInv
  /\ FaultsInv
  /\ ConflictsHaveACause

USE DEF Finishing, Checkpointed, Recorded, JobLoop, TaskLoop, Busy, Place

\* Only statuses of TaskStatus follow one another.
LEMMA MayFollowType == \A s : MayFollow(s) \subseteq TaskStatus
BY DEF MayFollow, TaskStatus

\* What may follow a status that may follow another may follow that one too.
LEMMA MayFollowOn == \A s, r : r \in MayFollow(s) => MayFollow(r) \subseteq MayFollow(s)
BY DEF MayFollow, TaskStatus, Unrecorded

\* A document that does not exist yet satisfies everything.
LEMMA InitInv == Init => IInv
<1> SUFFICES ASSUME Init PROVE IInv
  OBVIOUS
<1>1. NewJobRun \in JobRunDoc
  BY EmptySeq DEF NewJobRun, JobRunDoc, JobStatus
<1>2. TypeOK
  BY <1>1, FaultsAssumption, RetriesAssumption DEF Init, TypeOK, NoAgentTask, AgentTaskDoc
<1>3. OneEntryPerTask
  BY DEF Init, OneEntryPerTask, Unique, NewJobRun
<1>4. CopiesInv
  BY DEF Init, CopiesInv
<1>5. ProgressInv
  BY DEF Init, ProgressInv, StatusOf, HasEntry, NewJobRun
<1>6. ConflictsHaveACause
  BY DEF Init, ConflictsHaveACause, Writing
<1>7. LateInv /\ FaultsInv
  BY DEF Init, LateInv, FaultsInv
<1> QED
  BY <1>2, <1>3, <1>4, <1>5, <1>6, <1>7 DEF IInv

\* The document write_checkpoint starts from is well formed.
LEMMA NewJobRunType == NewJobRun \in JobRunDoc
BY EmptySeq DEF NewJobRun, JobRunDoc, JobStatus

\* A put of write_checkpoint's first loop is accepted.
LEMMA RecordLands ==
  ASSUME IInv, NEW t \in Tasks, WriteJobRun(t)
  PROVE  IInv'
<1> USE DEF IInv, TypeOK, WriteJobRun, Leave, Goto, killVars
<1>1. copy[t] = jobRun
  BY DEF CopiesInv, IsCopy, Accepts
<1>2. asked[t] \in MayFollow(StatusOf(jobRun.entries, t))
  BY DEF ProgressInv
<1>3. asked[t] \in TaskStatus
  BY <1>2, MayFollowType
<1>4. /\ jobRun' \in JobRunDoc
      /\ jobRun'.rev = jobRun.rev + 1
      /\ Unique(jobRun'.entries)
      /\ StatusOf(jobRun'.entries, t) = asked[t]
      /\ \A u \in Tasks : u # t =>
           StatusOf(jobRun'.entries, u) = StatusOf(jobRun.entries, u)
  BY <1>1, <1>3, WithTaskFacts DEF OneEntryPerTask
<1>5. TypeOK'
  <2>1. causes' \in [Tasks -> SUBSET Cause]
    BY DEF Overtake, StaleCopy, Cause
  <2>2. at' \in [Tasks -> Place] /\ attempt' \in [Tasks -> 0 .. MaxConflictRetries - 1]
    BY RetriesAssumption
  <2>3. copy' \in [Tasks -> JobRunDoc] /\ taskRev' \in [Tasks -> Nat]
    BY NewJobRunType
  <2> QED
    BY <1>4, <2>1, <2>2, <2>3
<1>6. OneEntryPerTask'
  BY <1>4 DEF OneEntryPerTask
<1>7. CopiesInv'
  BY SMTT(30), <1>4 DEF CopiesInv, IsCopy, JobRunDoc
<1>8. ProgressInv'
  BY <1>4 DEF ProgressInv
<1>9. ConflictsHaveACause'
  BY <1>4 DEF ConflictsHaveACause, Writing, Stale, Accepts, Overtake, StaleCopy
<1>10. LateInv'
  BY SMTT(30), <1>4 DEF LateInv, LoopPut, IsCopy, JobRunDoc
<1>11. FaultsInv'
  BY DEF FaultsInv, Overtake, StaleCopy
<1> QED
  BY <1>5, <1>6, <1>7, <1>8, <1>9, <1>10, <1>11

\* The same for the put of mark_job_run_finished.
LEMMA OutcomeLands ==
  ASSUME IInv, NEW t \in Tasks, WriteOutcome(t)
  PROVE  IInv'
<1> USE DEF IInv, TypeOK, WriteOutcome, Leave, Goto, killVars
<1>1. copy[t] = jobRun
  BY DEF CopiesInv, IsCopy, Accepts
<1>2. asked[t] \in JobStatus
  BY DEF ProgressInv
<1>3. /\ jobRun' \in JobRunDoc
      /\ jobRun'.rev = jobRun.rev + 1
      /\ jobRun'.entries = jobRun.entries
  BY <1>1, <1>2, WithOutcomeFacts
<1>4. TypeOK'
  <2>1. causes' \in [Tasks -> SUBSET Cause]
    BY DEF Overtake, StaleCopy, Cause
  <2>2. at' \in [Tasks -> Place] /\ attempt' \in [Tasks -> 0 .. MaxConflictRetries - 1]
    BY RetriesAssumption
  <2>3. copy' \in [Tasks -> JobRunDoc] /\ taskRev' \in [Tasks -> Nat]
    BY NewJobRunType
  <2> QED
    BY <1>3, <2>1, <2>2, <2>3
<1>5. OneEntryPerTask'
  BY <1>3 DEF OneEntryPerTask
<1>6. CopiesInv'
  BY SMTT(30), <1>3 DEF CopiesInv, IsCopy, JobRunDoc
<1>7. ProgressInv'
  BY <1>3 DEF ProgressInv
<1>8. ConflictsHaveACause'
  BY <1>3 DEF ConflictsHaveACause, Writing, Stale, Accepts, Overtake, StaleCopy
<1>9. LateInv'
  BY SMTT(30), <1>3 DEF LateInv, LoopPut, IsCopy, JobRunDoc
<1>10. FaultsInv'
  BY DEF FaultsInv, Overtake, StaleCopy
<1> QED
  BY <1>4, <1>5, <1>6, <1>7, <1>8, <1>9, <1>10

\* The same for the put of write_checkpoint's second loop.
LEMMA AgentTaskLands ==
  ASSUME IInv, NEW t \in Tasks, WriteAgentTask(t)
  PROVE  IInv'
<1> USE DEF IInv, TypeOK, WriteAgentTask, Leave, Goto, killVars, PutAgentTask
<1>1. TypeOK'
  <2>1. causes' \in [Tasks -> SUBSET Cause]
    BY DEF Settle, Cause
  <2>2. at' \in [Tasks -> Place] /\ attempt' \in [Tasks -> 0 .. MaxConflictRetries - 1]
    BY RetriesAssumption
  <2>3. copy' \in [Tasks -> JobRunDoc] /\ taskRev' \in [Tasks -> Nat]
    BY NewJobRunType
  <2> QED
    BY <2>1, <2>2, <2>3 DEF AgentTaskDoc
<1>2. OneEntryPerTask'
  BY DEF OneEntryPerTask
<1>3. CopiesInv'
  BY DEF CopiesInv, IsCopy
<1>4. ProgressInv'
  BY DEF ProgressInv, AgentTaskDoc
<1>5. ConflictsHaveACause'
  BY DEF ConflictsHaveACause, Writing, Stale, Accepts, Settle
<1>6. LateInv'
  BY DEF LateInv, LoopPut, IsCopy, Accepts, AgentTaskDoc
<1>7. FaultsInv'
  BY DEF FaultsInv, Settle
<1> QED
  BY <1>1, <1>2, <1>3, <1>4, <1>5, <1>6, <1>7

\* kill_set's single put, when the document has not moved since it was found.
LEMMA KillRequestLands ==
  ASSUME IInv, NEW a \in Admins, KillPut(a)
  PROVE  IInv'
<1> USE DEF IInv, TypeOK, KillPut, callVars
<1>1. killCopy[a] = jobRun
  BY DEF CopiesInv, IsCopy, Accepts
<1>2. /\ jobRun' \in JobRunDoc
      /\ jobRun'.rev = jobRun.rev + 1
      /\ jobRun'.entries = jobRun.entries
  BY <1>1, WithKillRequestFacts
<1>3. TypeOK'
  <2>1. causes' \in [Tasks -> SUBSET Cause]
    BY DEF Overtake, StaleCopy, Cause
  <2> QED
    BY <1>2, <2>1, NewJobRunType
<1>4. OneEntryPerTask'
  BY <1>2 DEF OneEntryPerTask
<1>5. CopiesInv'
  BY <1>2 DEF CopiesInv, IsCopy, JobRunDoc
<1>6. ProgressInv'
  BY <1>2 DEF ProgressInv
<1>7. ConflictsHaveACause'
  BY <1>2 DEF ConflictsHaveACause, Writing, Stale, Accepts, Overtake, StaleCopy
<1>8. LateInv'
  BY SMTT(30), <1>2 DEF LateInv, LoopPut, IsCopy, JobRunDoc
<1>9. FaultsInv'
  BY DEF FaultsInv, Overtake, StaleCopy
<1> QED
  BY <1>3, <1>4, <1>5, <1>6, <1>7, <1>8, <1>9

\* A conflict sends the task back to its read, or out of the call.
LEMMA ConflictRetries ==
  ASSUME IInv, NEW t \in Tasks, Conflict(t)
  PROVE  IInv'
<1> USE DEF IInv, TypeOK, Goto
<1>1. /\ jobRun' = jobRun /\ agentTask' = agentTask /\ asked' = asked /\ late' = late
      /\ killer' = killer /\ killCopy' = killCopy /\ faults' = faults
  BY DEF Conflict, documents, killVars
<1>2. PICK place : at' = [at EXCEPT ![t] = place]
  BY DEF Conflict, AfterConflict, Attempt, Leave
<1>3. \/ at[t] = "jobWrite" /\ place \in {"jobRead", "raised"}
      \/ at[t] = "finishWrite" /\ place \in {"finishRead", "raised"}
      \/ at[t] = "taskWrite" /\ place \in {"taskRead", "raised"}
  BY <1>2 DEF Conflict, AfterConflict, Attempt, Leave, ReadAgain, Writing
<1>4. attempt' \in [Tasks -> 0 .. MaxConflictRetries - 1]
  BY RetriesAssumption DEF Conflict, AfterConflict, Attempt, Leave
<1>5. copy' \in [Tasks -> JobRunDoc] /\ taskRev' \in [Tasks -> Nat]
  BY NewJobRunType DEF Conflict, AfterConflict, Attempt, Leave
<1>6. \A u \in Tasks : u # t => copy'[u] = copy[u] /\ taskRev'[u] = taskRev[u]
  BY DEF Conflict, AfterConflict, Attempt, Leave
<1>7. TypeOK'
  <2>1. causes' \in [Tasks -> SUBSET Cause]
    BY Zenon DEF Conflict, Settle
  <2> QED
    BY <1>1, <1>2, <1>3, <1>4, <1>5, <2>1
<1>8. OneEntryPerTask'
  BY <1>1 DEF OneEntryPerTask
<1>9. CopiesInv'
  BY <1>1, <1>2, <1>3, <1>6 DEF CopiesInv, IsCopy
<1>10. ProgressInv'
  BY <1>1, <1>2, <1>3 DEF ProgressInv
<1>11. ConflictsHaveACause'
  BY <1>1, <1>2, <1>3, <1>6 DEF ConflictsHaveACause, Writing, Stale, Accepts, Conflict, Settle
<1>12. LateInv'
  BY <1>1, <1>2, <1>3 DEF LateInv, LoopPut, IsCopy, Conflict
<1>13. FaultsInv'
  BY <1>1 DEF FaultsInv, Conflict, Settle
<1> QED
  BY <1>7, <1>8, <1>9, <1>10, <1>11, <1>12, <1>13

\* A put that arrives late over the current revision records what its task
\* asked for when it made it.
LEMMA LateRecord ==
  ASSUME IInv, NEW p \in late, p.of = "jobWrite", Accepts(jobRun, p.copy.rev)
  PROVE  LET new == WithTask(p.copy, p.task, p.status)
             recorded == StatusOf(new.entries, p.task)
         IN
         /\ p.task \in Tasks /\ p.copy = jobRun
         /\ new \in JobRunDoc
         /\ new.rev = jobRun.rev + 1
         /\ new.status = jobRun.status
         /\ new.killRequested = jobRun.killRequested
         /\ Unique(new.entries)
         /\ recorded = p.status
         /\ p.status \in MayFollow(StatusOf(jobRun.entries, p.task)) \cap TaskStatus
         /\ \/ asked[p.task] \in MayFollow(recorded) /\ at[p.task] \in {"jobRead", "jobWrite"}
            \/ asked[p.task] \in MayFollow(recorded) \cup {recorded} /\ at[p.task] = "raised"
         /\ \A u \in Tasks : u # p.task =>
              StatusOf(new.entries, u) = StatusOf(jobRun.entries, u)
<1> USE DEF IInv, TypeOK
<1>1. p.task \in Tasks /\ p.copy = jobRun /\ p.copy.rev = jobRun.rev /\ p.status \in TaskStatus
  BY DEF LateInv, IsCopy, Accepts, LoopPut
<1>2. /\ p.status \in MayFollow(StatusOf(jobRun.entries, p.task))
      /\ \/ asked[p.task] \in MayFollow(p.status) /\ at[p.task] \in {"jobRead", "jobWrite"}
         \/ asked[p.task] \in MayFollow(p.status) \cup {p.status} /\ at[p.task] = "raised"
  BY <1>1 DEF LateInv
<1> QED
  BY <1>1, <1>2, WithTaskFacts DEF OneEntryPerTask

\* The same for a late put of mark_job_run_finished.
LEMMA LateOutcome ==
  ASSUME IInv, NEW p \in late, p.of = "finishWrite", Accepts(jobRun, p.copy.rev)
  PROVE  LET new == WithOutcome(p.copy, p.status) IN
         /\ p.task \in Tasks /\ p.copy = jobRun /\ jobRun.rev # 0
         /\ p.status \in JobStatus \ {"running"}
         /\ new \in JobRunDoc
         /\ new.rev = jobRun.rev + 1
         /\ new.status = p.status
         /\ new.killRequested = jobRun.killRequested
         /\ new.entries = jobRun.entries
<1> USE DEF IInv, TypeOK
<1>1. p.task \in Tasks /\ p.copy = jobRun /\ jobRun.rev # 0 /\ p.status \in JobStatus \ {"running"}
  BY DEF LateInv, IsCopy, Accepts, LoopPut
<1> QED
  BY <1>1, WithOutcomeFacts

\* A put that arrives after its task has given up leaves everything in order.
LEMMA LateLands ==
  ASSUME IInv, NEW p \in late, ArriveLate(p)
  PROVE  IInv'
<1> USE DEF IInv, TypeOK, callVars, killVars
<1>1. /\ p \in LoopPut /\ p.task \in Tasks /\ late' \subseteq late
      /\ faults' = faults /\ faults > 0
      /\ at' = at /\ asked' = asked /\ copy' = copy /\ taskRev' = taskRev
      /\ attempt' = attempt /\ killer' = killer /\ killCopy' = killCopy
  BY DEF ArriveLate, LoopPut, FaultsInv
<1>2. CASE p.of = "taskWrite"
  <2>1. /\ Accepts(agentTask[p.task], p.taskRev)
        /\ agentTask' = [agentTask EXCEPT ![p.task] = [rev |-> p.taskRev + 1, status |-> p.status]]
        /\ causes' = [causes EXCEPT ![p.task] =
                        IF at[p.task] = "taskWrite" THEN @ \cup {"late"} ELSE @]
        /\ jobRun' = jobRun
    BY <1>2 DEF ArriveLate, PutAgentTask
  <2>2. at[p.task] \notin Checkpointed
    BY <1>2, <2>1 DEF LateInv, Accepts
  <2>3. TypeOK'
    <3>1. causes' \in [Tasks -> SUBSET Cause]
      BY <1>1, <2>1 DEF Cause
    <3>2. agentTask' \in [Tasks -> AgentTaskDoc]
      BY <1>1, <2>1 DEF AgentTaskDoc, LoopPut
    <3> QED
      BY <1>1, <2>1, <3>1, <3>2
  <2>4. OneEntryPerTask'
    BY <2>1 DEF OneEntryPerTask
  <2>5. CopiesInv'
    BY <1>1, <2>1 DEF CopiesInv, IsCopy
  <2>6. ProgressInv'
    BY <1>1, <2>1, <2>2 DEF ProgressInv
  <2>7. LateInv'
    BY <1>1, <2>1 DEF LateInv, LoopPut, IsCopy, Accepts, AgentTaskDoc
  <2>8. FaultsInv'
    BY <1>1, <2>1 DEF FaultsInv
  <2>9. ConflictsHaveACause'
    BY <1>1, <2>1 DEF ConflictsHaveACause, Writing, Stale, Accepts
  <2> QED
    BY <2>3, <2>4, <2>5, <2>6, <2>7, <2>8, <2>9
<1>3. CASE p.of # "taskWrite"
  <2>1. /\ Accepts(jobRun, p.copy.rev)
        /\ jobRun' = IF p.of = "jobWrite" THEN WithTask(p.copy, p.task, p.status)
                     ELSE WithOutcome(p.copy, p.status)
        /\ causes' = [u \in Tasks |-> StaleCopy(u, IF u = p.task THEN "late" ELSE "others")]
        /\ agentTask' = agentTask
    BY <1>3 DEF ArriveLate
  <2>2. p.of \in {"jobWrite", "finishWrite"}
    BY <1>1, <1>3 DEF LoopPut
  <2>3. /\ jobRun' \in JobRunDoc
        /\ jobRun'.rev = jobRun.rev + 1
        /\ Unique(jobRun'.entries)
    BY <2>1, <2>2, LateRecord, LateOutcome DEF OneEntryPerTask
  <2>4. TypeOK'
    <3>1. causes' \in [Tasks -> SUBSET Cause]
      BY <2>1 DEF StaleCopy, Cause
    <3> QED
      BY <1>1, <2>1, <2>3, <3>1
  <2>5. OneEntryPerTask'
    BY <2>3 DEF OneEntryPerTask
  <2>6. CopiesInv'
    BY <1>1, <2>3 DEF CopiesInv, IsCopy, JobRunDoc
  <2>7. ProgressInv'
    <3>1. CASE p.of = "jobWrite"
      BY <1>1, <2>1, <3>1, LateRecord DEF ProgressInv
    <3>2. CASE p.of = "finishWrite"
      BY <1>1, <2>1, <3>2, LateOutcome DEF ProgressInv
    <3> QED
      BY <2>2, <3>1, <3>2
  <2>8. LateInv'
    <3>1. ASSUME NEW q \in late, q.of # "taskWrite"
          PROVE  q.copy.rev <= jobRun.rev /\ q.copy.rev \in Nat
      BY <3>1 DEF LateInv, LoopPut, IsCopy, JobRunDoc
    <3>2. jobRun.rev \in Nat
      BY DEF JobRunDoc
    <3> QED
      BY <1>1, <2>1, <2>3, <3>1, <3>2 DEF LateInv, IsCopy
  <2>9. FaultsInv'
    BY <1>1 DEF FaultsInv
  <2>10. ConflictsHaveACause'
    BY <1>1, <2>1, <2>3 DEF ConflictsHaveACause, Writing, Stale, Accepts, StaleCopy
  <2> QED
    BY <2>4, <2>5, <2>6, <2>7, <2>8, <2>9, <2>10
<1> QED
  BY <1>2, <1>3

\* Every step preserves the invariant.
LEMMA NextInv == IInv /\ [Next]_vars => IInv'
<1> SUFFICES ASSUME IInv, [Next]_vars PROVE IInv'
  OBVIOUS
<1> USE DEF documents, callVars, killVars, IInv
<1>1. ASSUME NEW t \in Tasks, NEW s \in TaskStatus, CallWriteCheckpoint(t, s) PROVE IInv'
  <2>1. TypeOK'
    <3>1. causes' \in [Tasks -> SUBSET Cause]
      BY <1>1, Zenon DEF TypeOK, CallWriteCheckpoint
    <3> QED
      BY <1>1, <3>1, MayFollowType, NewJobRunType DEF TypeOK, CallWriteCheckpoint, MayAsk, Goto
  <2>2. OneEntryPerTask'
    BY <1>1 DEF OneEntryPerTask, CallWriteCheckpoint
  <2>3. CopiesInv'
    BY <1>1 DEF TypeOK, CopiesInv, IsCopy, JobRunDoc, NewJobRun, CallWriteCheckpoint, MayAsk, Goto
  <2>4. ProgressInv'
    BY <1>1 DEF TypeOK, ProgressInv, MayFollow, TaskStatus, Unrecorded, CallWriteCheckpoint,
         MayAsk, Goto
  <2>5. ConflictsHaveACause'
    BY <1>1 DEF TypeOK, ConflictsHaveACause, Writing, Stale, Accepts, CallWriteCheckpoint,
         MayAsk, Goto
  <2>6. LateInv'
    BY <1>1, MayFollowOn DEF TypeOK, LateInv, LoopPut, IsCopy, CallWriteCheckpoint, MayAsk, Goto
  <2>7. FaultsInv'
    BY <1>1, FaultsAssumption DEF TypeOK, FaultsInv, CallWriteCheckpoint, MayAsk, Goto
  <2> QED
    BY <2>1, <2>2, <2>3, <2>4, <2>5, <2>6, <2>7
<1>2. ASSUME NEW t \in Tasks, CallMarkFinished(t) PROVE IInv'
  <2>1. TypeOK'
    <3>1. causes' \in [Tasks -> SUBSET Cause]
      BY <1>2, Zenon DEF TypeOK, CallMarkFinished
    <3> QED
      BY <1>2, <3>1, MayFollowType, NewJobRunType DEF TypeOK, CallMarkFinished, Goto
  <2>2. OneEntryPerTask'
    BY <1>2 DEF OneEntryPerTask, CallMarkFinished
  <2>3. CopiesInv'
    BY <1>2 DEF TypeOK, CopiesInv, IsCopy, JobRunDoc, NewJobRun, CallMarkFinished, Goto
  <2>4. ProgressInv'
    BY <1>2 DEF TypeOK, ProgressInv, MayFollow, TaskStatus, CallMarkFinished, Goto
  <2>5. ConflictsHaveACause'
    BY <1>2 DEF TypeOK, ConflictsHaveACause, Writing, Stale, Accepts, CallMarkFinished, Goto
  <2>6. LateInv'
    BY <1>2, MayFollowOn DEF TypeOK, LateInv, LoopPut, IsCopy, CallMarkFinished, Goto
  <2>7. FaultsInv'
    BY <1>2, FaultsAssumption DEF TypeOK, FaultsInv, CallMarkFinished, Goto
  <2> QED
    BY <2>1, <2>2, <2>3, <2>4, <2>5, <2>6, <2>7
<1>3. ASSUME NEW t \in Tasks, ReadJobRun(t, "jobRead", "jobWrite") PROVE IInv'
  <2>1. TypeOK'
    <3>1. causes' \in [Tasks -> SUBSET Cause]
      BY <1>3 DEF TypeOK, ReadJobRun, Settle, Misread, Cause
    <3>2. at' \in [Tasks -> Place] /\ attempt' \in [Tasks -> 0 .. MaxConflictRetries - 1]
      BY <1>3, RetriesAssumption DEF TypeOK, ReadJobRun, Goto, Fault
    <3>3. copy' \in [Tasks -> JobRunDoc] /\ taskRev' \in [Tasks -> Nat]
      BY <1>3, NewJobRunType DEF TypeOK, AgentTaskDoc, ReadJobRun, Goto, Fault
    <3>4. faults' \in 0 .. MaxFaults
      BY <1>3, FaultsAssumption DEF TypeOK, ReadJobRun, Goto, Fault
    <3> QED
      BY <1>3, <3>1, <3>2, <3>3, <3>4 DEF TypeOK, ReadJobRun
  <2>2. OneEntryPerTask'
    BY <1>3 DEF OneEntryPerTask, ReadJobRun
  <2>3. CopiesInv'
    BY <1>3 DEF TypeOK, CopiesInv, IsCopy, JobRunDoc, NewJobRun, ReadJobRun, Goto, Fault
  <2>4. ProgressInv'
    BY <1>3 DEF TypeOK, ProgressInv, MayFollow, TaskStatus, ReadJobRun, Goto, Fault
  <2>5. ConflictsHaveACause'
    <3>1. /\ jobRun' = jobRun /\ agentTask' = agentTask
          /\ at'[t] = "jobWrite" /\ faults' >= faults
          /\ \/ copy'[t] = jobRun
             \/ causes'[t] = {"misread"} /\ faults' > 0
      BY <1>3, FaultsAssumption DEF TypeOK, ReadJobRun, Goto, Fault, Misread
    <3>2. \A u \in Tasks : u # t =>
            at'[u] = at[u] /\ copy'[u] = copy[u] /\ taskRev'[u] = taskRev[u] /\ causes'[u] = causes[u]
      BY <1>3 DEF TypeOK, ReadJobRun, Goto, Settle, Misread
    <3>3. faults \in Nat /\ faults' \in Nat
      BY <2>1, FaultsAssumption DEF TypeOK
    <3> QED
      BY <3>1, <3>2, <3>3 DEF ConflictsHaveACause, Writing, Stale, Accepts
  <2>6. LateInv'
    BY <1>3, MayFollowOn DEF TypeOK, LateInv, LoopPut, IsCopy, ReadJobRun, Goto, Fault, Settle,
         Misread
  <2>7. FaultsInv'
    BY <1>3, FaultsAssumption DEF TypeOK, FaultsInv, ReadJobRun, Goto, Fault, Settle, Misread
  <2> QED
    BY <2>1, <2>2, <2>3, <2>4, <2>5, <2>6, <2>7
<1>4. ASSUME NEW t \in Tasks, ReadJobRun(t, "finishRead", "finishWrite") PROVE IInv'
  <2>1. TypeOK'
    <3>1. causes' \in [Tasks -> SUBSET Cause]
      BY <1>4 DEF TypeOK, ReadJobRun, Settle, Misread, Cause
    <3>2. at' \in [Tasks -> Place] /\ attempt' \in [Tasks -> 0 .. MaxConflictRetries - 1]
      BY <1>4, RetriesAssumption DEF TypeOK, ReadJobRun, Goto, Fault
    <3>3. copy' \in [Tasks -> JobRunDoc] /\ taskRev' \in [Tasks -> Nat]
      BY <1>4, NewJobRunType DEF TypeOK, AgentTaskDoc, ReadJobRun, Goto, Fault
    <3>4. faults' \in 0 .. MaxFaults
      BY <1>4, FaultsAssumption DEF TypeOK, ReadJobRun, Goto, Fault
    <3> QED
      BY <1>4, <3>1, <3>2, <3>3, <3>4 DEF TypeOK, ReadJobRun
  <2>2. OneEntryPerTask'
    BY <1>4 DEF OneEntryPerTask, ReadJobRun
  <2>3. CopiesInv'
    BY <1>4 DEF TypeOK, CopiesInv, IsCopy, JobRunDoc, NewJobRun, ReadJobRun, Goto, Fault
  <2>4. ProgressInv'
    BY <1>4 DEF TypeOK, ProgressInv, MayFollow, TaskStatus, ReadJobRun, Goto, Fault
  <2>5. ConflictsHaveACause'
    <3>1. /\ jobRun' = jobRun /\ agentTask' = agentTask
          /\ at'[t] = "finishWrite" /\ faults' >= faults
          /\ \/ copy'[t] = jobRun
             \/ causes'[t] = {"misread"} /\ faults' > 0
      BY <1>4, FaultsAssumption DEF TypeOK, ReadJobRun, Goto, Fault, Misread
    <3>2. \A u \in Tasks : u # t =>
            at'[u] = at[u] /\ copy'[u] = copy[u] /\ taskRev'[u] = taskRev[u] /\ causes'[u] = causes[u]
      BY <1>4 DEF TypeOK, ReadJobRun, Goto, Settle, Misread
    <3>3. faults \in Nat /\ faults' \in Nat
      BY <2>1, FaultsAssumption DEF TypeOK
    <3> QED
      BY <3>1, <3>2, <3>3 DEF ConflictsHaveACause, Writing, Stale, Accepts
  <2>6. LateInv'
    BY <1>4, MayFollowOn DEF TypeOK, LateInv, LoopPut, IsCopy, ReadJobRun, Goto, Fault, Settle,
         Misread
  <2>7. FaultsInv'
    BY <1>4, FaultsAssumption DEF TypeOK, FaultsInv, ReadJobRun, Goto, Fault, Settle, Misread
  <2> QED
    BY <2>1, <2>2, <2>3, <2>4, <2>5, <2>6, <2>7
<1>5. ASSUME NEW t \in Tasks, ReadAgentTask(t) PROVE IInv'
  <2>1. TypeOK'
    <3>1. causes' \in [Tasks -> SUBSET Cause]
      BY <1>5 DEF TypeOK, ReadAgentTask, Settle, Misread, Cause
    <3>2. at' \in [Tasks -> Place] /\ attempt' \in [Tasks -> 0 .. MaxConflictRetries - 1]
      BY <1>5, RetriesAssumption DEF TypeOK, ReadAgentTask, Goto, Fault
    <3>3. copy' \in [Tasks -> JobRunDoc] /\ taskRev' \in [Tasks -> Nat]
      BY <1>5, NewJobRunType DEF TypeOK, AgentTaskDoc, ReadAgentTask, Goto, Fault
    <3>4. faults' \in 0 .. MaxFaults
      BY <1>5, FaultsAssumption DEF TypeOK, ReadAgentTask, Goto, Fault
    <3> QED
      BY <1>5, <3>1, <3>2, <3>3, <3>4 DEF TypeOK, ReadAgentTask
  <2>2. OneEntryPerTask'
    BY <1>5 DEF OneEntryPerTask, ReadAgentTask
  <2>3. CopiesInv'
    BY <1>5 DEF TypeOK, CopiesInv, IsCopy, JobRunDoc, NewJobRun, ReadAgentTask, Goto, Fault
  <2>4. ProgressInv'
    BY <1>5 DEF TypeOK, ProgressInv, MayFollow, TaskStatus, ReadAgentTask, Goto, Fault
  <2>5. ConflictsHaveACause'
    <3>1. /\ jobRun' = jobRun /\ agentTask' = agentTask
          /\ at'[t] = "taskWrite" /\ faults' >= faults
          /\ \/ taskRev'[t] = agentTask[t].rev
             \/ causes'[t] = {"misread"} /\ faults' > 0
      BY <1>5, FaultsAssumption DEF TypeOK, ReadAgentTask, Goto, Fault, Misread
    <3>2. \A u \in Tasks : u # t =>
            at'[u] = at[u] /\ copy'[u] = copy[u] /\ taskRev'[u] = taskRev[u] /\ causes'[u] = causes[u]
      BY <1>5 DEF TypeOK, ReadAgentTask, Goto, Settle, Misread
    <3>3. faults \in Nat /\ faults' \in Nat
      BY <2>1, FaultsAssumption DEF TypeOK
    <3> QED
      BY <3>1, <3>2, <3>3 DEF ConflictsHaveACause, Writing, Stale, Accepts
  <2>6. LateInv'
    BY <1>5, MayFollowOn DEF TypeOK, LateInv, LoopPut, IsCopy, ReadAgentTask, Goto, Fault,
         Settle, Misread
  <2>7. FaultsInv'
    BY <1>5, FaultsAssumption DEF TypeOK, FaultsInv, ReadAgentTask, Goto, Fault, Settle, Misread
  <2> QED
    BY <2>1, <2>2, <2>3, <2>4, <2>5, <2>6, <2>7
<1>6. ASSUME NEW t \in Tasks, FinishNothing(t) PROVE IInv'
  <2>1. TypeOK'
    <3>1. causes' \in [Tasks -> SUBSET Cause]
      BY <1>6, Zenon DEF TypeOK, FinishNothing, Settle
    <3>2. at' \in [Tasks -> Place] /\ attempt' \in [Tasks -> 0 .. MaxConflictRetries - 1]
      BY <1>6, RetriesAssumption DEF TypeOK, FinishNothing, Leave, Goto
    <3>3. copy' \in [Tasks -> JobRunDoc] /\ taskRev' \in [Tasks -> Nat]
      BY <1>6, NewJobRunType DEF TypeOK, AgentTaskDoc, FinishNothing, Leave, Goto
    <3>4. faults' \in 0 .. MaxFaults
      BY <1>6, FaultsAssumption DEF TypeOK, FinishNothing, Leave, Goto
    <3> QED
      BY <1>6, <3>1, <3>2, <3>3, <3>4 DEF TypeOK, FinishNothing
  <2>2. OneEntryPerTask'
    BY <1>6 DEF OneEntryPerTask, FinishNothing
  <2>3. CopiesInv'
    BY <1>6 DEF TypeOK, CopiesInv, IsCopy, JobRunDoc, NewJobRun, FinishNothing, Leave, Goto
  <2>4. ProgressInv'
    BY <1>6 DEF TypeOK, ProgressInv, MayFollow, TaskStatus, FinishNothing, Leave, Goto
  <2>5. ConflictsHaveACause'
    BY <1>6 DEF TypeOK, ConflictsHaveACause, Writing, Stale, Accepts, FinishNothing, Leave, Goto,
         Settle
  <2>6. LateInv'
    BY <1>6, MayFollowOn DEF TypeOK, LateInv, LoopPut, IsCopy, FinishNothing, Leave, Goto, Settle
  <2>7. FaultsInv'
    BY <1>6, FaultsAssumption DEF TypeOK, FaultsInv, FinishNothing, Leave, Goto, Settle
  <2> QED
    BY <2>1, <2>2, <2>3, <2>4, <2>5, <2>6, <2>7
<1>7. ASSUME NEW t \in Tasks, FailCall(t) PROVE IInv'
  <2>1. TypeOK'
    <3>1. causes' \in [Tasks -> SUBSET Cause]
      BY <1>7, Zenon DEF TypeOK, FailCall, Settle
    <3>2. at' \in [Tasks -> Place] /\ attempt' \in [Tasks -> 0 .. MaxConflictRetries - 1]
      BY <1>7, RetriesAssumption DEF TypeOK, FailCall, Leave, Goto, Fault
    <3>3. copy' \in [Tasks -> JobRunDoc] /\ taskRev' \in [Tasks -> Nat]
      BY <1>7, NewJobRunType DEF TypeOK, AgentTaskDoc, FailCall, Leave, Goto, Fault
    <3>4. faults' \in 0 .. MaxFaults
      BY <1>7, FaultsAssumption DEF TypeOK, FailCall, Leave, Goto, Fault
    <3> QED
      BY <1>7, <3>1, <3>2, <3>3, <3>4 DEF TypeOK, FailCall
  <2>2. OneEntryPerTask'
    BY <1>7 DEF OneEntryPerTask, FailCall
  <2>3. CopiesInv'
    BY <1>7 DEF TypeOK, CopiesInv, IsCopy, JobRunDoc, NewJobRun, FailCall, Leave, Goto, Fault
  <2>4. ProgressInv'
    BY <1>7 DEF TypeOK, ProgressInv, MayFollow, TaskStatus, FailCall, Leave, Goto, Fault
  <2>5. ConflictsHaveACause'
    BY <1>7 DEF TypeOK, ConflictsHaveACause, Writing, Stale, Accepts, FailCall, Leave, Goto,
         Fault, Settle, Misread
  <2>6. LateInv'
    BY <1>7, MayFollowOn DEF TypeOK, LateInv, LoopPut, IsCopy, FailCall, Leave, Goto, Fault, Settle
  <2>7. FaultsInv'
    BY <1>7, FaultsAssumption DEF TypeOK, FaultsInv, FailCall, Leave, Goto, Fault, Settle
  <2> QED
    BY <2>1, <2>2, <2>3, <2>4, <2>5, <2>6, <2>7
<1>8. ASSUME NEW a \in Admins, KillFind(a) PROVE IInv'
  <2>1. TypeOK'
    <3>1. causes' \in [Tasks -> SUBSET Cause]
      BY <1>8, Zenon DEF TypeOK, KillFind
    <3> QED
      BY <1>8, <3>1, MayFollowType, NewJobRunType DEF TypeOK, KillFind
  <2>2. OneEntryPerTask'
    BY <1>8 DEF OneEntryPerTask, KillFind
  <2>3. CopiesInv'
    BY <1>8 DEF TypeOK, CopiesInv, IsCopy, JobRunDoc, NewJobRun, KillFind
  <2>4. ProgressInv'
    BY <1>8 DEF TypeOK, ProgressInv, MayFollow, TaskStatus, KillFind
  <2>5. ConflictsHaveACause'
    BY <1>8 DEF TypeOK, ConflictsHaveACause, Writing, Stale, Accepts, KillFind
  <2>6. LateInv'
    BY <1>8, MayFollowOn DEF TypeOK, LateInv, LoopPut, IsCopy, KillFind
  <2>7. FaultsInv'
    BY <1>8, FaultsAssumption DEF TypeOK, FaultsInv, KillFind
  <2> QED
    BY <2>1, <2>2, <2>3, <2>4, <2>5, <2>6, <2>7
<1>9. ASSUME NEW a \in Admins, KillConflict(a) PROVE IInv'
  <2>1. TypeOK'
    <3>1. causes' \in [Tasks -> SUBSET Cause]
      BY <1>9, Zenon DEF TypeOK, KillConflict
    <3> QED
      BY <1>9, <3>1, MayFollowType, NewJobRunType DEF TypeOK, KillConflict
  <2>2. OneEntryPerTask'
    BY <1>9 DEF OneEntryPerTask, KillConflict
  <2>3. CopiesInv'
    BY <1>9 DEF TypeOK, CopiesInv, IsCopy, JobRunDoc, NewJobRun, KillConflict
  <2>4. ProgressInv'
    BY <1>9 DEF TypeOK, ProgressInv, MayFollow, TaskStatus, KillConflict
  <2>5. ConflictsHaveACause'
    BY <1>9 DEF TypeOK, ConflictsHaveACause, Writing, Stale, Accepts, KillConflict
  <2>6. LateInv'
    BY <1>9, MayFollowOn DEF TypeOK, LateInv, LoopPut, IsCopy, KillConflict
  <2>7. FaultsInv'
    BY <1>9, FaultsAssumption DEF TypeOK, FaultsInv, KillConflict
  <2> QED
    BY <2>1, <2>2, <2>3, <2>4, <2>5, <2>6, <2>7
<1>10. ASSUME NEW t \in Tasks, LoseReply(t) PROVE IInv'
  <2>1. TypeOK'
    <3>1. causes' \in [Tasks -> SUBSET Cause]
      BY <1>10, Zenon DEF TypeOK, LoseReply, Settle
    <3>2. at' \in [Tasks -> Place] /\ attempt' \in [Tasks -> 0 .. MaxConflictRetries - 1]
      BY <1>10, RetriesAssumption DEF TypeOK, LoseReply, Leave, Goto
    <3>3. copy' \in [Tasks -> JobRunDoc] /\ taskRev' \in [Tasks -> Nat]
      BY <1>10, NewJobRunType DEF TypeOK, LoseReply, Leave
    <3>4. faults' \in 0 .. MaxFaults
      BY <1>10, FaultsAssumption DEF TypeOK, LoseReply, Fault
    <3>5. asked[t] \in TaskStatus
      BY <1>10 DEF TypeOK, ProgressInv, LoseReply, Writing
    <3>6. PutOf(t) \in LoopPut
      BY <1>10, <3>5 DEF TypeOK, PutOf, LoopPut, LoseReply, Writing
    <3> QED
      BY <1>10, <3>1, <3>2, <3>3, <3>4, <3>6 DEF TypeOK, LoseReply
  <2>2. OneEntryPerTask'
    BY <1>10 DEF OneEntryPerTask, LoseReply
  <2>3. CopiesInv'
    BY <1>10 DEF TypeOK, CopiesInv, IsCopy, LoseReply, Leave, Goto
  <2>4. ProgressInv'
    BY <1>10 DEF TypeOK, ProgressInv, LoseReply, Writing, Leave, Goto
  <2>5. ConflictsHaveACause'
    BY <1>10 DEF TypeOK, ConflictsHaveACause, Writing, Stale, Accepts, LoseReply, Leave, Goto,
                 Fault, Settle
  <2>6. LateInv'
    <3>1. PutOf(t).task = t /\ PutOf(t).of = at[t] /\ PutOf(t).status = asked[t]
          /\ PutOf(t).copy = copy[t] /\ PutOf(t).taskRev = taskRev[t]
      BY DEF PutOf
    <3> QED
      BY <1>10, <3>1
      DEF TypeOK, LateInv, LoopPut, IsCopy, CopiesInv, ProgressInv, LoseReply, Writing, Stale,
          Accepts, Leave, Goto, AgentTaskDoc
  <2>7. FaultsInv'
    BY <1>10, FaultsAssumption DEF TypeOK, FaultsInv, LoseReply, Fault, Settle
  <2> QED
    BY <2>1, <2>2, <2>3, <2>4, <2>5, <2>6, <2>7
<1>11. ASSUME NEW p \in late, VanishLate(p) PROVE IInv'
  BY <1>11 DEF VanishLate, TypeOK, OneEntryPerTask, CopiesInv, IsCopy, ProgressInv, LateInv,
               FaultsInv, ConflictsHaveACause, Writing, Stale, Accepts
<1>12. CASE UNCHANGED vars
  BY <1>12 DEF vars, TypeOK, OneEntryPerTask, CopiesInv, IsCopy, ProgressInv, LateInv,
               FaultsInv, ConflictsHaveACause, Writing, Stale, Accepts
<1> QED
  BY <1>1, <1>2, <1>3, <1>4, <1>5, <1>6, <1>7, <1>8, <1>9, <1>10, <1>11, <1>12,
     RecordLands, OutcomeLands, AgentTaskLands, ConflictRetries, KillRequestLands, LateLands
  DEF Next, CallStep, KillSet

-----------------------------------------------------------------------------
(* What holds in every reachable state *)

\* The invariant the other theorems follow from: copies are never newer than
\* the document, and every task's place tells how far its status has got.
THEOREM Invariance == Spec => []IInv
<1>1. Init => IInv
  BY InitInv
<1>2. IInv /\ [Next]_vars => IInv'
  BY NextInv
<1> QED
  BY <1>1, <1>2, PTL DEF Spec

\* job_run, the agent_task documents and every caller's state stay well formed,
\* and no loop makes more than _MAX_CONFLICT_RETRIES attempts.
THEOREM TypeCorrect == Spec => []TypeOK
<1>1. IInv => TypeOK
  BY DEF IInv
<1> QED
  BY <1>1, Invariance, PTL

\* write_checkpoint's upsert never gives a task a second entry in job_run.tasks.
THEOREM OneEntry == Spec => []OneEntryPerTask
<1>1. IInv => OneEntryPerTask
  BY DEF IInv
<1> QED
  BY <1>1, Invariance, PTL

\* After write_checkpoint has returned, job_run.tasks and the agent_task document
\* hold the status it was given, whatever the other writers did.
THEOREM Agreement == Spec => []DocumentsAgree
<1>1. IInv => DocumentsAgree
  BY DEF IInv, ProgressInv, DocumentsAgree
<1> QED
  BY <1>1, Invariance, PTL

\* A task conflicts only because others wrote the job_run document since it read
\* it, or else after a failure: its read failed, or a put of its own that it had
\* given up on arrived in between.
THEOREM Causes == Spec => []ConflictsHaveACause
<1>1. IInv => ConflictsHaveACause
  BY DEF IInv
<1> QED
  BY <1>1, Invariance, PTL
-----------------------------------------------------------------------------
(* Refinement: the job_run document is a JobLedger *)

\* The ledger's vocabulary is Checkpoint's.
LEMMA SameStatuses ==
  /\ Ledger!TaskStatus = TaskStatus
  /\ Ledger!JobStatus = JobStatus
  /\ Ledger!Unrecorded = Unrecorded
  /\ Ledger!Absent = Absent
  /\ \A s : Ledger!MayFollow(s) = MayFollow(s)
BY DEF Ledger!TaskStatus, TaskStatus, Ledger!JobStatus, JobStatus, Ledger!Unrecorded,
       Unrecorded, Ledger!Absent, Absent, Ledger!MayFollow, MayFollow

\* Readers see a checkpoint, in time or late, as one step of the ledger.
LEMMA RecordSteps ==
  ASSUME IInv, NEW t \in Tasks, NEW s \in MayFollow(StatusOf(jobRun.entries, t)),
         jobRun' = WithTask(jobRun, t, s)
  PROVE  Ledger!Next
<1> USE DEF IInv, TypeOK
<1>1. s \in TaskStatus
  BY MayFollowType
<1>2. /\ jobRun'.rev = jobRun.rev + 1
      /\ jobRun'.status = jobRun.status
      /\ jobRun'.killRequested = jobRun.killRequested
      /\ StatusOf(jobRun'.entries, t) = s
      /\ \A u \in Tasks : u # t =>
           StatusOf(jobRun'.entries, u) = StatusOf(jobRun.entries, u)
  BY <1>1, WithTaskFacts DEF OneEntryPerTask
<1>3. jobRun.rev = 0 => jobRun.status = "running"
  BY DEF CopiesInv, NewJobRun
<1>4. jobRun.rev \in Nat /\ jobRun.status # Absent
  BY DEF JobRunDoc, JobStatus, Absent
<1> DEFINE ledger == [u \in Tasks |-> StatusOf(jobRun.entries, u)]
           outcome == IF jobRun.rev = 0 THEN Ledger!Absent ELSE jobRun.status
<1>5. ledger' = [ledger EXCEPT ![t] = s]
  BY <1>2
<1>6. outcome' = IF outcome = Ledger!Absent THEN "running" ELSE outcome
  BY <1>2, <1>3, <1>4, SameStatuses
<1>7. s \in Ledger!MayFollow(ledger[t])
  BY SameStatuses
<1>8. Ledger!Record(t, s)
  BY <1>2, <1>5, <1>6, <1>7, SameStatuses DEF Ledger!Record
<1> QED
  BY <1>1, <1>8, SameStatuses DEF Ledger!Next

\* Readers see the end of a job as one step of the ledger.
LEMMA OutcomeSteps ==
  ASSUME IInv, jobRun.rev # 0, NEW s \in JobStatus \ {"running"},
         jobRun' = WithOutcome(jobRun, s)
  PROVE  Ledger!Next
<1> USE DEF IInv, TypeOK
<1>1. /\ jobRun'.rev = jobRun.rev + 1
      /\ jobRun'.status = s
      /\ jobRun'.killRequested = jobRun.killRequested
      /\ jobRun'.entries = jobRun.entries
  BY WithOutcomeFacts
<1>2. jobRun.rev \in Nat /\ jobRun.status # Absent
  BY DEF JobRunDoc, JobStatus, Absent
<1>3. Ledger!Finish(s)
  BY <1>1, <1>2, SameStatuses DEF Ledger!Finish
<1> QED
  BY <1>3, SameStatuses DEF Ledger!Next

\* Readers see a kill request as one step of the ledger.
LEMMA KillSteps ==
  ASSUME IInv, NEW a \in Admins, KillPut(a)
  PROVE  Ledger!Next
<1> USE DEF IInv, TypeOK, KillPut
<1>1. killCopy[a] = jobRun /\ jobRun.rev # 0
  BY DEF CopiesInv, IsCopy, Accepts
<1>2. /\ jobRun'.rev = jobRun.rev + 1
      /\ jobRun'.status = jobRun.status
      /\ jobRun'.killRequested = TRUE
      /\ jobRun'.entries = jobRun.entries
  BY <1>1, WithKillRequestFacts
<1>3. jobRun.rev \in Nat /\ jobRun.status # Absent
  BY DEF JobRunDoc, JobStatus, Absent
<1>4. Ledger!RequestKill
  BY <1>1, <1>2, <1>3, SameStatuses DEF Ledger!RequestKill
<1> QED
  BY <1>4 DEF Ledger!Next

\* The job_run document implements the ledger: the initial state and every
\* step of Checkpoint map to the ledger's, or change nothing it shows.
THEOREM Refinement == Spec => ImplementsLedger
<1>1. Init => Ledger!Init
  BY SameStatuses DEF Init, Ledger!Init, NewJobRun, StatusOf, HasEntry
<1>2. IInv /\ [Next]_vars => [Ledger!Next]_(Ledger!vars)
  <2> SUFFICES ASSUME IInv, [Next]_vars
               PROVE  Ledger!Next \/ UNCHANGED Ledger!vars
    OBVIOUS
  <2>1. ASSUME jobRun' = jobRun
        PROVE  UNCHANGED Ledger!vars
    BY <2>1 DEF Ledger!vars
  <2>2. ASSUME NEW t \in Tasks, CallStep(t)
        PROVE  Ledger!Next \/ jobRun' = jobRun
    <3>1. CASE WriteJobRun(t)
      <4>1. copy[t] = jobRun /\ asked[t] \in MayFollow(StatusOf(jobRun.entries, t))
        BY <3>1 DEF WriteJobRun, IInv, CopiesInv, IsCopy, ProgressInv, Accepts
      <4> QED
        BY <3>1, <4>1, RecordSteps DEF WriteJobRun
    <3>2. CASE WriteOutcome(t)
      <4>1. copy[t] = jobRun /\ asked[t] \in JobStatus \ {"running"}
        BY <3>2 DEF WriteOutcome, IInv, CopiesInv, IsCopy, ProgressInv, Accepts
      <4> QED
        BY <3>2, <4>1, OutcomeSteps DEF WriteOutcome
    <3> QED
      BY <2>2, <3>1, <3>2
      DEF CallStep, ReadJobRun, ReadAgentTask, WriteAgentTask, FinishNothing,
          Conflict, FailCall, LoseReply, documents
  <2>3. ASSUME NEW a \in Admins, KillSet(a)
        PROVE  Ledger!Next \/ jobRun' = jobRun
    BY <2>3, KillSteps DEF KillSet, KillFind, KillConflict, documents
  <2>4. ASSUME NEW p \in late, ArriveLate(p) \/ VanishLate(p)
        PROVE  Ledger!Next \/ jobRun' = jobRun
    <3>1. CASE p.of = "jobWrite" /\ ArriveLate(p)
      BY <3>1, LateRecord, RecordSteps DEF ArriveLate
    <3>2. CASE p.of = "finishWrite" /\ ArriveLate(p)
      BY <3>2, LateOutcome, OutcomeSteps DEF ArriveLate
    <3>3. CASE p.of = "taskWrite" /\ ArriveLate(p)
      BY <3>3 DEF ArriveLate
    <3>4. p.of \in {"jobWrite", "finishWrite", "taskWrite"}
      BY DEF IInv, TypeOK, LoopPut
    <3> QED
      BY <2>4, <3>1, <3>2, <3>3, <3>4 DEF VanishLate, documents
  <2> QED
    BY <2>1, <2>2, <2>3, <2>4 DEF Next, CallWriteCheckpoint, CallMarkFinished, vars, documents
<1> QED
  BY <1>1, <1>2, Invariance, PTL DEF Spec, ImplementsLedger, Ledger!Spec
-----------------------------------------------------------------------------
(* The loops are bounded *)

Reading == {"jobRead", "taskRead", "finishRead"}

\* The gateway calls a call of checkpoint.py has left at most: a read and a put
\* in each attempt, of one loop or of two.
Left(t) ==
  IF at[t] \notin Busy THEN 0
  ELSE (IF at[t] \in {"jobRead", "jobWrite"} THEN 2 * MaxConflictRetries ELSE 0)
       + 2 * (MaxConflictRetries - attempt[t])
       + (IF at[t] \in Reading THEN 1 ELSE 0)

\* A step of a call brings it nearer to its end.
LEMMA StepsCount ==
  ASSUME TypeOK, NEW t \in Tasks, CallStep(t)
  PROVE  /\ Left(t)' < Left(t)
         /\ \A u \in Tasks : u # t => at'[u] = at[u] /\ attempt'[u] = attempt[u]
<1> DEFINE M == MaxConflictRetries
<1>1. /\ M \in Nat \ {0} /\ attempt[t] \in 0 .. M - 1
      /\ at \in [Tasks -> Place] /\ attempt \in [Tasks -> 0 .. M - 1]
  BY RetriesAssumption DEF TypeOK
<1>2. ASSUME NEW place, Goto(t, place)
      PROVE  at'[t] = place /\ \A u \in Tasks : u # t => at'[u] = at[u]
  BY <1>1, <1>2 DEF Goto
<1>3. ASSUME NEW place, Leave(t, place)
      PROVE  /\ at'[t] = place /\ attempt'[t] = 0
             /\ \A u \in Tasks : u # t => at'[u] = at[u] /\ attempt'[u] = attempt[u]
  BY <1>1, <1>2, <1>3 DEF Leave
<1>4. ASSUME attempt' = attempt,
             \/ at[t] = "jobRead" /\ Goto(t, "jobWrite")
             \/ at[t] = "finishRead" /\ Goto(t, "finishWrite")
             \/ at[t] = "taskRead" /\ Goto(t, "taskWrite")
      PROVE  /\ Left(t)' < Left(t)
             /\ \A u \in Tasks : u # t => at'[u] = at[u] /\ attempt'[u] = attempt[u]
  BY <1>1, <1>2, <1>4 DEF Left, Reading
<1>5. ASSUME at[t] \in Busy,
             \/ \E place \in {"raised", "finished", "checkpointed"} : Leave(t, place)
             \/ at[t] = "jobWrite" /\ Leave(t, "taskRead")
      PROVE  /\ Left(t)' < Left(t)
             /\ \A u \in Tasks : u # t => at'[u] = at[u] /\ attempt'[u] = attempt[u]
  BY <1>1, <1>3, <1>5 DEF Left, Reading
<1>6. ASSUME Writing(t), attempt[t] + 1 < M, Attempt(t, ReadAgain(t))
      PROVE  /\ Left(t)' < Left(t)
             /\ \A u \in Tasks : u # t => at'[u] = at[u] /\ attempt'[u] = attempt[u]
  <2>1. /\ attempt'[t] = attempt[t] + 1 /\ at'[t] = ReadAgain(t)
        /\ \A u \in Tasks : u # t => at'[u] = at[u] /\ attempt'[u] = attempt[u]
    BY <1>1, <1>2, <1>6 DEF Attempt
  <2>2. \/ at[t] = "jobWrite" /\ at'[t] = "jobRead"
        \/ at[t] = "finishWrite" /\ at'[t] = "finishRead"
        \/ at[t] = "taskWrite" /\ at'[t] = "taskRead"
    BY <1>6, <2>1 DEF Writing, ReadAgain
  <2> QED
    BY <1>1, <2>1, <2>2 DEF Left, Reading
<1>7. CASE ReadJobRun(t, "jobRead", "jobWrite") \/ ReadJobRun(t, "finishRead", "finishWrite")
           \/ ReadAgentTask(t)
  BY <1>4, <1>7 DEF ReadJobRun, ReadAgentTask
<1>8. CASE WriteJobRun(t) \/ WriteAgentTask(t) \/ FinishNothing(t) \/ WriteOutcome(t)
           \/ FailCall(t) \/ LoseReply(t)
  BY <1>5, <1>8
  DEF WriteJobRun, WriteAgentTask, FinishNothing, WriteOutcome, FailCall, LoseReply, Writing
<1>9. CASE Conflict(t)
  BY <1>5, <1>6, <1>9 DEF Conflict, AfterConflict, Writing
<1> QED
  BY <1>7, <1>8, <1>9 DEF CallStep

\* However often a task conflicts, a call of write_checkpoint or
\* mark_job_run_finished is over after four gateway calls for every attempt: each
\* step it takes is nearer to its end, and no other task, no kill request and no
\* conflict ever takes it further away.
THEOREM CallsAreBounded ==
  Spec => /\ [](\A t \in Tasks : Left(t) \in 0 .. 4 * MaxConflictRetries + 1)
          /\ [][\A t \in Tasks :
                  at[t] \in Busy /\ (CallStep(t) \/ Left(t)' # Left(t)) => Left(t)' < Left(t)]_vars
<1> DEFINE Bound == \A t \in Tasks : Left(t) \in 0 .. 4 * MaxConflictRetries + 1
           Falls == \A t \in Tasks :
             at[t] \in Busy /\ (CallStep(t) \/ Left(t)' # Left(t)) => Left(t)' < Left(t)
<1>1. TypeOK => Bound
  BY RetriesAssumption DEF TypeOK, Left, Reading
<1>2. TypeOK /\ [Next]_vars => [Falls]_vars
  <2> SUFFICES ASSUME TypeOK, Next, NEW t \in Tasks,
                      at[t] \in Busy, CallStep(t) \/ Left(t)' # Left(t)
               PROVE  Left(t)' < Left(t)
    OBVIOUS
  <2>1. ASSUME at'[t] = at[t], attempt'[t] = attempt[t] PROVE Left(t)' = Left(t)
    BY <2>1 DEF Left
  <2>2. ASSUME NEW u \in Tasks, NEW s \in TaskStatus, CallWriteCheckpoint(u, s)
        PROVE  at'[t] = at[t] /\ attempt'[t] = attempt[t]
    BY <2>2 DEF CallWriteCheckpoint, MayAsk, Goto, TypeOK
  <2>3. ASSUME NEW u \in Tasks, CallMarkFinished(u)
        PROVE  at'[t] = at[t] /\ attempt'[t] = attempt[t]
    BY <2>3 DEF CallMarkFinished, Goto, TypeOK
  <2>4. ASSUME NEW a \in Admins, KillSet(a)
        PROVE  at'[t] = at[t] /\ attempt'[t] = attempt[t]
    BY <2>4 DEF KillSet, KillFind, KillPut, KillConflict, callVars
  <2>5. ASSUME NEW u \in Tasks, CallStep(u), u # t
        PROVE  at'[t] = at[t] /\ attempt'[t] = attempt[t]
    BY <2>5, StepsCount
  <2>6. ASSUME NEW p \in late, ArriveLate(p) \/ VanishLate(p)
        PROVE  at'[t] = at[t] /\ attempt'[t] = attempt[t]
    BY <2>6 DEF ArriveLate, VanishLate, callVars
  <2> QED
    BY <2>1, <2>2, <2>3, <2>4, <2>5, <2>6, StepsCount DEF Next
<1> QED
  BY <1>1, <1>2, TypeCorrect, PTL DEF Spec
=============================================================================
