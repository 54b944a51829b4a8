----------------------------- MODULE Checkpoint -----------------------------
(***************************************************************************)
(* orchestrator/checkpoint.py: the read-modify-write cycles by which the   *)
(* tasks of one job_run record their progress, racing each other and the   *)
(* kill_set of mcp_gateway/app/tools/kill_tools.py for one CouchDB         *)
(* document.                                                               *)
(*                                                                         *)
(* Every read and every put is a step of its own.  CouchDB accepts a put   *)
(* only when it carries the document's current revision (MVCC); rev 0      *)
(* stands for a document that does not exist.  A gateway read that fails   *)
(* is seen as "no document" (couchdb_client.get_document returns None on   *)
(* every exception).  The MCP client gives up on a put after its timeout   *)
(* and raises, but the gateway goes on with it: such a put is in flight    *)
(* and arrives at any later time, before or after what its task does next. *)
(* A crashed worker is a task that takes no more steps.                    *)
(***************************************************************************)
EXTENDS JobStatuses, Integers, Sequences

CONSTANTS
  Tasks,              \* the agent tasks of the job_run
  Admins,             \* kill_set requests, one each
  Recordable,         \* the statuses every task may record
  MaxConflictRetries, \* _MAX_CONFLICT_RETRIES
  MaxFaults           \* bound: failed reads, failed calls and lost replies

ASSUME RecordableAssumption == Recordable \in [Tasks -> SUBSET TaskStatus]
ASSUME RetriesAssumption == MaxConflictRetries \in Nat \ {0}
ASSUME FaultsAssumption == MaxFaults \in Nat

VARIABLES
  jobRun,        \* the job_run document
  agentTask,     \* the agent_task document of every task
  at,            \* where every task is in checkpoint.py
  asked,         \* the status of the task's last write_checkpoint call
  attempt,       \* conflicts met in the current retry loop
  copy,          \* the job_run document as the task read it
  taskRev,       \* the revision of the agent_task document as the task read it
  killer,        \* where every kill_set is
  killCopy,      \* the job_run document as kill_set found it
  faults,        \* failed reads, failed calls and lost replies so far
  late,          \* the puts in flight whose tasks have given up on them
  causes         \* history: why the document is not as the task, since its
                 \* last read of it, believes it to be

documents == <<jobRun, agentTask>>
callVars == <<at, asked, attempt, copy, taskRev>>
killVars == <<killer, killCopy>>
vars == <<documents, callVars, killVars, faults, late, causes>>

-----------------------------------------------------------------------------
(* Documents *)

Entry == [task: Tasks, status: TaskStatus]
JobRunDoc ==
  [rev: Nat, status: JobStatus, entries: Seq(Entry), killRequested: BOOLEAN]
AgentTaskDoc == [rev: Nat, status: TaskStatus \cup {Unrecorded}]

\* A put of one of the three loops, as the gateway received it.
LoopPut ==
  [task: Tasks, of: {"jobWrite", "finishWrite", "taskWrite"}, status: TaskStatus,
   copy: JobRunDoc, taskRev: Nat]

\* The document write_checkpoint builds when its read finds none; with its
\* rev 0 it also stands for the document that does not exist.
NewJobRun ==
  [rev |-> 0, status |-> "running", entries |-> <<>>, killRequested |-> FALSE]
NoAgentTask == [rev |-> 0, status |-> Unrecorded]

HasEntry(entries, t) == \E i \in DOMAIN entries : entries[i].task = t

\* next((t for t in tasks if t["agent_task_id"] == agent_task_id), None)
FirstEntry(entries, t) ==
  CHOOSE i \in DOMAIN entries :
    /\ entries[i].task = t
    /\ \A j \in 1 .. i - 1 : entries[j].task # t

\* Mutant: a second checkpoint of a task adds a second entry.
UpsertByAppending(entries, t, s) == Append(entries, [task |-> t, status |-> s])

Upsert(entries, t, s) ==
  IF HasEntry(entries, t)
  THEN [entries EXCEPT ![FirstEntry(entries, t)].status = s]
  ELSE Append(entries, [task |-> t, status |-> s])

WithTask(doc, t, s) ==
  [doc EXCEPT !.rev = @ + 1, !.entries = Upsert(@, t, s)]
WithOutcome(doc, s) == [doc EXCEPT !.rev = @ + 1, !.status = s]
WithKillRequest(doc) == [doc EXCEPT !.rev = @ + 1, !.killRequested = TRUE]

\* What a put over revision rev meets: CouchDB compares it with the
\* document's own.  Mutant: a store without the comparison.
AcceptsAnyRevision(doc, rev) == TRUE
Accepts(doc, rev) == doc.rev = rev

-----------------------------------------------------------------------------
(* Where a task is *)

JobLoop == {"jobRead", "jobWrite", "finishRead", "finishWrite"}
TaskLoop == {"taskRead", "taskWrite"}
Busy == JobLoop \cup TaskLoop
Place == Busy \cup {"idle", "checkpointed", "finished", "raised"}

Goto(t, place) == at' = [at EXCEPT ![t] = place]

\* A retry loop begins or ends: its local variables start over.
Leave(t, place) ==
  /\ Goto(t, place)
  /\ attempt' = [attempt EXCEPT ![t] = 0]
  /\ copy' = [copy EXCEPT ![t] = NewJobRun]
  /\ taskRev' = [taskRev EXCEPT ![t] = 0]

\* Somebody else wrote the job_run document, the task's read of it failed, or
\* a put of the task's own arrived after the task had given up on it.
Cause == {"others", "misread", "late"}

\* A write of the job_run document makes every copy of it stale.
StaleCopy(u, cause) ==
  IF at[u] \in {"jobWrite", "finishWrite"} THEN causes[u] \cup {cause} ELSE causes[u]

\* The writer's own loop, if it is a task's, is over.
Overtake(writer) ==
  causes' = [u \in Tasks |-> IF u \in writer THEN {} ELSE StaleCopy(u, "others")]

Fault == faults < MaxFaults /\ faults' = faults + 1

Settle(t) == causes' = [causes EXCEPT ![t] = {}]
Misread(t) == causes' = [causes EXCEPT ![t] = {"misread"}]

Init ==
  /\ jobRun = NewJobRun
  /\ agentTask = [t \in Tasks |-> NoAgentTask]
  /\ at = [t \in Tasks |-> "idle"]
  /\ asked = [t \in Tasks |-> Unrecorded]
  /\ attempt = [t \in Tasks |-> 0]
  /\ copy = [t \in Tasks |-> NewJobRun]
  /\ taskRev = [t \in Tasks |-> 0]
  /\ killer = [a \in Admins |-> "idle"]
  /\ killCopy = [a \in Admins |-> NewJobRun]
  /\ faults = 0
  /\ late = {}
  /\ causes = [t \in Tasks |-> {}]

-----------------------------------------------------------------------------
(* write_checkpoint *)

\* The calls the agents' tasks and their Celery wrappers make: a status that
\* may follow the last one, and after an exception only "failed".
MayAsk(t, s) ==
  /\ s \in MayFollow(asked[t]) \cap Recordable[t]
  /\ \/ at[t] = "idle"
     \/ at[t] = "checkpointed" /\ asked[t] = "running"
     \/ at[t] = "raised" /\ s = "failed"

CallWriteCheckpoint(t, s) ==
  /\ MayAsk(t, s)
  /\ asked' = [asked EXCEPT ![t] = s]
  /\ Goto(t, "jobRead")
  /\ UNCHANGED <<documents, attempt, copy, taskRev, killVars, faults, late, causes>>

\* _read_job_run; a failed read of an existing document yields None.
ReadJobRun(t, from, to) ==
  /\ at[t] = from
  /\ Goto(t, to)
  /\ \/ /\ copy' = [copy EXCEPT ![t] = jobRun]
        /\ Settle(t)
        /\ UNCHANGED faults
     \/ /\ jobRun.rev # 0
        /\ Fault
        /\ copy' = [copy EXCEPT ![t] = NewJobRun]
        /\ Misread(t)
  /\ UNCHANGED <<documents, asked, attempt, taskRev, killVars, late>>

WriteJobRun(t) ==
  /\ at[t] = "jobWrite"
  /\ Accepts(jobRun, copy[t].rev)
  /\ jobRun' = WithTask(copy[t], t, asked[t])
  /\ Leave(t, "taskRead")
  /\ Overtake({t})
  /\ UNCHANGED <<agentTask, asked, killVars, faults, late>>

\* The second loop: the standalone agent_task document.
ReadAgentTask(t) ==
  /\ at[t] = "taskRead"
  /\ Goto(t, "taskWrite")
  /\ \/ /\ taskRev' = [taskRev EXCEPT ![t] = agentTask[t].rev]
        /\ Settle(t)
        /\ UNCHANGED faults
     \/ /\ agentTask[t].rev # 0
        /\ Fault
        /\ taskRev' = [taskRev EXCEPT ![t] = 0]
        /\ Misread(t)
  /\ UNCHANGED <<documents, asked, attempt, copy, killVars, late>>

PutAgentTask(t, rev, s) ==
  agentTask' = [agentTask EXCEPT ![t] = [rev |-> rev + 1, status |-> s]]

WriteAgentTask(t) ==
  /\ at[t] = "taskWrite"
  /\ Accepts(agentTask[t], taskRev[t])
  /\ PutAgentTask(t, taskRev[t], asked[t])
  /\ Leave(t, "checkpointed")
  /\ Settle(t)
  /\ UNCHANGED <<jobRun, asked, killVars, faults, late>>

-----------------------------------------------------------------------------
(* mark_job_run_finished *)

\* record_kill, the "failed" wrappers and the last stage of a pipeline call
\* it right after the checkpoint of the same status.
CallMarkFinished(t) ==
  /\ at[t] = "checkpointed"
  /\ asked[t] \in JobStatus \ {"running"}
  /\ Goto(t, "finishRead")
  /\ UNCHANGED <<documents, asked, attempt, copy, taskRev, killVars, faults, late, causes>>

\* if job_run is None: return
FinishNothing(t) ==
  /\ at[t] = "finishWrite"
  /\ copy[t].rev = 0
  /\ Leave(t, "finished")
  /\ Settle(t)
  /\ UNCHANGED <<documents, asked, killVars, faults, late>>

WriteOutcome(t) ==
  /\ at[t] = "finishWrite"
  /\ copy[t].rev # 0
  /\ Accepts(jobRun, copy[t].rev)
  /\ jobRun' = WithOutcome(copy[t], asked[t])
  /\ Leave(t, "finished")
  /\ Overtake({t})
  /\ UNCHANGED <<agentTask, asked, killVars, faults, late>>

-----------------------------------------------------------------------------
(* Conflicts and failures *)

Writing(t) ==
  \/ at[t] = "jobWrite"
  \/ at[t] = "finishWrite" /\ copy[t].rev # 0
  \/ at[t] = "taskWrite"

Stale(t) ==
  IF at[t] = "taskWrite" THEN ~Accepts(agentTask[t], taskRev[t])
  ELSE ~Accepts(jobRun, copy[t].rev)

ReadAgain(t) ==
  CASE at[t] = "jobWrite"    -> "jobRead"
    [] at[t] = "finishWrite" -> "finishRead"
    [] OTHER                 -> "taskRead"

Attempt(t, place) ==
  /\ attempt' = [attempt EXCEPT ![t] = @ + 1]
  /\ Goto(t, place)
  /\ UNCHANGED <<copy, taskRev>>

\* Mutant: the last attempt's conflict is swallowed instead of raised.
SwallowLast(t) ==
  IF attempt[t] + 1 < MaxConflictRetries
  THEN Attempt(t, ReadAgain(t)) ELSE Leave(t, "checkpointed")

\* Mutant: one attempt too many.
OneAttemptMore(t) ==
  IF attempt[t] < MaxConflictRetries
  THEN Attempt(t, ReadAgain(t)) ELSE Leave(t, "raised")

\* Mutant: only the put is retried, not the whole read-modify-write.
RetryPutOnly(t) ==
  IF attempt[t] + 1 < MaxConflictRetries
  THEN Attempt(t, at[t]) ELSE Leave(t, "raised")

\* Mutant: conflicts are retried for ever with the copy in hand.
RetryForEver(t) == UNCHANGED <<attempt, at, copy, taskRev>>

\* The retry of the whole cycle, up to the last attempt, which raises.
AfterConflict(t) ==
  IF attempt[t] + 1 < MaxConflictRetries
  THEN Attempt(t, ReadAgain(t)) ELSE Leave(t, "raised")

Conflict(t) ==
  /\ Writing(t)
  /\ Stale(t)
  /\ AfterConflict(t)
  /\ Settle(t)
  /\ UNCHANGED <<documents, asked, killVars, faults, late>>

\* A read or a put fails without a conflict and without effect; nothing in
\* checkpoint.py catches it.
FailCall(t) ==
  /\ at[t] \in Busy
  /\ Fault
  /\ Leave(t, "raised")
  /\ Settle(t)
  /\ UNCHANGED <<documents, asked, killVars, late>>

\* The put t is about to make.
PutOf(t) ==
  [task |-> t, of |-> at[t], status |-> asked[t], copy |-> copy[t], taskRev |-> taskRev[t]]

\* The MCP client's timeout: the task sees an exception, the put is in flight.
\* (Over a revision that is stale already, FailCall is the same.)
LoseReply(t) ==
  /\ Writing(t)
  /\ ~Stale(t)
  /\ Fault
  /\ late' = late \cup {PutOf(t)}
  /\ Leave(t, "raised")
  /\ Settle(t)
  /\ UNCHANGED <<documents, asked, killVars>>

\* The gateway makes a put whose task has given up; it is accepted if nobody
\* has written the document meanwhile.
ArriveLate(p) ==
  /\ late' = late \ {p}
  /\ \/ /\ p.of = "taskWrite"
        /\ Accepts(agentTask[p.task], p.taskRev)
        /\ PutAgentTask(p.task, p.taskRev, p.status)
        /\ causes' = [causes EXCEPT ![p.task] =
                        IF at[p.task] = "taskWrite" THEN @ \cup {"late"} ELSE @]
        /\ UNCHANGED jobRun
     \/ /\ p.of # "taskWrite"
        /\ Accepts(jobRun, p.copy.rev)
        /\ jobRun' = IF p.of = "jobWrite" THEN WithTask(p.copy, p.task, p.status)
                     ELSE WithOutcome(p.copy, p.status)
        /\ causes' = [u \in Tasks |-> StaleCopy(u, IF u = p.task THEN "late" ELSE "others")]
        /\ UNCHANGED agentTask
  /\ UNCHANGED <<callVars, killVars, faults>>

\* It is refused, or gets lost on the way: nobody is told.
VanishLate(p) ==
  /\ late' = late \ {p}
  /\ UNCHANGED <<documents, callVars, killVars, faults, causes>>

-----------------------------------------------------------------------------
(* kill_set with scope "job_run": find, set, put once *)

\* The document is looked up with a Mango query; before the first checkpoint
\* there is none, and only the Redis flag is set.
KillFind(a) ==
  /\ killer[a] = "idle"
  /\ killer' = [killer EXCEPT ![a] = IF jobRun.rev = 0 THEN "done" ELSE "found"]
  /\ killCopy' = [killCopy EXCEPT ![a] = jobRun]
  /\ UNCHANGED <<documents, callVars, late, causes, faults>>

KillPut(a) ==
  /\ killer[a] = "found"
  /\ Accepts(jobRun, killCopy[a].rev)
  /\ jobRun' = WithKillRequest(killCopy[a])
  /\ killer' = [killer EXCEPT ![a] = "done"]
  /\ killCopy' = [killCopy EXCEPT ![a] = NewJobRun]
  /\ Overtake({})
  /\ UNCHANGED <<agentTask, callVars, faults, late>>

\* put_document is not retried: a conflict ends the request with an error.
KillConflict(a) ==
  /\ killer[a] = "found"
  /\ ~Accepts(jobRun, killCopy[a].rev)
  /\ killer' = [killer EXCEPT ![a] = "raised"]
  /\ killCopy' = [killCopy EXCEPT ![a] = NewJobRun]
  /\ UNCHANGED <<documents, callVars, late, causes, faults>>

-----------------------------------------------------------------------------

\* The steps a task takes inside a call of checkpoint.py.
CallStep(t) ==
  \/ ReadJobRun(t, "jobRead", "jobWrite")
  \/ WriteJobRun(t)
  \/ ReadAgentTask(t)
  \/ WriteAgentTask(t)
  \/ ReadJobRun(t, "finishRead", "finishWrite")
  \/ FinishNothing(t)
  \/ WriteOutcome(t)
  \/ Conflict(t)
  \/ FailCall(t)
  \/ LoseReply(t)

KillSet(a) == KillFind(a) \/ KillPut(a) \/ KillConflict(a)

Next ==
  \/ \E t \in Tasks, s \in TaskStatus : CallWriteCheckpoint(t, s)
  \/ \E t \in Tasks : CallMarkFinished(t)
  \/ \E t \in Tasks : CallStep(t)
  \/ \E p \in late : ArriveLate(p) \/ VanishLate(p)
  \/ \E a \in Admins : KillSet(a)

Spec == Init /\ [][Next]_vars

\* A worker inside a call keeps running: every gateway call it waits for
\* returns or times out.  Nothing obliges a task to make a call.
FairSpec == Spec /\ \A t \in Tasks : WF_vars(CallStep(t))

-----------------------------------------------------------------------------
(* Properties *)

\* The two documents, the callers' local state and the history are well formed.
TypeOK ==
  /\ jobRun \in JobRunDoc
  /\ agentTask \in [Tasks -> AgentTaskDoc]
  /\ at \in [Tasks -> Place]
  /\ asked \in [Tasks -> TaskStatus \cup {Unrecorded}]
  /\ attempt \in [Tasks -> 0 .. MaxConflictRetries - 1]
  /\ copy \in [Tasks -> JobRunDoc]
  /\ taskRev \in [Tasks -> Nat]
  /\ killer \in [Admins -> {"idle", "found", "done", "raised"}]
  /\ killCopy \in [Admins -> JobRunDoc]
  /\ faults \in 0 .. MaxFaults
  /\ late \subseteq LoopPut
  /\ causes \in [Tasks -> SUBSET Cause]

Unique(entries) ==
  \A i, j \in DOMAIN entries : entries[i].task = entries[j].task => i = j

\* job_run.tasks holds at most one entry per agent task, however many times
\* the task checkpoints and whoever else writes the document meanwhile.
OneEntryPerTask == Unique(jobRun.entries)

StatusOf(entries, t) ==
  IF HasEntry(entries, t) THEN entries[FirstEntry(entries, t)].status ELSE Unrecorded

\* When write_checkpoint has returned, both documents hold the status it was
\* asked to record: the entry in job_run.tasks and the agent_task document
\* agree, though they are written by two separate loops.
DocumentsAgree ==
  \A t \in Tasks :
    at[t] \in {"checkpointed", "finishRead", "finishWrite", "finished"} =>
      /\ StatusOf(jobRun.entries, t) = asked[t]
      /\ agentTask[t].status = asked[t]

\* Every conflict has a cause since the task last read the document: another
\* task or a kill request wrote it, which happens to the job_run document only;
\* or something failed, and the task's own read did, or the task "races against
\* itself": an earlier put of its own, which it had given up on, arrived.  So
\* without a failure a call that gives up was overtaken _MAX_CONFLICT_RETRIES
\* times by others, and no task ever conflicts over its agent_task document.
ConflictsHaveACause ==
  \A t \in Tasks : Writing(t) /\ Stale(t) =>
    \/ "others" \in causes[t] /\ at[t] # "taskWrite"
    \/ causes[t] \cap {"misread", "late"} # {} /\ faults > 0

\* Readers of the job_run document see a ledger: no status recorded by one
\* task is lost or undone by another's stale copy, a finished job never goes
\* back to running, and a recorded kill request is never withdrawn.
Ledger == INSTANCE JobLedger WITH
  ledger <- [t \in Tasks |-> StatusOf(jobRun.entries, t)],
  outcome <- IF jobRun.rev = 0 THEN Absent ELSE jobRun.status,
  killRequested <- jobRun.killRequested

ImplementsLedger == Ledger!Spec

\* Every call of write_checkpoint or mark_job_run_finished returns or raises.
CallsEnd ==
  \A t \in Tasks : at[t] \in Busy ~> at[t] \notin Busy
=============================================================================
