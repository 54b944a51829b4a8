# A TLA+ model of the COBOL-modernization harness

This directory holds TLA+ modules that model the control of the system under
`src/`, TLC configurations that check them on small instances, and theorems
about them that TLAPS checks for every value of the constants. Every definition
is translated from the source lines that `PROJECT.json` ("map") names.

## The system

A web front end starts *jobs*. A job is a chain of Celery tasks (ingestion,
structural analysis, recommendation) or a single task (epic/story writing, code
generation). Tasks call language models, and reach CouchDB, Redis, the audit log
and GitHub only through the *MCP gateway*. Humans review recommendations, edit
stories and may *kill* what is running.

| component | state it keeps | operations | what makes it correct |
|---|---|---|---|
| job record, `orchestrator/checkpoint.py` | the `job_run` document, one `agent_task` document per task | `write_checkpoint`, `mark_job_run_finished` | no task's status, no outcome and no kill request is lost; one entry per task; both documents agree |
| pipeline and wrappers, `orchestrator/`, `agents/*/task.py` | where every stage is, the Redis queues | trigger, the task bodies, the `except` handlers | stages in order; the job's status is explained by its tasks'; jobs end |
| kill-switch, `kill_tools.py`, `kill_switch.py`, `admin.py` | Redis flags, `job_run.kill_requested` | `kill_check`, `kill_set`, `record_kill`, purge | an acknowledged kill is obeyed, durable and audited, and confines what a job still does |
| audit log, `audit_tools.py`, `hashing.py` | `audit_event` documents, chained by hash | `audit_append`, `audit_export_range` | damage shows in every report that meets it, and what else makes a report invalid is known |
| code commit, `codegen_tools.py` | the branch ref at GitHub | `codegen_commit_files` | a compare-and-swap: no commit is dropped, retries are bounded |
| code generation, `agents/codegen`, `codegen_bff` | the story's `code_generation_status` | trigger, generate, fail | the status follows the job; only approved work is generated |
| review, `recommendation_service`, `review_bff` | the structure and the recommendation of every file, a TTL cache | decisions, repeated analyses, summaries, lists | nothing undoes what it has not seen; code has approval; stale lists end |
| backlog, `epic_story_service`, `export_tools.py` | epics and stories | edits, exports | no writer undoes another's part; a document names only what exists |
| analysis algorithms | none | chunking, merging, clustering, confidence | agreement with a reference definition |
| upload and mainframe pulls, `ingestion_bff`, `source_mgmt_service`, `mainframe_tools.py` | batches, source files, chunks | upload, pull, list, ingest | an accepted request is complete; one pipeline per file |

What interacts: all tasks of a job, and the kill request, write one `job_run`
document; Celery's queues and the kill flags live in one Redis; every component
appends to the audit log; the code generation, the editor and the export write
one story document; a repeated analysis, the epic writer and a human's decision
write the structure and the recommendation of one file, which the code generation
reads. CouchDB's revision check (409) is the only concurrency
control. What is hard is therefore interleaved read-modify-write cycles, calls
that fail without their effect, with it, or before it, reads that fail as "not
found", lost workers and messages, and a Redis that forgets. `PROJECT.json` lists the
hazards, each at its line.

## Modules

| module | models | kind |
|---|---|---|
| `JobStatuses` | the statuses and the order in which one task records them | definitions |
| `JobLedger` | what the job record promises: recording, finishing and kill requests as single steps | abstract specification |
| `Checkpoint` | `checkpoint.py` and `kill_set`'s put at the grain of reads and puts | implements `JobLedger` |
| `CheckpointProofs` | proofs about `Checkpoint` | proofs |
| `JobPipeline` | one job over `JobLedger`: stages, wrappers, kill-switch, Redis | composition |
| `JobPipelineProofs` | proofs about `JobPipeline` | proofs |
| `AuditChain` | the audit log of one project | component |
| `AuditChainProofs` | proofs about `AuditChain` | proofs |
| `BranchLog` | what `codegen.commit_files` promises: a request adds at most one commit, in one step | abstract specification |
| `CodegenCommit` | the compare-and-swap of the branch's ref at the grain of GitHub's requests | implements `BranchLog` |
| `CodegenCommitProofs` | proofs about `CodegenCommit` | proofs |
| `StoryFields` | what a story document promises: its text, its code and its issue are independent | abstract specification |
| `Backlog` | code generations, edits and exports over whole story documents | implements `StoryFields`; composition of three writers |
| `BacklogProofs` | proofs about `Backlog` | proofs |
| `ReviewLedger` | what the review promises: an analysis and a decision are single steps on a recommendation | abstract specification |
| `Review` | analyses, decisions, summaries and code generations over whole structure and recommendation documents; the list of eligible stories | implements `ReviewLedger`; composition of four kinds of processes |
| `ReviewProofs` | proofs about `Review` | proofs |
| `ReviewQueue` | the review BFF's cached lists over `ReviewLedger` | composition |
| `ReviewQueueProofs` | proofs about `ReviewQueue` | proofs |
| `Chunking` | how a long text is cut, one turn of `build_chunks` at a time | operators, used by `Intake` and `Analysis` |
| `Intake` | uploads and mainframe pulls up to the first task of every job | component |
| `IntakeProofs` | proofs about `Chunking`, `Intake`, and what `Analysis` cuts | proofs |
| `Analysis` | chunking, merging, confidence and clustering as operators | pure algorithms |
| `MC*` | the instances TLC checks | |

### Checkpoint

`at[t]` is the program counter of task `t` in `checkpoint.py`: `jobRead` and
`jobWrite` are the first loop of `write_checkpoint`, `taskRead` and `taskWrite`
the second, `finishRead` and `finishWrite` the loop of `mark_job_run_finished`.
`copy[t]` is the Python local `job_run`, `attempt[t]` the loop variable. A
document carries its revision; `rev = 0` is a document that does not exist.
`Conflict` is the `except ToolError` with its last-attempt `raise`. A failed read
yields "no document", as `couchdb_client.get_document` returns `None` on every
exception. `LoseReply` is the timeout of `MCPClient`: the task gets an exception and
goes on to its wrapper, while the gateway's thread still holds the put. Such a put is
in `late` and arrives whenever it likes (`ArriveLate`), or never (`VanishLate`); it is
how a task, in the words of the comment at `checkpoint.py:42`, "races against itself".
`causes` is a history variable that no action reads: why a document is not as the
task read it. `CallWriteCheckpoint` admits the calls the agents make: statuses in
`MayFollow`'s order, and after an exception only `failed`, from the wrappers. `kill_set` is the gateway's own thread, which
no caller's timeout stops.

### JobPipeline

A stage is a sequence of operations (`IngestionScript` ... `CodegenScript`): the
checks, calls, checkpoints and the final `mark_job_run_finished` in the order of
the task body, its loops unrolled once. `Raise` is an exception at any operation,
with or without the operation's effect; `Handles` says which wrappers catch it.
`Handle` and `RaiseInHandler` are the `except` blocks. The `job_run` document is
`JobLedger`'s: its steps are instantiated, which `Checkpoint`'s refinement
justifies. `Purge` is `celery_app.control.purge()`; `RedisLost` loses any of the
kill flags and possibly the queued message, since the one Redis holds both and
persists by snapshots. `late` and `ignored` are history variables.

### AuditChain

`audit_append` is `ReadHead`, `Stamp`, `Put`. The id stands for the hash (SHA-256
is ideal), so `prev` is the id of the predecessor. `Answers` is a query without a
sort order: any events up to its limit once more than that fit the selector. `Window`
is the one that looks for the head (1000), `Reports` the one of `audit_export_range`
(10000). `VerifyChain` states
the walk of `verify_chain` over the events in timestamp order as a condition on
every event. The gateway refuses updates and deletes and so does
`validate_doc_update`; `LoseEvent` and `AlterEvent` are damage below them.
Assumed: one gateway process whose clock gives every event its own time, and
concurrent tool calls (FastMCP runs synchronous tools in worker threads from
version 3 on; the images do not pin a version, and with a serial gateway the
model's behaviours are those with one appender).

### CodegenCommit

`at[c]` is the place of call `c` in `codegen_commit_files`: `reading` covers the
requests from the GET of the ref to the POST of the commit (`PostCommit`, one
step: what the first GET fixes, the later requests only build upon), `updating`
is before the PATCH, `auditing` before `audit_append`. `attempt[c]` is the loop
variable, `posted[c]` the local `commit_sha`. A commit is the sequence of its
authors and the tree it leaves, so that "the tree of the parent with this call's
files over it" is `Overlay`. GitHub is external: `FastForward` is a PATCH of a
ref without `force`. `caller[c]` is the other end of the MCP call, which may give
up after 30 seconds while the gateway's thread goes on. A 422 to the PATCH is taken for a moved branch, as the code does
(`codegen_tools.py:127`); GitHub's other reasons for a 422 are not told apart, and a
branch protected against every push would be refused until the retries run out. The
validations of repository, token and paths are one refusal (`Refused`), since they come before
any request. `began` is a history variable.

### Backlog

`at[r]` follows a run of `run_codegen` and its wrapper: the three calls of
`_mark_story_status` (`mark...` before its read, `put...` before its put), `work`
for the reads, checks and the generation, `commit`, and `last` for the final
check and checkpoints. `Handler` is where an exception leads: to the wrapper's
`except Exception`, or out of it. `edit[e]` follows `update_story`: read, audit,
put. `export[x]` follows `issue_tracker_export` and
`GitHubAdapter.export_stories`: fetch, milestone, issues, then the documents.
`issues` and `saving` take the stories in any order; the code takes them in the
order of the request, which no property depends on. A put is refused when its
revision is not the current one (`Accepts`); nothing here retries. The commit is
one step because `CodegenCommit` implements `BranchLog`, whose `Land` is one. A
kill is noticed at any of a run's checks (`NoticeKill`); `JobPipeline` says when.
`Crash` is a worker that dies, after which nobody takes the message again. `CallLeft`
says what becomes of a call whose run has timed out or died: nothing, the commit, or a
mark in `late` that lands at any later time (`LandLate`), as in `Checkpoint`. An edit
or an export is over when its put times out, so that there the put may as well land
at the exception.
`blind` is a history variable.

### Review

Every source file has at most one `cobol_program_structure` and one
`migration_recommendation`: `couchdb_write` derives their ids from the file. Two
files may be the same program (`ProgramOf`), which is why the approval gate reads
several of each. `at[a]` follows an analysis through the two stages that write:
`FindStructure` and `PutStructure` are `couchdb_write`'s read of the document it
replaces and its put, `ReadStructure` is `run_recommendation`, and so on. An
analysis is one delivery of the stages' messages; when only the message of
`run_recommendation` comes again, it starts with `ReadStructure`. `copy[a]` is what
`couchdb_write` holds, `copy[d]` the document a decision has read and will put
back. What a decision says is chosen when it is written. `Summary` is
`_understand_program`, which puts back a structure that was read before the first
program was summarised. `run[r]` holds the locals of `resolve_approved_recommendation`
and `run_codegen`: `CheckFile` reads one structure's recommendation per step, in any
order, since the order of the query is not defined. `Listed` is the join of
`list_eligible_stories`, over any part of the recommendations, because its query has
a limit. `clock` stands for `updated_at`. What an exception ends without having
written is a process that never goes on; a lost reply of a decision's write is in
`PutDecision`. `approved` and `decided` are history variables.

### ReviewQueue

The recommendations are `ReviewLedger`'s, which `Review`'s refinement justifies.
`list[l]` is the handler of `list_review_items` between its awaits: `fetching`
before the recommendation service has read the documents, `statuses` while the jobs'
statuses are asked for. `get_cached` and the first await, and the last await and
`set_cached`, have no other handler between them (one event loop, a Redis client
that blocks it), so they are one step with it. A list is known by the decisions and
analyses it reflects; `late` records those made between its query and its storing.
Any Redis call may fail (`Miss` on a cached key, `GiveUp` before `Store`,
`InvalidateInPart`). Two lists of one project (`Keys`) stand for the filters.

### Intake

A request goes from the BFF to `source_mgmt_service` and the gateway and back;
`request[r].at` says how far it came, `next` which file's job is started next. The
reply of every call may be lost after its effect, which is the alternative `error`
in each action; `RequestFails` is a failure without effect. Identifiers are random
UUIDs, so that a repeated request is a new one. `task[t]` follows one delivery of
`run_ingestion`; `PutSourceFile` is a put with an `_id` and no `_rev`, which only
creates, `FindChunk` and `PutChunk` are `couchdb_write` under the one id all chunks
of a file share. A task cuts the text its message carries: `cut` is what it has cut,
one turn of `build_chunks` (`CutNext` of `Chunking`) for every chunk it writes. The
code cuts all chunks before it writes the first; nothing else reads or writes them
meanwhile. `MCIntake` holds the instance of `Analysis` too, as a second system of
which nothing moves while the first one does.

### Analysis

`SplitFile` calls `build_chunks` with a text of any shape and `CutChunk` is one turn of
its loop, with the operators of `Chunking`; `Merge` is `merge_chunk_extractions`, `Find`
and `Connect` are the union-find of `clustering.py` with its path halving, and
`StructureFrom`, `Recommend` and `WriteEpics` are the places in the agents that
compose them. Scores are in thousandths, which is what `round(..., 3)` keeps. The
properties compare with definitions that do not iterate: which lines a chunk must
have, and `ConnectionsIn` of the community module `Graphs` over what the chunks
showed. `build_pipeline` passes no chunks today, so that a structure comes from one
extraction; `run_cobol_structural_analysis` accepts several, and both are among the
inputs.

## Runs

Every property of a passing run has a mutant: a plausible bug in a definition
(`PROJECT.json`, "mutants") with which TLC finds it violated. The mutated forms
are the definitions marked `Mutant:` in the modules; nothing else uses them.

| run | question | bounds, and why they are enough |
|---|---|---|
| `checkpoint` | do the read-modify-write cycles of `checkpoint.py` lose anything? `ImplementsLedger`, `OneEntryPerTask`, `DocumentsAgree`, `ConflictsHaveACause`, `CallsEnd` | two tasks and one kill request are all kinds of writers with each pair racing; two attempts (the code makes five) exercise both the retry and the last `raise`; one fault, at any call, whose put may arrive late. `CheckpointProofs` removes the bounds from the safety properties |
| `pipeline` | do the stages of a job keep their order, is its status explained, does it end, does a kill confine it? | all three kinds of jobs; two faults, since what goes wrong in a handler needs an exception first and a second one in it; one loss of Redis; one kill request with each scope |
| `audit` | what makes `verify_chain` fail, for a report on any range? `OnlyForksAndCutsBreakIt`, `SerialAppendsVerify`, `LinksGoBack`, `DamageIsEvident` | two appends overlap; four events with a window and a report of three let the log outgrow both, which are 1000 and 10000 in the code; damage to any event at any time |
| `commit` | is the compare-and-swap of the branch a log? `ImplementsBranch`, `RejectionMeansMoved`, `AuditIsTruthful`, `CallsEnd` | three requests (two for overlapping files, one refused), two commits by others against two attempts (the code makes three), so that the retries run out; one fault |
| `story` | do the writers of a story document disturb each other? `ImplementsFields`, `DocumentsTellTheTruth`, `AnswersStayTrue`, `GenerationSettles` | any three of two code generations, one edit and two exports (`MaxCallers`), which is every pair with a third one in between; two stories, so that an export can fail between them; two faults, the second one among exports and edits only. A story is written apart from the others, so the generations and the edit are of one |
| `review` | is a decision kept until an analysis replaces what it was about, and is code generated from what was approved? `ImplementsLedger`, `CodeHasApproval`, `ListedIsAccepted` | two uploads of one program and one of a second, in a story of both, so that the gate has to choose and to go on; one file is analysed a second time, and every file gets a decision; one summary, one generation |
| `queue` | what may a list show after a decision? `StaleEntriesAreLate`, `StaleListsEnd` | two lists race each other and two decisions; two keys, so that an invalidation can stop between them; a life of two ticks, so that an entry can be renewed |
| `intake` | what do a failing request and a redelivered message leave behind, and do the algorithms compute what they are for? `AcceptedIsComplete`, `OnePipelinePerFile`, `ChunksCoverTheFile`, `EpicsAreComponents` | a batch of two files can fail between them; one text of two chunks with a paragraph heading in it, the others of one line, with a budget of two and an overlap of one; one pull and one listing; two deliveries each. For the algorithms, every file of up to ten lines, cut one chunk at a time, with a budget of four (the code has 800) and an overlap of two (15) has paragraphs below, at and over the budget, and more than two chunks; three programs in all orders are the least in which a link must be followed over a third; eight kinds of extractions, among them two versions of one paragraph, with a target listed twice |

Four runs end in a violation, each of one property that a document of the
repository states and the code does not keep. `PROJECT.json` ("findings") quotes
the document and tells the counterexample. A fifth finding needs no counterexample:
the documents promise that a retried task overwrites what it wrote
(`docs/architecture.md` section 9.2, `couchdb_tools.md`), and `OnePipelinePerFile`
holds because a second run of `run_ingestion` cannot: its `source_file` is put without
a revision, and it fails (`PutSourceFile`). That keeps a redelivered message from
starting a second pipeline, and a retry after a death from completing the first.

| run | the documents say | the run shows |
|---|---|---|
| `kill_durable` | a kill does not rest on Redis alone | a check passes after Redis came back without the flag |
| `export_audited` | one story's failure does not abort the batch; each export is audited | a story changed during the export makes its write-back conflict; the export ends without an audit event of an issue it created |
| `audit_invalid` | a report that is not valid means tampering or data loss | two overlapping appends fork the chain of a log that was never damaged |
| `chunks_kept` | one `chunk` document per chunk, covering the file | a task goes on with the document of its last chunk only: all have one id |

`CHECK_DEADLOCK FALSE` is in every configuration but `MCReviewQueue.cfg`, where a
list can always be asked for: elsewhere all calls, jobs, events and requests of an
instance are finite in number, and a behaviour ends when they are used up.

What else the models show, beside these runs:

- A kill of scope all purges the message of a job between two stages; nothing
  records the kill, and the job stays at running (`Purge` sets `abandoned`, which
  `JobEnds` excuses).
- `kill_set` may raise after the flag is set and before its audit event
  (`KillRaises`), since its put of the job document has no conflict retry.
- A report that leaves out the predecessor of one of its events, by its period or by
  the limit of its query, is never valid, whatever happened to the log:
  `OnlyForksAndCutsBreakIt` names the forks and these cuts as the only causes.
- A task can conflict with itself: a put it has given up on arrives between its next
  read and its next put (`ArriveLate`; the cause "late" of `ConflictsHaveACause`).
- A repeated analysis sets an approved recommendation back to pending
  (`Recommended`) and drops the structure's summary (`PutStructure`).
- A request that ends in an error may leave a batch with jobs for some of its files
  (`TriggerJob`); the client repeats it as another batch.

## Fairness

Weak fairness is stated per process, for the steps the process takes by itself
once it has begun:

- `Checkpoint`: `CallStep(t)`. A worker inside `write_checkpoint` goes on; its
  gateway calls return or raise after `MCPClient`'s 30 seconds. That a task calls
  at all is not assumed.
- `JobPipeline`: a live stage and its handlers go on, a queued message is taken
  while Redis is up. Nothing brings a lost Redis back, a crashed worker does not
  return, and no admin has to kill. So `JobEnds` is conditional: on Redis being up
  again and again, and on the job not having been abandoned, where `abandoned`
  records a lost message, a lost worker, an exception nothing handled and a
  skipped final write. That list is the property's content: there is no other way
  for a job to stay at running.
- `CodegenCommit`: `CallStep(c)`, the gateway's thread, whose requests return or
  time out (`_client`). The caller's patience is not assumed.
- `ReviewQueue`: `Tick`, because Redis expires keys by its clock, and a list request's
  next step, because every call has a timeout (15 seconds in the BFF). Nobody has to
  ask for a list, to decide or to analyse, and an invalidation need not happen:
  `StaleListsEnd` rests on the time to live alone.
- `Backlog`: `RunStep(r)`, a code generation whose worker lives; `Crash` may end it at
  any step, and no step follows. Edits, exports, kills and puts in flight owe nothing.
  `GenerationSettles` excuses the runs that were killed, died with their worker, found
  no document to mark, or failed in the handler. That list is the property's content,
  as in `JobEnds`: there is no other way to leave a story at generating. It excuses
  these stories, it does not catch them; nothing in the code repairs them.

No strong fairness is assumed anywhere. The retries end because they are counted
(`_MAX_CONFLICT_RETRIES`, `MAX_REF_UPDATE_RETRIES`), not because rivals pause.

## What is proved

TLAPS checks the theorems of the eight `*Proofs` modules for every value of the
constants; no leaf is left out. Every invariant that a passing run checks is the
conclusion of one of them, except `EpicsAreComponents`, and so are the refinements:
`Checkpoint` implements `JobLedger`, `CodegenCommit` implements `BranchLog`,
`Backlog` implements `StoryFields`, `Review` implements `ReviewLedger`, and
`JobPipeline` keeps to `JobLedger` in its turn, so that what the stages do to the job
document is what `checkpoint.py` does in one step each. Of every liveness property
the part that is safety is a theorem as well (see below).

The proofs rest on the assumptions on the constants declared in the modules, which TLC
evaluates in each run, and on the library's theorems about finite sets, sequences and
well-founded orders. The assumptions are of three kinds: bounds are natural numbers
(`MaxFaults`, `TTL`, ...; the budget of lines of a chunk is positive,
`ChunkingAssumption`), identifiers of different things differ and `Nobody`, `Nothing`
and `NoFile` are none of them (`RequestsAssumption`, `ReviewersAssumption`,
`NobodyAssumption`, ...), and functions that say what a request is about are functions
(`FileOf`, `FileCount`, `Writes`, ...), of texts to texts (`TextAssumption`). Sets of
tasks, callers, files, stories, runs and requests may be infinite. `Kinds` in
`JobPipeline` are the three the code has (`KindsAssumption`).

Each module defines its inductive invariant `IInv` in named parts, has one lemma per
action or group of actions with one shape, and ends with the theorems.

- `CheckpointProofs`. The properties are not inductive: that a put changes only
  its own task's entry needs to know that the copy it puts *is* the current
  document, whenever the revisions agree, and which statuses the tasks may still
  ask for. The inductive invariant is `IInv ==
  TypeOK /\ OneEntryPerTask /\ CopiesInv /\ ProgressInv /\ LateInv /\ FaultsInv /\
  ConflictsHaveACause`. `CopiesInv` says that a copy with the current revision equals the document and
  that an earlier copy is of an earlier document; `ProgressInv` ties
  a task's place to what both documents hold for it; `LateInv` says that a put in flight
  that can still be accepted comes before everything its task was asked to record
  since, so that it changes the order of nothing. From it follow `TypeCorrect`, `OneEntry`, `Agreement`, `Causes`
  and `Refinement`: each put is a step of `JobLedger` and all else stutters.
  `CallsAreBounded` counts: a call has at most four steps per attempt to go, its own
  steps lower that number and nobody else changes it.
- `AuditChainProofs`. The invariant relates the link a caller holds to the events
  in the log: ids and times are unique, a link is the genesis constant or an event
  stamped before the caller's own stamp, and as long as no append was overtaken
  an append under way holds the head of the log. `ForksAndCutsAreTheOnlyCauses` and
  `DamageIsFound` are for overlapping appends, any window, and every report a query with
  any limit may return for any range;
  `SerialVerifies`, `Backwards` and `TypeCorrect` are the others.
- `CodegenCommitProofs`. `IInv == TypeOK /\ PlaceInv /\ PostedInv /\ LengthInv`:
  a call's place says whether its commit is on the branch; a posted commit's
  parent is the tip or a former tip, so that a fast-forward is possible exactly
  when nobody landed since; and every refused update has seen the branch grow by
  one. `Refinement`, `Rejections`, `AuditTrail` and `TypeCorrect` follow.
  `RetriesAreBounded` is the count of a request's steps, as in `CheckpointProofs`.
- `JobPipelineProofs`. Where a stage is tells what it has recorded (`StageInv`), and
  the chain's order (`StagesInOrder`) makes at most one stage active (`OneActive`), so
  that a step of one leaves the others' part alone (`OthersStay`). What a stage has
  still to do is a suffix of its script; that every script ends with its checkpoint,
  that only the last stage's finishes the job, and that between two results, and
  between the generation of code and its commit, lies a check (`Spaced`) is shown of
  the scripts' parts and carried through concatenation (`SafeConcat`,
  `ClosingConcat`) and through every step (`TailFacts`). `LateInv` says what was done
  under a flag bars the stage under way from another result until its next check,
  which then fails; it survives the hand-over to the next stage because every script
  begins with one (`Guarded`). `Outcome`, `Confinement`, `Order`, `Obeyed` and
  `TypeCorrect` are the theorems, and `Document`: every step of the pipeline is one of
  `JobLedger`, or leaves the document alone. `Finality`: a job that ended as failed or
  killed has no stage under way and its results never change again. `Carried` is the
  converse for jobs that have not ended: some stage is under way, unless the job was
  abandoned. `CarryInv` is the invariant it needs: a stage that raised has ended the
  job, one that was lost abandoned it, the last one cannot return before its final
  write (`Settled`), and a stage that returned has sent the next (`HandedOn`).
  `StagesAdvance`: each step of a stage takes it to a later place or shortens what it
  has to do, and nobody takes it back. The proofs are for any number of faults and outages and for every mix of kinds; loops of
  the bodies are unrolled once, in the proofs as in the model.
- `BacklogProofs`. Nothing retries here, so everything rests on `IsCopy`: a document
  that was read and has the current revision *is* the document. A put that is accepted
  therefore changes one part of the story only. `RunInv`, `EditInv` and `ExportInv` say
  what each writer has already done at its place (committed, audited, created the
  issue) and `OneMilestone` that the tracker never gets a second one, because the
  creation is refused. `Refinement`: every accepted put is one step of
  `StoryFields` on one part, every other step a stutter. `Truth`, `Answers` and
  `TypeCorrect` follow from the invariant too. `Settling` (`Tended`): a story that
  shows "generating" has a run that still owes it a mark, unless one of its runs was
  killed, died with its worker, found no document to mark or failed in its handler; with
  two runs of one story this is not obvious, since each may overwrite the other's mark,
  and a mark in flight may land after its run went on (`LateInv`). `Onward`: a run
  never goes back, and is over after ten steps.
- `ReviewProofs`. `CopiesInv` is `IsCopy` for the decisions and the summaries, so that
  a decision that is not refused is about what was read (`Refinement`). `DocumentsInv`
  makes update times of recommendations unique, which makes the most recent one of
  several a definite one, and `StructuredInv` gives every recommendation a structure.
  `RunsInv` follows the gate: for every program it has passed it has found an approval
  that stood during the run. `Approval`, `Eligibility` (the list and the gate choose
  the same recommendation) and `TypeCorrect` are the others.
- `ReviewQueueProofs`. `ListsInv` says that a list under way shows every decision or
  is late for it, `EntriesInv` that a cached entry lacks only decisions it was late
  for and those whose sweep is still to come or failed. `Staleness` and `TypeCorrect`
  follow. `Aging` is about one write and any number of lists, keys and clients: once it
  is made, no request falls behind it any more, and an entry that lacks it gets more
  time from nothing but the store that ends a request behind it, while every tick takes
  one from its life.
- `IntakeProofs`. `RequestsInv` says what was done for a request at each place,
  `JobsInv` that no job is without its batch, and `ChunksInv` that of the deliveries of
  one message only the one whose `source_file` was accepted goes on to chunks, whose
  one document is the chunk before the one it is at. `OnePipeline`, `Acceptance` and
  `TypeCorrect` follow. That the chunks cover the text rests on `ChunksCoverAnyText`:
  one turn of the loop of `build_chunks` keeps every chunk well cut (`WellCut`), leaves
  no gap, gets further and never passes the end, for any text, budget and overlap. The
  last boundary within the budget exists because the natural numbers are well founded
  (`Greatest`). `AnyFileIsCovered` is the same of the files `Analysis` cuts; it is in
  this module since it needs the same lemmas.

## What is only model-checked

- All liveness: TLAPS has no reasoning about fairness and `ENABLED`. What is left to
  TLC is that a process under way has a step it can take and fairness makes it take
  it. The rest of each argument is proved: `CallsEnd` (twice) needs that calls cannot
  go on for ever (`CallsAreBounded`, `RetriesAreBounded`), `JobEnds` that a job that
  has not ended has a stage under way and that stages only advance (`Carried`,
  `StagesAdvance`), `GenerationSettles` that a story at generating has a run to settle
  it, which gets ahead (`Settling`, `Onward`), and `StaleListsEnd` that stale entries
  and the requests that could store one run out (`Aging`).
- `EpicsAreComponents`: `Merge`, `Find` and `Clusters` are folds over the extractions
  and the pairs of programs, `ConnectionsIn` is one too, and induction over data is
  out of the provers' reach.
- The four properties that are expected to fail, and that the findings are about.

## What is not modelled

- `build_recommendation_group` and `build_structural_group`: no caller.
  `run_jcl_structural`, which only the latter names, is started by nothing.
- What a language model answers: any output is valid or not, and in `Analysis` one of
  a few extractions and scores. Prompts, skills, tracing, frontends, seeds and stubs
  keep no state the properties speak of.
- Mainframe systems and the Jira adapter: the adapters raise before they act.
- `classify_language`, `secret_scan` and `build_decision_factors`: nothing branches on
  their results. The result of the secret scan is returned by `run_ingestion` and the
  chain passes it to nobody.
- Fields nothing depends on: `needs_human_review`, which `review_bff` computes again
  from the score, and `scm_element_ref`, which the pull returns and no job gets.
- The threshold `min_confidence` of a list, which its cache key leaves out
  (`review_items.py:43`), so that two thresholds share an entry.
- The limits of queries: a review list shows at most 50 recommendations
  (`recommendations.py:26`), the gate and the epic writer read at most 500 documents.
  The limit of the list of eligible stories is modelled, in `Review`, and those of the
  audit log's two queries, in `AuditChain`.
- What a reviewer was shown: a decision names a recommendation and no revision of it,
  so `Review` lets it be about any document that is there when it is read.
- A second delivery of a stage's message within `JobPipeline`. `Intake` and `Review`
  have it where documents are written; what two runs of one stage do to the job
  record is left to the plan.
- In `JobPipeline`, a timed-out call takes effect at the exception or not at all. What
  an effect that comes later does to the job record is in `Checkpoint`, and to the story
  in `Backlog`; in `Review` and `Intake` it is a process that makes its put late and
  never goes on.
- The read-only routes (source and backlog of an item, job status, uploads).

## Plan

1. A second delivery of a stage's message in `JobPipeline`: two live runs of one stage
   with one `agent_task_id`.
2. Proofs: a union-find modelled one `_connect` at a time, so that
   `EpicsAreComponents` has an inductive invariant of its own; the lemmas on `IsCopy`
   that `BacklogProofs` and `ReviewProofs` share.
3. The JCL structural agent, once a pipeline starts it.
