------------------------------- MODULE Intake --------------------------------
(***************************************************************************)
(* How source gets in: requests to ingestion_bff (uploads, mainframe pulls *)
(* and listings), which source_mgmt_service and the gateway carry out and  *)
(* which start one job per file through job_pipeline_control_service; then *)
(* the first task of each job, run_ingestion, as often as the broker       *)
(* delivers its message.                                                   *)
(*                                                                         *)
(* Identifiers are random: a request that a client repeats is another      *)
(* request, and a file is known by its request and its place in it.  Any   *)
(* call may fail, or be carried out and its reply lost.                    *)
(***************************************************************************)
EXTENDS Chunking, FiniteSets

CONSTANTS
  Uploads,     \* POST /bff/uploads
  Pulls,       \* POST /bff/mainframe-pulls
  Listings,    \* GET /bff/mainframe-elements
  FileCount,   \* files of an upload or a pull
  Text,        \* the text of a file, which its job's first message carries
  Deliveries,  \* deliveries of one message
  Nobody

Requests == Uploads \cup Pulls \cup Listings

ASSUME RequestsAssumption ==
  Uploads \cap Pulls = {} /\ Uploads \cap Listings = {} /\ Pulls \cap Listings = {}
ASSUME FileCountAssumption ==
  /\ FileCount \in [Uploads \cup Pulls -> Nat \ {0}]
  /\ \A r \in Pulls : FileCount[r] = 1

FilesOf(r) == {<<r, i>> : i \in 1..FileCount[r]}
Files == UNION {FilesOf(r) : r \in Uploads \cup Pulls}
Tasks == Files \X Deliveries

ASSUME TextAssumption == \A f \in Files : IsText(Text[f])
ASSUME NobodyAssumption == Nobody \notin Tasks

FileOf(t) == t[1]
TextOf(t) == Text[FileOf(t)]

VARIABLES
  request,  \* where every request is, and which file's job is next
  batches,  \* requests with a source_upload document
  audited,  \* requests with an audit event of the connector
  jobs,     \* files whose chain of tasks was sent to the broker
  task,     \* where every execution of run_ingestion is
  sources,  \* source_file documents, by the task that wrote them
  chunks    \* the one document under the id of a file's chunks

vars == <<request, batches, audited, jobs, task, sources, chunks>>
store == <<sources, chunks>>

-----------------------------------------------------------------------------
(* Requests *)

Goto(r, place) == request' = [request EXCEPT ![r].at = place]

\* An error is all the client learns, whatever was done before.
RequestFails(r) ==
  /\ request[r].at \notin {"accepted", "error"}
  /\ Goto(r, "error")
  /\ UNCHANGED <<batches, audited, jobs, task, store>>

\* mainframe_fetch_source: the adapter has the source or the list ...
FetchSource(r) ==
  /\ r \in Pulls \cup Listings
  /\ request[r].at = "new"
  /\ Goto(r, "fetched")
  /\ UNCHANGED <<batches, audited, jobs, task, store>>

\* ... and the event is appended before anything is returned.
AuditFetch(r) ==
  /\ request[r].at = "fetched"
  /\ audited' = audited \cup {r}
  /\ \E place \in {IF r \in Pulls THEN "pulled" ELSE "accepted", "error"} : Goto(r, place)
  /\ UNCHANGED <<batches, jobs, task, store>>

\* source_mgmt_service writes the source_upload document.
WriteBatch(r) ==
  /\ \/ r \in Uploads /\ request[r].at = "new"
     \/ r \in Pulls /\ request[r].at = "pulled"
  /\ batches' = batches \cup {r}
  /\ \E place \in {"triggering", "error"} : Goto(r, place)
  /\ UNCHANGED <<audited, jobs, task, store>>

\* Mutant: only the first file of a batch gets a job.
FirstFileOnly(r) == {1}

\* The files the BFF starts a job for.
ToTrigger(r) == 1..FileCount[r]

\* _trigger_job, one file after the other, each when the one before answered.
TriggerJob(r) ==
  /\ request[r].at = "triggering"
  /\ request[r].next \in ToTrigger(r)
  /\ jobs' = jobs \cup {<<r, request[r].next>>}
  /\ \/ request' = [request EXCEPT ![r].next = @ + 1]
     \/ Goto(r, "error")
  /\ UNCHANGED <<batches, audited, task, store>>

Accept(r) ==
  /\ request[r].at = "triggering"
  /\ request[r].next \notin ToTrigger(r)
  /\ Goto(r, "accepted")
  /\ UNCHANGED <<batches, audited, jobs, task, store>>

Request(r) ==
  \/ RequestFails(r) \/ FetchSource(r) \/ AuditFetch(r)
  \/ WriteBatch(r) \/ TriggerJob(r) \/ Accept(r)

-----------------------------------------------------------------------------
(* run_ingestion_chunking.  A chunk is cut when it is its turn to be        *)
(* written: what build_chunks makes of a text depends on nothing else.  A   *)
(* kill check that fails, a call that raises and the end of a worker stop a *)
(* task where it is, and what it wrote stays: that is a task that never     *)
(* goes on, which nothing here obliges it to.                               *)

Becomes(t, state) == task' = [task EXCEPT ![t] = state]
Unstarted == [at |-> "waiting", cut |-> <<>>, rev |-> 0]
Failed == [Unstarted EXCEPT !.at = "failed"]

\* The document of chunk n of those cut, which is the n-th put under its id.
NoLines == [start_line |-> 0, end_line |-> 0]
Upto(cut, n) == [rev |-> n, chunk |-> IF n = 0 THEN NoLines ELSE cut[n]]
NoChunk == Upto(<<>>, 0)

\* A message is delivered, and the first kill check passes.
StartTask(t) ==
  /\ task[t] = Unstarted
  /\ FileOf(t) \in jobs
  /\ Becomes(t, [Unstarted EXCEPT !.at = "source"])
  /\ UNCHANGED <<request, batches, audited, jobs, store>>

\* Mutant: the put carries the revision of the document it replaces.
Replaces(t) == TRUE

\* The document has an _id of its own and no _rev: it can only be created.
MayPut(t) == sources[FileOf(t)] = Nobody

PutSourceFile(t) ==
  /\ task[t].at = "source"
  /\ IF MayPut(t)
     THEN /\ sources' = [sources EXCEPT ![FileOf(t)] = t]
          /\ Becomes(t, IF ChunkingRequired(TextOf(t))
                        THEN [task[t] EXCEPT !.at = "find", !.cut = CutNext(TextOf(t), <<>>)]
                        ELSE [task[t] EXCEPT !.at = "written"])
     ELSE Becomes(t, Failed) /\ UNCHANGED sources
  /\ UNCHANGED <<request, batches, audited, jobs, chunks>>

\* A chunk gets the id of (project, file, "chunk"): couchdb_write looks for
\* the document of that id ...
FindChunk(t) ==
  /\ task[t].at = "find"
  /\ Becomes(t, [task[t] EXCEPT !.at = "put", !.rev = chunks[FileOf(t)].rev])
  /\ UNCHANGED <<request, batches, audited, jobs, store>>

\* ... and puts this chunk in the place of the one before, until the text is
\* cut to its end.
PutChunk(t) ==
  LET f == FileOf(t)
      n == Len(task[t].cut)
  IN
  /\ task[t].at = "put"
  /\ IF chunks[f].rev = task[t].rev
     THEN /\ chunks' = [chunks EXCEPT ![f] = [rev |-> @.rev + 1, chunk |-> task[t].cut[n]]]
          /\ Becomes(t, IF AtEnd(TextOf(t), task[t].cut)
                        THEN [task[t] EXCEPT !.at = "written"]
                        ELSE [task[t] EXCEPT !.at = "find", !.cut = CutNext(TextOf(t), @)])
     ELSE Becomes(t, Failed) /\ UNCHANGED chunks
  /\ UNCHANGED <<request, batches, audited, jobs, sources>>

\* The second kill check passes, the checkpoint is written, and the chain
\* goes on to the structural analysis.
Complete(t) ==
  /\ task[t].at = "written"
  /\ Becomes(t, [task[t] EXCEPT !.at = "completed"])
  /\ UNCHANGED <<request, batches, audited, jobs, store>>

Ingestion(t) ==
  \/ StartTask(t) \/ PutSourceFile(t) \/ FindChunk(t) \/ PutChunk(t)
  \/ Complete(t)

-----------------------------------------------------------------------------

Init ==
  /\ request = [r \in Requests |-> [at |-> "new", next |-> 1]]
  /\ batches = {}
  /\ audited = {}
  /\ jobs = {}
  /\ task = [t \in Tasks |-> Unstarted]
  /\ sources = [f \in Files |-> Nobody]
  /\ chunks = [f \in Files |-> NoChunk]

Next ==
  \/ \E r \in Requests : Request(r)
  \/ \E t \in Tasks : Ingestion(t)

Spec == Init /\ [][Next]_vars

-----------------------------------------------------------------------------
(* Properties *)

\* Documents and local states are well formed.
TypeOK ==
  /\ request \in [Requests ->
       [at: {"new", "fetched", "pulled", "triggering", "accepted", "error"}, next: Nat]]
  /\ \A r \in Uploads \cup Pulls : request[r].next \in 1..(FileCount[r] + 1)
  /\ batches \subseteq Uploads \cup Pulls
  /\ audited \subseteq Pulls \cup Listings
  /\ jobs \subseteq Files
  /\ \A t \in Tasks :
       /\ task[t].at \in {"waiting", "source", "find", "put", "written", "completed", "failed"}
       /\ task[t].cut \in Seq([start_line: 1..TextOf(t).lines, end_line: 1..TextOf(t).lines])
  /\ sources \in [Files -> Tasks \cup {Nobody}]
  /\ chunks \in [Files -> [rev: Nat, chunk: [start_line: Nat, end_line: Nat]]]

\* An accepted request left nothing out: its batch is there, every file of it
\* has its job, and what came from the mainframe was audited.  And however a
\* request ended, the jobs that run belong to a batch that is there, and only
\* a file whose job was started was ever stored.
AcceptedIsComplete ==
  /\ \A r \in Requests : request[r].at = "accepted" =>
       /\ r \notin Listings => r \in batches /\ FilesOf(r) \subseteq jobs
       /\ r \notin Uploads => r \in audited
  /\ \A f \in jobs : f[1] \in batches /\ (f[1] \in Pulls => f[1] \in audited)
  /\ \A f \in Files : sources[f] # Nobody => f \in jobs

\* However often its message is delivered, at most one task of a file goes on
\* to the structural analysis.  It wrote the source_file that the review shows,
\* and the chunks it cut, if the text needs them, cover it to its end.  (That no
\* other goes on, even if this one has died, is how the code keeps them apart,
\* and not what its documents promise: a retried task should overwrite.)
OnePipelinePerFile ==
  /\ \A t, u \in Tasks :
       task[t].at = "completed" /\ task[u].at = "completed" /\ FileOf(t) = FileOf(u) => t = u
  /\ \A t \in Tasks : task[t].at = "completed" =>
       /\ sources[FileOf(t)] = t
       /\ IF ChunkingRequired(TextOf(t))
          THEN Covers(TextOf(t), task[t].cut) /\ Reached(task[t].cut) = TextOf(t).lines
          ELSE task[t].cut = <<>>

\* skills/ingestion-chunking: a task that goes on has left one document for each
\* chunk it cut.
ChunksAreKept ==
  \A t \in Tasks : task[t].at = "completed" =>
    \A i \in DOMAIN task[t].cut : chunks[FileOf(t)].chunk = task[t].cut[i]
=============================================================================
