---------------------------- MODULE JobPipeline ----------------------------
(***************************************************************************)
(* One job from POST /jobs... to its end: the Celery chain of its stages   *)
(* (orchestrator/pipeline.py), the bodies and the wrappers of the agents'  *)
(* tasks (agents/*/task.py), the kill-switch (kill_switch.py, kill_tools   *)
(* .py, admin.py) and the one Redis that holds both the queues and the     *)
(* kill flags.                                                             *)
(*                                                                         *)
(* A stage is the sequence of operations of its task.  Recording a status  *)
(* and finishing the job are the single steps of JobLedger, which          *)
(* Checkpoint shows checkpoint.py to implement; a failed one may have had  *)
(* its effect.  Messages are acknowledged when they are taken (Celery's    *)
(* default), so a crash loses the stage.                                   *)
(***************************************************************************)
EXTENDS JobStatuses, Integers, Sequences, FiniteSets

CONSTANTS
  Kinds,       \* the kinds of jobs: "analysis", "epics", "code"
  MaxFaults,   \* bound: exceptions, crashes and failed reads
  MaxOutages   \* bound: losses of Redis

ASSUME KindsAssumption == Kinds \subseteq {"analysis", "epics", "code"}
ASSUME BoundsAssumption == MaxFaults \in Nat /\ MaxOutages \in Nat

VARIABLES
  kind,          \* the kind of this job
  place,         \* where every stage is
  todo,          \* what the stage under way still has to do
  ledger, outcome, killRequested,   \* the job_run document (JobLedger)
  flags,         \* the kill flags in Redis that concern this job
  redisUp,       \* Redis is reachable
  admin,         \* where the kill request is
  scope,         \* its scope
  faults, outages,
  abandoned,     \* history: nobody is left who would finish the job
  late,          \* history: what was done since Redis holds a kill flag
  ignored        \* history: a check passed after a kill was acknowledged

document == <<ledger, outcome, killRequested>>
stages == <<place, todo>>
redis == <<flags, redisUp>>
request == <<admin, scope>>
history == <<abandoned, late, ignored>>
vars == <<kind, stages, document, redis, request, faults, outages, history>>

-----------------------------------------------------------------------------
(* The stages of a job and what they do *)

Agents == {"ingestion_chunking", "cobol_structural", "recommendation",
           "epic_story_writer", "codegen"}
Scopes == {"all", "project", "job_run"}

\* build_pipeline's chain; the other two kinds are single tasks.
Chain ==
  CASE kind = "analysis" -> <<"ingestion_chunking", "cobol_structural", "recommendation">>
    [] kind = "epics"    -> <<"epic_story_writer">>
    [] kind = "code"     -> <<"codegen">>

\* Operations: "check" is kill_switch.check, "read" and "write" are gateway
\* calls, "output" is the write of an agent's result (or the commit of the
\* generated code) and "audit" its audit event, "running" and "completed" are
\* checkpoints, "finish" is mark_job_run_finished.
Op == {"check", "read", "write", "llm", "output", "audit",
       "running", "completed", "finish"}

\* One result: a summary, an epic or a story.
Unit == <<"check", "llm", "output", "audit">>
Done == <<"check", "completed", "finish">>

\* The task bodies, loops unrolled once: one chunk, one program, one cluster,
\* one story.
IngestionScript == <<"check", "write", "write", "check", "completed">>

StructuralScript ==
  <<"check", "llm", "llm", "output", "audit", "check", "completed">>

RecommendationScript == <<"read">> \o Unit \o Done

\* A program's summary that exists is not made again.
SummaryScripts == {Unit, <<"check">>}

EpicStoryScript(summary) == <<"check", "running">> \o summary \o Unit \o Unit \o Done

\* Mutant: the commit is not checked.
UncheckedCodegenScript ==
  <<"check", "running", "write", "check", "llm", "output", "audit", "write">> \o Done

CodegenScript ==
  <<"check", "running", "write", "check", "llm", "check", "output", "audit", "write">>
    \o Done

Scripts(g) ==
  CASE g = "ingestion_chunking" -> {IngestionScript}
    [] g = "cobol_structural"   -> {StructuralScript}
    [] g = "recommendation"     -> {RecommendationScript}
    [] g = "epic_story_writer"  -> {EpicStoryScript(summary) : summary \in SummaryScripts}
    [] g = "codegen"            -> {CodegenScript}

\* Wrappers with an "except Exception" that records the failure.
Handles(g) == g \in {"epic_story_writer", "codegen"}

Place == {"waiting", "queued", "live", "killing", "killFinishing", "failing",
          "failFinishing", "returned", "raised", "lost"}
Handling == {"killing", "killFinishing", "failing", "failFinishing"}

Ledger == INSTANCE JobLedger WITH Tasks <- Agents

Move(g, to) == place' = [place EXCEPT ![g] = to]
Fault == faults < MaxFaults /\ faults' = faults + 1
Abandon == abandoned' = TRUE /\ UNCHANGED <<late, ignored>>

\* Done while Redis holds a kill flag.
Late(op) ==
  /\ late' = IF redisUp /\ flags # {} THEN Append(late, op) ELSE late
  /\ UNCHANGED <<abandoned, ignored>>

Init ==
  /\ kind \in Kinds
  /\ place = [g \in Agents |-> "waiting"]
  /\ todo = <<>>
  /\ Ledger!Init
  /\ flags = {}
  /\ redisUp = TRUE
  /\ admin = "idle"
  /\ scope = "all"
  /\ faults = 0
  /\ outages = 0
  /\ abandoned = FALSE
  /\ late = <<>>
  /\ ignored = FALSE

-----------------------------------------------------------------------------
(* The task bodies *)

\* POST /jobs, /jobs/generate-epics-stories, /jobs/generate-code
Trigger ==
  /\ redisUp
  /\ place[Chain[1]] = "waiting"
  /\ Move(Chain[1], "queued")
  /\ UNCHANGED <<kind, todo, document, redis, request, faults, outages, history>>

Start(g) ==
  /\ redisUp
  /\ place[g] = "queued"
  /\ Move(g, "live")
  /\ todo' \in Scripts(g)
  /\ UNCHANGED <<kind, document, redis, request, faults, outages, history>>

Doing(g, ops) == place[g] = "live" /\ todo # <<>> /\ Head(todo) \in ops

\* Mutant: only the job's own flag is looked at.
JobFlagSeen ==
  IF redisUp THEN "job_run" \in flags ELSE outcome = Absent \/ killRequested

\* kill_check: any flag in Redis; without Redis the job_run document, and
\* killed when there is none.
KillSeen ==
  IF redisUp THEN flags # {} ELSE outcome = Absent \/ killRequested

PassCheck(g) ==
  /\ Doing(g, {"check"})
  /\ ~KillSeen
  /\ todo' = Tail(todo)
  /\ ignored' = (ignored \/ admin = "done")
  /\ UNCHANGED <<kind, place, document, redis, request, faults, outages, abandoned, late>>

\* AgentKilled; a failed read of the document counts as killed.
FailCheck(g) ==
  /\ Doing(g, {"check"})
  /\ \/ KillSeen /\ UNCHANGED faults
     \/ ~KillSeen /\ ~redisUp /\ Fault
  /\ Move(g, "killing")
  /\ todo' = <<>>
  /\ UNCHANGED <<kind, document, redis, request, outages, history>>

\* What operation op of stage g does to the job_run document.
Effect(g, op) ==
  CASE op \in {"running", "completed"} -> Ledger!Record(g, op)
    [] op = "finish"                   -> Ledger!Finish("completed")
    [] OTHER                           -> UNCHANGED document

Perform(g) ==
  /\ Doing(g, Op \ {"check"})
  /\ Effect(g, Head(todo))
  /\ todo' = Tail(todo)
  /\ Late(Head(todo))
  /\ UNCHANGED <<kind, place, redis, request, faults, outages>>

\* mark_job_run_finished: if job_run is None: return
SkipFinish(g) ==
  /\ Doing(g, {"finish"})
  /\ Fault
  /\ todo' = Tail(todo)
  /\ Abandon
  /\ UNCHANGED <<kind, place, document, redis, request, outages>>

\* The task returns and Celery publishes the next stage of the chain.
Return(g) ==
  /\ place[g] = "live"
  /\ todo = <<>>
  /\ redisUp
  /\ \E i \in DOMAIN Chain :
       /\ Chain[i] = g
       /\ place' = [place EXCEPT ![g] = "returned",
                      ![Chain[IF i < Len(Chain) THEN i + 1 ELSE i]] =
                         IF i < Len(Chain) THEN "queued" ELSE "returned"]
  /\ UNCHANGED <<kind, todo, document, redis, request, faults, outages, history>>

-----------------------------------------------------------------------------
(* Exceptions and crashes *)

\* An operation raises, before or after it had its effect.
Raise(g) ==
  /\ Doing(g, Op)
  /\ Fault
  /\ Effect(g, Head(todo)) \/ UNCHANGED document
  /\ todo' = <<>>
  /\ Move(g, IF Handles(g) THEN "failing" ELSE "raised")
  /\ abandoned' = (abandoned \/ ~Handles(g))
  /\ UNCHANGED <<kind, redis, request, outages, late, ignored>>

\* Mutant: a status the job_run schema does not know.
Cancelled(s) == IF s = "killed" THEN "cancelled" ELSE s

\* The status the wrappers' handlers give the whole job.
OutcomeOf(s) == s

\* Mutant: the killed task is recorded, the job is left running.
RecordOnly(g, from, to, s) ==
  /\ place[g] = from
  /\ Ledger!Record(g, s)
  /\ Move(g, "raised")
  /\ UNCHANGED <<kind, todo, redis, request, faults, outages, history>>

\* Mutant: the job gets its status, the task's is not recorded.
RecordNothing(g, from, to, s) ==
  /\ place[g] = from
  /\ Move(g, to)
  /\ UNCHANGED <<kind, todo, document, redis, request, faults, outages, history>>

\* The handlers: record the status, finish the job, raise again.
RecordHandled(g, from, to, s) ==
  /\ place[g] = from
  /\ Ledger!Record(g, s)
  /\ Move(g, to)
  /\ UNCHANGED <<kind, todo, redis, request, faults, outages, history>>

\* Mutant: the handler does not raise again, so the chain goes on.
SwallowHandled(g, from, s) ==
  /\ place[g] = from
  /\ Ledger!Finish(OutcomeOf(s))
  /\ Move(g, "live")
  /\ UNCHANGED <<kind, todo, redis, request, faults, outages, history>>

FinishHandled(g, from, s) ==
  /\ place[g] = from
  /\ Ledger!Finish(OutcomeOf(s))
  /\ Move(g, "raised")
  /\ UNCHANGED <<kind, todo, redis, request, faults, outages, history>>

Handle(g) ==
  \/ RecordHandled(g, "killing", "killFinishing", "killed")
  \/ FinishHandled(g, "killFinishing", "killed")
  \/ RecordHandled(g, "failing", "failFinishing", "failed")
  \/ FinishHandled(g, "failFinishing", "failed")

HandlerEffect(g) ==
  CASE place[g] = "killing"       -> Ledger!Record(g, "killed")
    [] place[g] = "killFinishing" -> Ledger!Finish("killed")
    [] place[g] = "failing"       -> Ledger!Record(g, "failed")
    [] OTHER                      -> Ledger!Finish("failed")

\* A handler's own call raises, before or after it had its effect, or finds
\* no document to finish.
RaiseInHandler(g) ==
  /\ place[g] \in Handling
  /\ Fault
  /\ HandlerEffect(g) \/ UNCHANGED document
  /\ Move(g, "raised")
  /\ Abandon
  /\ UNCHANGED <<kind, todo, redis, request, outages>>

Crash(g) ==
  /\ place[g] \in Handling \cup {"live"}
  /\ Fault
  /\ Move(g, "lost")
  /\ todo' = <<>>
  /\ Abandon
  /\ UNCHANGED <<kind, document, redis, request, outages>>

-----------------------------------------------------------------------------
(* POST /admin/kill *)

\* kill_set sets the Redis key first ...
KillFlag(s) ==
  /\ admin = "idle"
  /\ redisUp
  /\ admin' = "flagged"
  /\ scope' = s
  /\ flags' = flags \cup {s}
  /\ UNCHANGED <<kind, stages, document, redisUp, faults, outages, history>>

\* ... then, for a job, kill_requested in its document, if there is one; the
\* put meets a conflict when a stage writes the document meanwhile ...
KillMark ==
  /\ admin = "flagged"
  /\ \/ /\ scope # "job_run" \/ outcome = Absent
        /\ admin' = "marked"
        /\ UNCHANGED document
     \/ /\ scope = "job_run"
        /\ Ledger!RequestKill
        /\ admin' = "marked"
     \/ /\ scope = "job_run"
        /\ outcome # Absent
        /\ \E g \in Agents :
             place[g] \in Handling \/ Doing(g, {"running", "completed", "finish"})
        /\ admin' = "raised"
        /\ UNCHANGED document
  /\ UNCHANGED <<kind, stages, redis, scope, faults, outages, history>>

\* ... then appends the audit event; admin.py purges the queues last.
KillAudit ==
  /\ admin = "marked"
  /\ admin' = IF scope = "all" THEN "purging" ELSE "done"
  /\ UNCHANGED <<kind, stages, document, redis, scope, faults, outages, history>>

Purge ==
  /\ admin = "purging"
  /\ redisUp
  /\ admin' = "done"
  /\ place' = [g \in Agents |-> IF place[g] = "queued" THEN "lost" ELSE place[g]]
  /\ abandoned' = (abandoned \/ place' # place)
  /\ UNCHANGED <<kind, todo, document, redis, scope, faults, outages, late, ignored>>

KillRaises ==
  /\ admin \in {"flagged", "marked", "purging"}
  /\ Fault
  /\ admin' = "raised"
  /\ UNCHANGED <<kind, stages, document, redis, scope, outages, history>>

-----------------------------------------------------------------------------
(* Redis *)

\* Redis goes away; what it had not written to its volume is gone.
RedisLost ==
  /\ redisUp
  /\ outages < MaxOutages
  /\ outages' = outages + 1
  /\ redisUp' = FALSE
  /\ flags' \in SUBSET flags
  /\ \/ place' = place
     \/ \E g \in Agents : place[g] = "queued" /\ Move(g, "lost")
  /\ abandoned' = (abandoned \/ place' # place)
  /\ late' = <<>>
  /\ UNCHANGED <<kind, todo, document, request, faults, ignored>>

RedisBack ==
  /\ ~redisUp
  /\ redisUp' = TRUE
  /\ UNCHANGED <<kind, stages, document, flags, request, faults, outages, history>>

-----------------------------------------------------------------------------

\* What a worker does by itself.
StageStep(g) ==
  \/ Start(g) \/ PassCheck(g) \/ FailCheck(g) \/ Perform(g) \/ Return(g) \/ Handle(g)

StageFault(g) == SkipFinish(g) \/ Raise(g) \/ RaiseInHandler(g) \/ Crash(g)

Kill == (\E s \in Scopes : KillFlag(s)) \/ KillMark \/ KillAudit \/ Purge \/ KillRaises

Next ==
  \/ Trigger
  \/ \E g \in Agents : StageStep(g) \/ StageFault(g)
  \/ Kill
  \/ RedisLost
  \/ RedisBack

Spec == Init /\ [][Next]_vars

\* Workers take what is queued and go on with what they took: every call they
\* wait for returns or times out.  Nobody has to trigger or kill a job, and
\* nothing brings Redis back by itself.
FairSpec == Spec /\ \A g \in Agents : WF_vars(StageStep(g))

-----------------------------------------------------------------------------
(* Properties *)

\* Stages, document, request and histories are well formed.
TypeOK ==
  /\ kind \in Kinds
  /\ place \in [Agents -> Place]
  /\ todo \in Seq(Op)
  /\ ledger \in [Agents -> TaskStatus \cup {Unrecorded}]
  /\ outcome \in JobStatus \cup {Absent}
  /\ killRequested \in BOOLEAN
  /\ flags \subseteq Scopes
  /\ redisUp \in BOOLEAN
  /\ admin \in {"idle", "flagged", "marked", "purging", "done", "raised"}
  /\ scope \in Scopes
  /\ faults \in 0 .. MaxFaults
  /\ outages \in 0 .. MaxOutages
  /\ late \in Seq(Op \ {"check"})
  /\ <<abandoned, ignored>> \in BOOLEAN \X BOOLEAN

\* A stage is sent to the queue only when every stage before it has returned
\* with its completed checkpoint in the document.
StagesInOrder ==
  \A i, j \in DOMAIN Chain :
    i < j /\ place[Chain[j]] # "waiting" =>
      place[Chain[i]] = "returned" /\ ledger[Chain[i]] = "completed"

\* Stage i ended the job with status s: the ones before it are completed, and
\* none after it is recorded, queued or live, now or later.
EndedBy(i, s) ==
  /\ ledger[Chain[i]] = s
  /\ \A j \in 1 .. i - 1 : ledger[Chain[j]] = "completed"
  /\ \A j \in i + 1 .. Len(Chain) :
       ledger[Chain[j]] = Unrecorded /\ place[Chain[j]] = "waiting"

\* A finished job's status is explained by its tasks' statuses, whatever
\* exceptions, crashes and kills met: a failed or killed job has the one
\* stage that failed or was killed, a completed one has completed them all
\* (the last one may be recorded as failed by a handler that then raised).
OutcomeExplained ==
  /\ outcome \in {"killed", "failed"} => \E i \in DOMAIN Chain : EndedBy(i, outcome)
  /\ outcome = "completed" =>
       EndedBy(Len(Chain), "completed") \/ EndedBy(Len(Chain), "failed")

\* As long as Redis is not lost, no check passes once a kill of any scope has
\* been acknowledged.
KillObeyed == outages = 0 => ~ignored

LateAt(op) == {i \in DOMAIN late : late[i] = op}

\* While Redis holds a kill flag a job writes at most one more result, and no
\* code is committed that was generated under the flag: kills are noticed
\* between one result and the next, across stages and their hand-over.
KillConfines ==
  /\ Cardinality(LateAt("output")) <= 1
  /\ kind = "code" => \A i \in LateAt("llm"), j \in LateAt("output") : j < i

Ended == outcome \in {"completed", "failed", "killed"}

\* A job that was sent to the queue comes to an end unless Redis stays away,
\* its message or its worker was lost, an exception was not handled, or the
\* final write was skipped: there is no other way to stay at "running".
JobEnds ==
  []<>redisUp => (place[Chain[1]] # "waiting" ~> Ended \/ abandoned)

-----------------------------------------------------------------------------
(* What the documentation says, and the code does not do *)

\* kill_tool.md: a kill does not rest on Redis alone.
KillIsDurable == ~ignored
=============================================================================
