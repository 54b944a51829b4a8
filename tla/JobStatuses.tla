---------------------------- MODULE JobStatuses ----------------------------
(***************************************************************************)
(* The statuses that orchestrator/checkpoint.py records in CouchDB for one *)
(* agent task and for a whole job_run, and the order in which one task's   *)
(* statuses may be recorded.                                               *)
(***************************************************************************)

\* The statuses the agents pass to write_checkpoint.
TaskStatus == {"running", "completed", "failed", "killed", "skipped"}

\* A task that has no entry in job_run.tasks yet.
Unrecorded == "unrecorded"

\* The statuses a job_run document holds.
JobStatus == {"running", "completed", "failed", "killed"}

\* A job_run whose document does not exist yet.
Absent == "absent"

\* What a task may record after it has recorded s.  A completed task turns
\* into a failed one when something after its checkpoint raises and the
\* Celery wrapper's "except Exception" records the failure.
MayFollow(s) ==
  CASE s = Unrecorded  -> TaskStatus
    [] s = "running"   -> {"completed", "failed", "killed"}
    [] s = "completed" -> {"failed"}
    [] OTHER           -> {}
=============================================================================
