----------------------------- MODULE JobLedger -----------------------------
(***************************************************************************)
(* What the job_run document promises to its readers (the status pollers,  *)
(* the review UI, the kill-switch's fallback): a ledger in which recording *)
(* a task's status, finishing the job and requesting a kill are single     *)
(* steps that disturb nothing else.  Checkpoint implements it with         *)
(* optimistic read-modify-write cycles over two CouchDB documents.         *)
(***************************************************************************)
EXTENDS JobStatuses

CONSTANT Tasks

VARIABLES
  ledger,         \* the recorded status of every task
  outcome,        \* the job's status, or Absent
  killRequested   \* job_run.kill_requested

vars == <<ledger, outcome, killRequested>>

Init ==
  /\ ledger = [t \in Tasks |-> Unrecorded]
  /\ outcome = Absent
  /\ killRequested = FALSE

\* Task t's status becomes s.  The first record of a job creates it, running;
\* no record of a task ever moves a finished job back to running.
Record(t, s) ==
  /\ s \in MayFollow(ledger[t])
  /\ ledger' = [ledger EXCEPT ![t] = s]
  /\ outcome' = IF outcome = Absent THEN "running" ELSE outcome
  /\ UNCHANGED killRequested

\* The job is over with status s.
Finish(s) ==
  /\ outcome # Absent
  /\ outcome' = s
  /\ UNCHANGED <<ledger, killRequested>>

\* A kill request, once recorded, is never withdrawn.
RequestKill ==
  /\ outcome # Absent
  /\ killRequested' = TRUE
  /\ UNCHANGED <<ledger, outcome>>

Next ==
  \/ \E t \in Tasks, s \in TaskStatus : Record(t, s)
  \/ \E s \in JobStatus \ {"running"} : Finish(s)
  \/ RequestKill

Spec == Init /\ [][Next]_vars
=============================================================================
