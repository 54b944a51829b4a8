--------------------------- MODULE MCCheckpoint ---------------------------
(* Two tasks of one job_run, one of which records its start and one its     *)
(* outcome only, and one kill_set; two attempts per loop.                   *)
EXTENDS Checkpoint

CONSTANTS t1, t2

MCRecordable ==
  [t \in Tasks |-> IF t = t1 THEN {"running", "completed", "failed"}
                   ELSE {"completed", "failed"}]
=============================================================================
