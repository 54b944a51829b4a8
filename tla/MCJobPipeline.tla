--------------------------- MODULE MCJobPipeline ---------------------------
(* One job of any kind, one kill request.                                  *)
EXTENDS JobPipeline
=============================================================================
