---------------------------- MODULE MCSubagents ----------------------------
(* The children of a run on small instances: Subagents*.cfg.  A worker and *)
(* two readers; the readers are not declared symmetric, because the runs   *)
(* check liveness.                                                         *)
EXTENDS Subagents
=============================================================================
