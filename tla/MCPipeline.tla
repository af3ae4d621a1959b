----------------------------- MODULE MCPipeline -----------------------------
(* Two workers with rings of one task, so that three tasks fill a ring, its   *)
(* overflow, and make a drain that can be torn; the second worker may get no  *)
(* core or not be created.  For liveness one worker with rings of two tasks:  *)
(* it can be saturated and still have room, or be full.                       *)
EXTENDS Pipeline

Second == {2}
Only   == {1}
=============================================================================
