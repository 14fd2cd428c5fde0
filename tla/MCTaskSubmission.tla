------------------------- MODULE MCTaskSubmission -------------------------
(* TaskSubmission for TLC.                                                 *)
EXTENDS TaskSubmission
============================================================================
