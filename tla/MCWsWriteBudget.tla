-------------------------- MODULE MCWsWriteBudget ---------------------------
(* Instances of WsWriteBudget for TLC. *)
EXTENDS WsWriteBudget, TLC

MCSymmetry == Permutations(Threads)
=============================================================================
