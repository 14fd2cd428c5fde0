---------------------------- MODULE MCTaskBatch -----------------------------
(* Instances of TaskBatch for TLC: delays of 1, 2 and 3, a jitter of at most 1. *)
EXTENDS TaskBatch

MCPolicy == [base |-> 1, max |-> 3, jitter_span |-> 2]
=============================================================================
