-------------------------- MODULE MCTaskDispatch --------------------------
(* TaskDispatch for TLC: replicas are interchangeable, and so are tasks.   *)
EXTENDS TaskDispatch, TLC

Perms == Permutations(Task) \cup Permutations(Owner)
============================================================================
