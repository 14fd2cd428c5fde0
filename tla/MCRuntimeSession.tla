-------------------------- MODULE MCRuntimeSession --------------------------
(* The session layer on small sets; connections and replicas are symmetric. *)
EXTENDS RuntimeSession, TLC

SessionSymmetry == Permutations(Connections) \cup Permutations(Replicas)
=============================================================================
