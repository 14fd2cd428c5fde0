-------------------------- MODULE MCRequestDispatch --------------------------
(* The dispatcher over the session layer on small sets of requests. *)
EXTENDS RequestDispatch, TLC

PlacementSymmetry ==
    Permutations(Requests) \cup Permutations(Connections) \cup Permutations(Replicas)
=============================================================================
