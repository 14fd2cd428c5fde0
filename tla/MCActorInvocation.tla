--------------------------- MODULE MCActorInvocation ---------------------------
(* Model values for ActorInvocation.  The owner is picked with CHOOSE over the *)
(* connections, so neither they nor the replicas are a symmetry set.           *)
EXTENDS ActorInvocation
=============================================================================
