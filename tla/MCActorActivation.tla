--------------------------- MODULE MCActorActivation ---------------------------
(* Model values for ActorActivation.  The owner of an actor is picked with     *)
(* CHOOSE over the candidates, so no set of them is a symmetry set.            *)
EXTENDS ActorActivation
=============================================================================
