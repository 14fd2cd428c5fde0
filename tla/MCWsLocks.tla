------------------------------ MODULE MCWsLocks ------------------------------
(* Two threads of the Router in the operations the configuration names. *)
EXTENDS WsLocks
=============================================================================
