----------------------------- MODULE MCWsRequests -----------------------------
(* One client that reuses two ids, one Runtime session and two requests of it: each *)
(* may fill the limit of the client while the broker has room.                      *)
EXTENDS WsRequests, TLC

MCSymmetry == Permutations(Requests) \cup Permutations(PeerIds)
=============================================================================
