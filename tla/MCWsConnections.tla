--------------------------- MODULE MCWsConnections ---------------------------
EXTENDS WsConnections, TLC

Oldest(k, r) == [key |-> k, rank |-> r, max |-> 1, overflow |-> "closeOldest"]

MCRanked == {Oldest(k, r) : k \in Keys, r \in 1 .. 3}
MCMixed == {[key |-> k, rank |-> NoRank, max |-> 1, overflow |-> "rejectNew"] : k \in Keys}
           \cup {Oldest(k, r) : k \in Keys, r \in {1, 2, NoRank}}
           \cup {[key |-> NoKey, rank |-> NoRank, max |-> 1, overflow |-> "rejectNew"]}
MCOne == {Oldest(k, NoRank) : k \in Keys}

WsSymmetry == Permutations(Sockets) \cup Permutations(Keys)
=============================================================================
