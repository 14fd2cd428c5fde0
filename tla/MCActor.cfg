SPECIFICATION FairActorSpec
CONSTANTS
    Connections = {c1}
    Replicas = {r1}
    NoReplica = NoReplica
    NoConnection = NoConnection
    Actors = {a1}
    Rpcs = {q1, q2}
    Versions = {v1, v2}
    Lineages = {l1}
    MaxClaims = 1
    ClaimBudget = 2
    MaxRetries = 1
    Ttl = 1
    TaskLane = TaskLane
    NoVersion = NoVersion
    NoFence = NoFence
    NoClaim = NoClaim
    NoRpc = NoRpc
    NoEviction = NoEviction
    NoMark = NoMark
INVARIANTS
    ClaimIsReservation
    FreeKeyIsReservable
PROPERTIES
    ClaimSettles
    JoinedCallEnds
CHECK_DEADLOCK FALSE
