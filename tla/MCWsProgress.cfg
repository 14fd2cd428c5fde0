SPECIFICATION FairWsSpec
CONSTANTS
    w1 = w1
    w2 = w2
    k1 = k1
    c1 = c1
    Sockets = {w1, w2}
    Keys = {k1}
    Connections = {c1}
    r1 = r1
    Replicas = {r1}
    NoReplica = NoReplica
    NoConnection = NoConnection
    NoKey = NoKey
    NoRank = NoRank
    NoAnswer = NoAnswer
    Rejected = Rejected
    Unavailable = Unavailable
    Accepts <- MCOne
    ConnectionLimit = 2
    HighWaterCapacity = 1
    MaxConcurrency = 1
INVARIANTS
    WsTypeOK
    CloseIsToldOnce
PROPERTIES
    FinalizerCompletes
    RuntimeLossFinishes
    ClosedClientLeaves
CHECK_DEADLOCK FALSE
