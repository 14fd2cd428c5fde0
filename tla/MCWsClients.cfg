SPECIFICATION WsSpec
CONSTANTS
    w1 = w1
    w2 = w2
    k1 = k1
    k2 = k2
    c1 = c1
    Sockets = {w1, w2}
    Keys = {k1, k2}
    Connections = {c1}
    r1 = r1
    Replicas = {r1}
    NoReplica = NoReplica
    NoConnection = NoConnection
    NoKey = NoKey
    NoRank = NoRank
    NoAnswer = NoAnswer
    Rejected = Rejected
    Unavailable = Unavailable
    Accepts <- MCMixed
    ConnectionLimit = 2
    HighWaterCapacity = 1
    MaxConcurrency = 2
SYMMETRY WsSymmetry
INVARIANTS
    OrderIsIndexed
    BusinessLimit
    GenerationHasOwner
PROPERTY FirstTerminalStays
CHECK_DEADLOCK FALSE
