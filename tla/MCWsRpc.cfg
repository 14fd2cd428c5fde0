SPECIFICATION RpcSpec
CONSTANTS
    w1 = w1
    o1 = o1
    o2 = o2
    p1 = p1
    p2 = p2
    c1 = c1
    r1 = r1
    Sockets = {w1}
    Requests = {o1, o2}
    PeerIds = {p1, p2}
    Connections = {c1}
    Replicas = {r1}
    NoReplica = NoReplica
    NoConnection = NoConnection
    NoSocket = NoSocket
    NoCall = NoCall
    MaxExecutions = 2
    OutboundCapacity = 2
    InboundCapacity = 2
    OutboundPerGeneration = 1
    InboundPerGeneration = 1
    TombstoneCapacity = 1
    MaxConcurrency = 2
SYMMETRY MCSymmetry
INVARIANTS
    CountersAreExact
    SettledOnce
    ResultIsOwn
CHECK_DEADLOCK FALSE
