SPECIFICATION RequestSpec
CONSTANTS
    c1 = c1
    Connections = {c1}
    r1 = r1
    Replicas = {r1}
    q1 = q1
    Requests = {q1}
    Consumers = {"RequestDispatcher"}
    MaxConcurrency = 1
    MaxChunks = 3
    ChannelCapacity = 2
    Lane = "RequestDispatcher"
    NoReplica = NoReplica
    NoConnection = NoConnection
    NoRecord = NoRecord
    NoPending = NoPending
    NoSubmit = NoSubmit
INVARIANT StreamIsWhole
PROPERTIES
    ImplementsLife
    CallerEnds
    AttemptIsReported
CHECK_DEADLOCK FALSE
