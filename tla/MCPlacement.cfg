SPECIFICATION RequestSpec
CONSTANTS
    c1 = c1
    c2 = c2
    Connections = {c1, c2}
    r1 = r1
    r2 = r2
    Replicas = {r1, r2}
    q1 = q1
    Requests = {q1}
    Consumers = {"RequestDispatcher"}
    MaxConcurrency = 1
    MaxChunks = 0
    ChannelCapacity = 1
    Lane = "RequestDispatcher"
    NoReplica = NoReplica
    NoConnection = NoConnection
    NoRecord = NoRecord
    NoPending = NoPending
    NoSubmit = NoSubmit
SYMMETRY PlacementSymmetry
INVARIANTS
    LiveSessionIsCurrent
    PermitsArePaired
    NoPendingOnClosedSession
    PendingHasRecord
CHECK_DEADLOCK FALSE
