SPECIFICATION SessionSpec
CONSTANTS
    c1 = c1
    c2 = c2
    Connections = {c1, c2}
    r1 = r1
    Replicas = {r1}
    Consumers = {"HealthLedger"}
    MaxConcurrency = 1
    Lane = "HealthLedger"
    NoReplica = NoReplica
    NoConnection = NoConnection
    NoRecord = NoRecord
PROPERTIES
    ImplementsLife
    CloseRequestCompletes
    HandshakeEnds
    ClosedSessionIsForgotten
CHECK_DEADLOCK FALSE
