SPECIFICATION SessionSpec
CONSTANTS
    c1 = c1
    c2 = c2
    Connections = {c1, c2}
    r1 = r1
    r2 = r2
    Replicas = {r1, r2}
    Consumers = {"HealthLedger", "RequestDispatcher"}
    MaxConcurrency = 2
    Lane = "HealthLedger"
    NoReplica = NoReplica
    NoConnection = NoConnection
    NoRecord = NoRecord
SYMMETRY SessionSymmetry
INVARIANTS
    SessionTypeOK
    LiveSessionIsCurrent
    CurrentIsRecorded
    ObservationHasRecord
    NoWriterAfterTerminal
    PreAuthIsExact
CHECK_DEADLOCK FALSE
