SPECIFICATION FairInvocationSpec
CONSTANTS
    Connections = {c1, c2}
    Replicas = {r1, r2}
    NoReplica = NoReplica
    NoConnection = NoConnection
    Actors = {a1}
    Invocations = {i1}
    MaxPending = 1
    TaskCaller = TaskCaller
    NoCall = NoCall
INVARIANTS
    EndsOnce
    ClosedCallerIsForgotten
PROPERTY PendingEnds
CHECK_DEADLOCK FALSE
