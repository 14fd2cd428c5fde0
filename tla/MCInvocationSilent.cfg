SPECIFICATION FairInvocationSpec
CONSTANTS
    Connections = {c1}
    Replicas = {r1}
    NoReplica = NoReplica
    NoConnection = NoConnection
    Actors = {a1}
    Invocations = {i1}
    MaxPending = 1
    TaskCaller = TaskCaller
    NoCall = NoCall

PROPERTIES CallerLearnsOutcome
CHECK_DEADLOCK FALSE
