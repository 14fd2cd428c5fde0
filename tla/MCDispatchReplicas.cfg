CONSTANTS
    Task = {t1}
    Owner = {r1, r2}
    Stamp = {0, 1, 2}
    Retention = 9
    MaxTime = 1
    MaxLease = 2
    LeaseDuration = 1
    Delay = {0, 1}
    BatchLimit = 1
    Reported = {"succeeded", "targetFailed"}
    SubmitDelay = {0}
    QueueCap = 1
    MaxSetback = 1
SPECIFICATION Spec
INVARIANTS DispatchTypeOK OutcomeOfLastAttempt LiveAttemptIsRenewed
PROPERTY LeaseIsItsHolders
SYMMETRY Perms
