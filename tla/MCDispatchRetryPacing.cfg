CONSTANTS
    Task = {t1}
    Owner = {r1, r2}
    Stamp = {0, 1, 2, 3, 4}
    Retention = 9
    MaxTime = 2
    MaxLease = 2
    LeaseDuration = 1
    Delay = {1}
    BatchLimit = 1
    Reported = {"succeeded", "targetFailed"}
    SubmitDelay = {0}
    QueueCap = 1
    MaxSetback = 0
SPECIFICATION Spec
PROPERTY RetryPaced
SYMMETRY Perms
