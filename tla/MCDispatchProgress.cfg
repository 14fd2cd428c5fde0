CONSTANTS
    Task = {t1}
    Owner = {r1}
    Stamp = {0, 1, 2}
    Retention = 9
    MaxTime = 1
    MaxLease = 2
    LeaseDuration = 1
    Delay = {1}
    BatchLimit = 1
    Reported = {"succeeded"}
    SubmitDelay = {0}
    QueueCap = 1
    MaxSetback = 1
SPECIFICATION FairSpec
PROPERTIES ExpiredLeaseIsRecovered DueTaskIsClaimed
