CONSTANTS
    Task = {t1}
    Owner = {s1, s2}
    Stamp = {0, 1, 2}
    Retention = 1
    MaxTime = 2
    MaxLease = 2
    SubmitDelay = {0}
    MaxAttempts = 2
SPECIFICATION Spec
INVARIANTS TypeOK RecordsConsistent AcceptedIsDurable CancelAnswerIsTrue
PROPERTIES TerminalIsFinal NoEarlyClaim ExpiredLeaseIsDead RetryNotBeforeMonotone RefinesLifecycle SubmissionIsAnswered
