CONSTANTS
    Task = {t1}
    Owner = {s1}
    Stamp = {0, 1, 2}
    Retention = 1
    MaxTime = 2
    MaxLease = 2
    SubmitDelay = {0}
    MaxAttempts = 2
SPECIFICATION Spec
INVARIANTS AlreadyTerminalIsTerminal RejectedCreatesNothing AcceptedIsOwn
