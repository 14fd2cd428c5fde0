SPECIFICATION FairLockSpec
CONSTANTS
    Threads = {t1, t2}
    NoThread = NoThread
    Operations = {"runtimeRequest", "runtimeSend", "peerText", "inboundResponse", "admit", "attach", "sessionClosed"}
    Slow = {"runtimeSend"}
INVARIANT NoDeadlock
PROPERTY OperationEnds
CHECK_DEADLOCK FALSE
