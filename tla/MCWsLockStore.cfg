SPECIFICATION LockSpec
CONSTANTS
    Threads = {t1, t2}
    NoThread = NoThread
    Operations = {"peerText", "sessionClosedCall"}
    Slow = {}
INVARIANT LostCallsAreFailed
CHECK_DEADLOCK FALSE
