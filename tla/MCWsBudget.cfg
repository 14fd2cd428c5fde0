SPECIFICATION BudgetSpec
CONSTANTS
    Threads = {t1, t2, t3}
    Sizes = {1, 2}
    Budget = 4
    QueueCapacity = 2
    Modulus = 64
    MaxWrites = 5
SYMMETRY MCSymmetry
INVARIANT BudgetTypeOK
INVARIANT BufferedIsExact
INVARIANT QueueIsBounded
CHECK_DEADLOCK FALSE
