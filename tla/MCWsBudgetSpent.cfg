SPECIFICATION BudgetSpec
CONSTANTS
    Threads = {t1}
    Sizes = {1, 2}
    Budget = 4
    QueueCapacity = 2
    Modulus = 64
    MaxWrites = 8
PROPERTY InFlightOnly
CHECK_DEADLOCK FALSE
