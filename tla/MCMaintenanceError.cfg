SPECIFICATION Spec
CONSTANTS
    t1 = t1
    t2 = t2
    Thread = {t1}
    Threshold = 1
    HardFactor = 2
    MaxWrites = 4
    MaxCalls = 1
    MaxFailures = 1
PROPERTY EveryCallReturns
CHECK_DEADLOCK FALSE
