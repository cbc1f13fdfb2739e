SPECIFICATION Spec
CONSTANTS
    t1 = t1
    t2 = t2
    Thread = {t1, t2}
    Threshold = 1
    HardFactor = 2
    MaxWrites = 3
    MaxCalls = 2
    MaxFailures = 2
INVARIANT MemtableBounded
PROPERTIES FlushOkMeansFlushed CompactOkMeansFlushed PendingIsFlushed CallsReturn CloseEnds
CHECK_DEADLOCK FALSE
