SPECIFICATION Spec
CONSTANTS
    MaxRec = 3
    MaxWal = 3
    MaxLogged = 5
    MaxPrimGen = 2
    MaxReboots = 1
    MaxTroubles = 1
INVARIANT PrefixConsistent
CHECK_DEADLOCK FALSE
