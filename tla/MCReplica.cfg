SPECIFICATION Spec
CONSTANTS
    MaxRec = 3
    MaxWal = 3
    MaxLogged = 5
    MaxPrimGen = 2
    MaxReboots = 1
    MaxTroubles = 1
INVARIANTS MissesOnlyEnds  MissingIndexIsSuperseded
PROPERTIES NeverGoesBack 
CHECK_DEADLOCK FALSE
