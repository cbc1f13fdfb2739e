SPECIFICATION Spec
CONSTANTS
    Thread = {t1, t2}
    Policies = {"always", "everyN", "batch"}
    N = 2
    MaxFiles = 3
    MaxWrites = 2
    MaxSyncFails = 1
    MaxGen = 1
    MaxStoreFails = 1
    MaxCrashes = 2
    MaxFailures = 1
    MaxFaults = 2
    MaxAppended = 4
INVARIANTS AckedSurvives LossBounded ManifestReadable
PROPERTIES CoverageMovesAtRename WaitsReturn
CHECK_DEADLOCK FALSE
