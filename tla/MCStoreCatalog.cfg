SPECIFICATION SpecV
CONSTANTS
    a = a
    b = b
    v1 = v1
    v2 = v2
    m1 = m1
    m2 = m2
    n1 = n1
    n2 = n2
    n3 = n3
    Id = {a}
    Vector = {v1}
    Metadata = {m1}
    Name = {n1, n2, n3}
    NoRecord = NoRecord
    NoState = NoState
    NoPending = NoPending
    OpKinds = {"create", "upsert", "drop", "swap"}
    FlushThreshold = 1
    CompactionThreshold = 2
    MaxCollections = 2
    MaxRecords = 6
    MaxCrashes = 1
    FailureKinds = {}
    MaxFailures = 0
SYMMETRY Symmetry
INVARIANT RecoverableUnlessRaced
PROPERTY DataRecovered
CHECK_DEADLOCK FALSE
