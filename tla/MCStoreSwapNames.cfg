SPECIFICATION SpecV
CONSTANTS
    a = a
    b = b
    v1 = v1
    v2 = v2
    m1 = m1
    m2 = m2
    n1 = n1
    n2 = n2
    n3 = n3
    Id = {a}
    Vector = {v1}
    Metadata = {m1}
    Name = {n1, n2}
    NoRecord = NoRecord
    NoState = NoState
    NoPending = NoPending
    OpKinds = {"create", "upsert", "swap"}
    FlushThreshold = 1
    CompactionThreshold = 2
    MaxCollections = 2
    MaxRecords = 4
    MaxCrashes = 1
    FailureKinds = {}
    MaxFailures = 0
SYMMETRY Symmetry
PROPERTY NamesRecovered
CHECK_DEADLOCK FALSE
