SPECIFICATION SpecV
CONSTANTS
    a = a
    b = b
    v1 = v1
    v2 = v2
    m1 = m1
    m2 = m2
    n1 = n1
    n2 = n2
    n3 = n3
    Id = {a}
    Vector = {v1}
    Metadata = {m1, m2}
    Name = {n1, n2}
    NoRecord = NoRecord
    NoState = NoState
    NoPending = NoPending
    OpKinds = {"create", "upsert", "delete", "updateMeta", "rename"}
    FlushThreshold = 1
    CompactionThreshold = 2
    MaxCollections = 2
    MaxRecords = 4
    MaxCrashes = 2
    FailureKinds = {"open", "delete"}
    MaxFailures = 1
SYMMETRY Symmetry
INVARIANTS Recoverable StoreLiveLenExact NamesBijective SegmentsIntact ManifestFollowsMemory LogsKept
PROPERTY ImplementsStoreAbs
CHECK_DEADLOCK FALSE
