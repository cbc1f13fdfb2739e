SPECIFICATION CallsSpec
CONSTANTS
    v1 = v1
    v2 = v2
    s1 = s1
    s2 = s2
    t1 = t1
    t2 = t2
    Id = {1, 2, 3, 4, 5}
    Vector = {v1, v2}
    Metadata <- MCMetadata
    NoRecord = NoRecord
    NoLayer = NoLayer
    FlushThreshold = 2
    CompactionThreshold = 2
    SizeRatio = 1
    MaxSegments = 3
    Thread = {t1, t2}
    ExtBase = 3
    NoExt = NoExt
    ScanChunk = 1
    DeleteChunk = 1
    Filter <- MCFilter
    Setting <- MCSetting
    Scripts <- MCScripts
    FreeIds = {1}
    FreeRecords <- MCFreeRecords
    MaxReopens = 1
INVARIANTS TypeOK LiveLenExact ScanAgreesWithGet MaintReadStillCurrent LayersExclusive ExtIdsAgree WalksAreComplete
PROPERTIES CallsImplementMap UpdatesKeepVectors CallsEnd
CHECK_DEADLOCK FALSE
