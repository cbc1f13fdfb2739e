CONSTANTS
  None = None
  Corrupt = Corrupt
  Failed = Failed
  Panicked = Panicked
  Vec <- MCVec
  Metric = "L2"
  M = 2
  M0 = 3
  EfConstruction = 3
  ExtendCandidates = TRUE
  EfUpperLayers = 2
  Threads = {t1, t2}
  LevelChoices <- MCLevelChoices
  Draws <- MCDraws
  MaxIter = 3
  TrainSample = 4
  KSub = 2
  Sq8Levels = 3
  MinRows = 2
  MinLists = 2
  MinPerList = 2
  MinDsub = 1
  MaxM = 3
  Rotations <- MCRotations
  RowId <- MCRowId
  FilterSampleSize = 2
  PreFilterPercent = 30
  MaxOversample = 2
  RerankFactor = 2
  RerankFactor4Bit = 3
  Singles = {s}
  Batches = {b}
  Workers = {w1, w2}
  Specs <- MCSpecs
  Scenarios <- MCScenarios
  GraphScenarios <- MCGraphScenarios
SPECIFICATION Spec
INVARIANTS GraphStaysWellFormed FilesDescribeRows AnswersAreRight ShortAnswersAreComplete
PROPERTIES EverySearchReturns
CHECK_DEADLOCK FALSE
