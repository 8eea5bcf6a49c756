SPECIFICATION SearchOnly
CONSTANTS
  w1 = w1
  w2 = w2
  s1 = s1
  Processes = {w1, w2, s1}
  Maintainers = {w1, w2}
  Dims = {1, 2}
  SeedDim = 1
  StartDims <- ConfiguredDims
  SeedRows = {r1}
  SeedProcesses = {s1}
  Gone = Gone
  Unborn = Unborn
  MaxStarts = 2
  MaxWrites = 1
  MaxMishaps = 1
  Callers = {c1, c2}
  Embedders = {e1}
  RerankPoolSize = 1
  NoEngine = NoEngine
  MaxCancels = 1
  MaxPanics = 1
  Sources = {"a", "b", "other"}
  ChunksOf <- ChunksOfSources
  EntitiesOf <- EntitiesOfSources
  OwnSources = {"a", "b"}
  SeedSources = {"a", "other"}
  Views = {"all", "chunks", "entities"}
  Tuning <- SmallTuning
  TotalLimit = 3
  VectorScores = {1, 2}
  TextScores = {1, 2}
  RerankScores = {0, 100, 101}
  MaxChanges = 1
  ParagraphOf <- QuestionParagraphs
  Unanswerable = {"q6"}
  CaseOrder <- ShuffledCases
  ParagraphOrder <- ShuffledParagraphs
  MixSubsets <- Mix
  SubsetOf <- SubsetOfParagraphs
  RawParagraphs <- Raw
  Restamped = {"squad"}
  NoStore = NoStore
  NoSum = NoSum
  Arguments <- CommandLines
  Catalog <- CatalogSlices
  DefaultSlice <- DefaultSlices
  SliceKeys <- Keys
  Namespaces = {"mix", "feverS", "squadS", "own"}
  Located = {"q1", "q2", "q3", "q5", "q7"}
  VectorDims <- ModelDims
  MigratedDims = 3
  DefaultLimit = 2
  CorpusFactor = 2
  CorpusCap = 4
  NoLedger = NoLedger
  Torn = Torn
  NoManifest = NoManifest
  NoSeed = NoSeed
  Ranks <- Outcomes
  MaxRuns = 3
  MaxFaults = 1
INVARIANT
  EntitiesScoreBest
CHECK_DEADLOCK FALSE
