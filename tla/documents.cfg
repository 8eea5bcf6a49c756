SPECIFICATION DocumentsSpec
CONSTANTS
  Calls = {1, 2}
  u1 = u1
  u2 = u2
  Users = {u1, u2}
  Nobody = Nobody
  Nothing = Nothing
  MaxFaults = 2
  Digests = {"d1", "d2"}
  Parts = {1, 2}
  SeedFile = s0
  SeedOwner = u1
  SeedDigest = "d1"
  SeedContents = {k1}
  SeedJob = k2
  Forms <- SomeForms
  Limits <- SmallLimits
  MaxErrors = 2
  n1 = n1
  n2 = n2
  n3 = n3
  SeedEntities = {n1, n2, n3}
  EntityOwner <- OwnerOfSeed
  Source <- SourceOfSeed
  Selections <- SomeSelections
  MaxSuggestions = 2
  q0 = q0
  q1 = q1
  SeedChat = k0
  SeedAsked <- TwoQuestions
  ChatOwner = u1
  Pieces = 1
  i1 = i1
  i2 = i2
  RefOwner <- OwnerOfReference
  RawLists <- NamedReferences
  Contexts <- SomeContexts
  MaxReferences = 1
  MaxArchives = 1
INVARIANTS
  DocumentsTypeOK
  ContentKeepsFile
  UploadsAreWhole
  TenantsAreApart
  GraphsAreSound
  ReplaysOwnTurn
  OneAnswerPerQuestion
  SidebarsHaveReasons
PROPERTIES
  StreamsEnd
CHECK_DEADLOCK FALSE
