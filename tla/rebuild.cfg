\* Two workers whose rebuilds may outlast the lease by two units, an update,
\* a fault.
SPECIFICATION FairSpec
CONSTANTS
  Clients = {c1}
  Workers = {w1, w2}
  Fields = {embedding}
  EmbeddingField = embedding
  Values = {v1, v2}
  None = None
  Interval = 2
  LeaseTtl = 1
  MaxRebuild = 3
  MaxUpdates = 1
  MaxFaults = 1
INVARIANTS
  RebuildTypeOK
  InitialRebuildWaits
  OneRebuildAtATime
PROPERTIES
  LeaseLostOnlyWhenOver
  RebuildsRecur
