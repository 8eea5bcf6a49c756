\* Two workers that find the same rebuild due.
SPECIFICATION Spec
CONSTANTS
  Clients = {c1}
  Workers = {w1, w2}
  Fields = {embedding}
  EmbeddingField = embedding
  Values = {v1}
  None = None
  Interval = 1
  LeaseTtl = 2
  MaxRebuild = 2
  MaxUpdates = 0
  MaxFaults = 0
PROPERTIES
  RebuildsOnlyWhenDue
