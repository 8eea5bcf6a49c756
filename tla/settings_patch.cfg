\* Two administrators or start-ups, and a worker on a new database: the
\* shortest counterexample takes back the checkpoint the worker seeded.
SPECIFICATION Spec
CONSTANTS
  Clients = {c1, c2}
  Workers = {w1}
  Fields = {registrations, embedding}
  EmbeddingField = embedding
  Values = {v1, v2}
  None = None
  Interval = 1
  LeaseTtl = 1
  MaxRebuild = 1
  MaxUpdates = 2
  MaxFaults = 0
PROPERTIES
  PatchIsPartial
