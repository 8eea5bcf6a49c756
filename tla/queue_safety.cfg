\* Two tasks, two workers that may outstay their leases, one fault.
\* TLC needs Lease = 1 only: MaxStay = 2 lets a worker sleep through the
\* whole lease of the worker that replaces it.
\* Tasks and workers are interchangeable.  Enrichment: three runs of two jobs.
SPECIFICATION IngestionSpec
CONSTANTS
  Tasks = {t1, t2}
  Workers = {w1, w2}
  NoWorker = NoWorker
  NoTask = NoTask
  MaxAttempts = 2
  Lease = 1
  RetryBaseDelay = 1
  RetryCapExponent = 1
  RetryMaxDelay = 2
  Horizon = 0
  PersistAttempts = 2
  MaxStay = 2
  MaxFaults = 1
  u1 = u1
  u2 = u2
  d1 = d1
  d2 = d2
  k1 = k1
  k2 = k2
  Runs = {1, 2, 3}
  Documents = {d1, d2}
  DocumentOf <- JobOfRun
  OwnerOf <- UserOfJob
  OldEntities <- EntitiesOfOthers
  Keys = {k1, k2}
  Replies <- AnswersOfModels
  NoRun = NoRun
  MaxDeletions = 1
SYMMETRY Symmetry
INVARIANTS
  TypeOK
  OwnerIsCurrent
  SuccessHasContent
  ExhaustedIsBeingBuried
  SnapshotsAreWhole
