\* One crash strands a task in Failed.
SPECIFICATION FairSpec
CONSTANTS
  Tasks = {t1}
  Workers = {w1}
  NoWorker = NoWorker
  NoTask = NoTask
  MaxAttempts = 2
  Lease = 2
  RetryBaseDelay = 1
  RetryCapExponent = 1
  RetryMaxDelay = 2
  Horizon = 0
  PersistAttempts = 1
  MaxStay = 1
  MaxFaults = 1
PROPERTY
  FailedMovesOn
