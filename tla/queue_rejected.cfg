\* Two workers and a validation failure.
SPECIFICATION Spec
CONSTANTS
  Tasks = {t1}
  Workers = {w1, w2}
  NoWorker = NoWorker
  NoTask = NoTask
  MaxAttempts = 2
  Lease = 2
  RetryBaseDelay = 1
  RetryCapExponent = 1
  RetryMaxDelay = 2
  Horizon = 0
  PersistAttempts = 1
  MaxStay = 1
  MaxFaults = 0
PROPERTY
  RejectedIsBuried
