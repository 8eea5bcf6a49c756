\* No worker stays in a phase for as long as the lease (MaxStay < Lease).
SPECIFICATION FairSpec
CONSTANTS
  Tasks = {t1, t2}
  Workers = {w1, w2}
  NoWorker = NoWorker
  NoTask = NoTask
  MaxAttempts = 2
  Lease = 2
  RetryBaseDelay = 1
  RetryCapExponent = 1
  RetryMaxDelay = 2
  Horizon = 1
  PersistAttempts = 2
  MaxStay = 1
  MaxFaults = 1
INVARIANT
  OneRunPerTask
PROPERTIES
  KeepsContract
  JobsOutliveFaults
