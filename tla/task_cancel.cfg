\* mark_cancelled against its doc comment.
SPECIFICATION TaskSpec
CONSTANTS
  Tasks = {t1, t2}
  Workers = {w1, w2}
  NoWorker = NoWorker
  MaxAttempts = 3
  Lease = 2
  RetryBaseDelay = 1
  RetryCapExponent = 1
  RetryMaxDelay = 2
  Horizon = 2
INVARIANT
  CancelAcceptsUnfinished
