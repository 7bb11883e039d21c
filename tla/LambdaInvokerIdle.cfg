SPECIFICATION InvokerSpec
CONSTANTS
  Requests = {r1, r2}
  Workers = {w1, w2}
  MaxCapacity = 1
  NoWorker = none
  FailureThreshold = 2
  RecoveryTimeout = 1
INVARIANT IdleWorkersWait
