\* Four requests contend for a pool of two; two identities to spare, so that a
\* worker can be replaced while others are still leased.
SPECIFICATION LiveSpec
CONSTANTS
  Requests = {r1, r2, r3, r4}
  Workers = {w1, w2, w3, w4}
  MaxCapacity = 2
  NoWorker = none
INVARIANTS
  TypeOK
  CapacityBound
  ExclusiveLease
  LedgerExact
  NoStrandedWaiter
PROPERTIES
  ImplementsWorkerLease
  WaiterWoken
