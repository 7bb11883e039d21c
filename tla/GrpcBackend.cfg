\* Three callers on one slot: a holder and a queue of two; one container may be
\* left over while another is in use.
SPECIFICATION BackendLiveSpec
CONSTANTS
  Callers = {c1, c2, c3}
  Limit = 1
  Workers = {w1, w2}
  NoWorker = none
  IdleTimeout = 2
  UseBound = 1
INVARIANTS
  LimitHolds
  QueueExact
  HeldContainersExist
  SlotsAccountedFor
PROPERTIES
  ServedInOrder
  UnusedContainersGo
