\* Two requests, a pool of two and one container identity to spare: a container
\* can be an orphan while both others are leased.
SPECIFICATION ManagerLiveSpec
CONSTANTS
  Requests = {r1, r2}
  Workers = {w1, w2, w3}
  MaxCapacity = 2
  NoWorker = none
  GracePeriod = 2
  ProvisionBound = 1
  MaxAbandoned = 1
  MaxCrashes = 1
INVARIANTS
  KnownWorkersExist
  StartingContainersExist
  TargetsUnreachable
PROPERTY OrphansDisappear
