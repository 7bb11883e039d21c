\* Two requests, a pool of two and one identity to spare: a worker can be paused,
\* taken or pruned while the other one is being resumed or replaced.
SPECIFICATION PauseSpec
CONSTANTS
  Requests = {r1, r2}
  Workers = {w1, w2, w3}
  MaxCapacity = 2
  NoWorker = none
INVARIANTS
  PausedAreOutOfUse
  FrozenServesOnlyAfterLostCall
  OnlyCancelledResumeLeaks
