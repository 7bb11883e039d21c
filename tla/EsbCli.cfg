\* Two commands and one edit of the template, with two mishaps (a failing step, an
\* interruption, a deleted file), beside a watcher that comes and goes.  The system
\* rests when the developer does.
SPECIFICATION Spec
CONSTANTS
  None = none
  Empty = empty
  Templates <- MCTemplates
  Parameters <- MCParameters
  MaxCommands = 2
  Commands = {"init", "build", "dry", "up", "upbuild", "down", "reset"}
  MaxMishaps = 2
CHECK_DEADLOCK FALSE
INVARIANTS
  ChainHolds
  
  BuildIsComplete
  ReadyMeansProvisioned
