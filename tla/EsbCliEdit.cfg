\* `esb up` and a watcher, and two edits of the template; nothing fails.
SPECIFICATION CliLiveSpec
CONSTANTS
  None = none
  Empty = empty
  Templates <- MCEdits
  Parameters <- MCParameters
  MaxCommands = 1
  Commands = {"up"}
  MaxMishaps = 0
CHECK_DEADLOCK FALSE
PROPERTY EditIsApplied
