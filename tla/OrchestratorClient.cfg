\* A leader, two followers that can disturb each other, and a late-comer.  Calls
\* may wait for ever, and then nothing is left to do.
SPECIFICATION Spec
CONSTANTS
  Calls = {c1, c2, c3, c4}
  Hosts = {h1, h2}
  None = none
CHECK_DEADLOCK FALSE
INVARIANTS
  OneAsks
  OutcomesAgree
PROPERTY FollowersEnd
