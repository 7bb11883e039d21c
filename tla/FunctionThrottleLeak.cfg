SPECIFICATION Spec
CONSTANTS
  Callers = {c1, c2, c3}
  Limit = 1
INVARIANT ReleasedSlotIsUsable
