SPECIFICATION Spec
CONSTANTS
  EventIds = {e1, e2}
  Length = 2
  MaxAttempts = 3
  MaxRestarts = 1
INVARIANT ConflictsNotDropped
CHECK_DEADLOCK FALSE
