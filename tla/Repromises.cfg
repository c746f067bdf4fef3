SPECIFICATION Spec
CONSTANTS
  EventIds = {e1, e2}
  Length = 3
  MaxAttempts = 3
  MaxRestarts = 1
INVARIANTS
  TypeOK
  AppliedOnce
  CommittedAccounted
PROPERTY PartitionNeverBlocked
CHECK_DEADLOCK FALSE
