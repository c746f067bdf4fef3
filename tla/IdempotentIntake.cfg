SPECIFICATION Spec
CONSTANTS
  Requests = {r1, r2, r3}
  Keys = {k1, k2}
  Bodies = {b1, b2}
  MaxConns = 2
  None = None
INVARIANTS
  TypeOK
  OneOrderPerKey
  RetriesAgree
  ReplayFindsOutcome
PROPERTY EveryRequestEnds
CHECK_DEADLOCK FALSE
