SPECIFICATION Spec
CONSTANTS
  Writers = {w1, w2}
  Orders = {o1}
  Relays = {p1, p2}
  BatchSize = 2
  MaxRows = 3
  MaxFaults = 0
INVARIANT OrderPreserved
CHECK_DEADLOCK FALSE
