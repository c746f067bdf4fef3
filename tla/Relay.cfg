SPECIFICATION Spec
CONSTANTS
  Writers = {w1, w2}
  Orders = {o1, o2}
  Relays = {p1, p2}
  BatchSize = 2
  MaxRows = 3
  MaxFaults = 1
INVARIANTS
  TypeOK
  PublishedSentCommitted
  OrderPreservedAlone
PROPERTIES
  PublishedNotResent
  EventuallyPublished
CHECK_DEADLOCK FALSE
