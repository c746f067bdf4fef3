SPECIFICATION Spec
CONSTANTS
  Caches <- BootOrder
  Partitions = {"p1", "p2", "q1"}
  ReadBy <- BootReadBy
  KeysIn <- BootKeys
  Values = {v}
  Gone = Gone
  MaxMessages = 2
  MaxFaults = 1
INVARIANTS
  ServingIsReplayed
PROPERTIES
  BootCompletes
  CachesConverge
CHECK_DEADLOCK FALSE
