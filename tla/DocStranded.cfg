SPECIFICATION Spec
CONSTANTS
  Requests = {r1}
  Messages = 0
  BootRetries = 1
  MaxStops = 1
  MaxFaults = 0
INVARIANTS
  NotStranded
CHECK_DEADLOCK FALSE
