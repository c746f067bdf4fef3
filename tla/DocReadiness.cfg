SPECIFICATION Spec
CONSTANTS
  Requests = {r1}
  Messages = 0
  BootRetries = 1
  MaxStops = 1
  MaxFaults = 0
INVARIANTS
  NotReadyBeforeClosing
CHECK_DEADLOCK FALSE
