SPECIFICATION Spec
CONSTANTS
  Requests = {r1, r2}
  Messages = 2
  BootRetries = 2
  MaxStops = 1
  MaxFaults = 1
INVARIANTS
  TypeOK
  QuietBeforeClose
  OffsetsFollowEffects
PROPERTIES
  StopsInTheEnd
  WorkSurvivesRestarts
CHECK_DEADLOCK FALSE
