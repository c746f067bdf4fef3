SPECIFICATION Spec
CONSTANTS
  DayLength = 4
  SearchDays = 14
  DefaultPath <- Pick
  PathOrder <- MCPathOrder
  NoPath = NoPath
  Unknown = Unknown
  Malformed = Malformed
  Orders <- MCOrders
  Instants = {5, 8}
  Definitions <- MCDefinitions
  Schedules <- MCSchedules
  Capacities <- MCCapacities
  LeadTimeFor <- MCLeadTimeFor
  Horizon = 3
  MaxChanges = 0
INVARIANTS
  GroupedByPromise
CHECK_DEADLOCK FALSE
