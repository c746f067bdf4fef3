SPECIFICATION Spec
CONSTANTS
  Lines = {1, 2}
  Goods <- DifferentGoods
  Promises = {early, late}
  NoPromise = NoPromise
  Requests = {r1, r2, r3}
  Ops = {"retry", "releaseHeld", "cancel", "repromise"}
  Intents <- AllIntents
  OnTime = {early}
  MayCrash = TRUE
SYMMETRY RequestSymmetry
INVARIANTS
  TypeOK
  ShipCompleteTogether
  ReleasedAnnouncedOnce
  HeldUntilReleased
  VersionGuardSuffices
  AllocatedLinesPromised
  DeadlineKept
PROPERTIES
  ChangesCarryEvents
  ImplementsContract
CHECK_DEADLOCK FALSE
