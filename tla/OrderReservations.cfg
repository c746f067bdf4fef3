SPECIFICATION Spec
CONSTANTS
  Lines = {1, 2, 3}
  Goods <- SharedGoods
  Promises = {p1}
  NoPromise = NoPromise
  Requests = {r1, r2, r3}
  Ops = {"retry", "releaseHeld", "cancel"}
  Intents <- AllIntents
  OnTime = {p1}
  MayCrash = TRUE
SYMMETRY RequestSymmetry
INVARIANTS
  ReservationsBelong
  CancelledHoldsNoStock
PROPERTY ReleasedLinesReconfirmed
CHECK_DEADLOCK FALSE
