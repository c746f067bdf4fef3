SPECIFICATION Spec
CONSTANTS
  Lines = {1, 2}
  Goods <- DifferentGoods
  Promises = {p1}
  NoPromise = NoPromise
  Requests = {r1, r2, r3, r4}
  Ops = {"retry", "releaseHeld", "cancel"}
  Intents <- ShipCompleteIntents
  OnTime = {p1}
  MayCrash = FALSE
SYMMETRY RequestSymmetry
INVARIANTS
  ReservationsBelong
  CancelledHoldsNoStock
PROPERTY ReleasedLinesReconfirmed
CHECK_DEADLOCK FALSE
