SPECIFICATION Spec
CONSTANTS
  Lines = {1, 2}
  Goods <- DifferentGoods
  Promises = {p1}
  NoPromise = NoPromise
  Requests = {r1, r2, r3}
  Ops = {"retry", "releaseHeld", "cancel"}
  Intents <- AllIntents
  OnTime = {p1}
  MayCrash = FALSE
SYMMETRY RequestSymmetry
INVARIANT ReleasedNotRevoked
CHECK_DEADLOCK FALSE
