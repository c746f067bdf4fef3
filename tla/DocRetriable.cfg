SPECIFICATION Spec
CONSTANTS
  Lines = {1, 2}
  Goods <- DifferentGoods
  Promises = {p1}
  NoPromise = NoPromise
  Requests = {r1, r2}
  Ops = {"retry"}
  Intents <- AllIntents
  OnTime = {p1}
  MayCrash = FALSE
SYMMETRY RequestSymmetry
INVARIANT PendingOrdersRetriable
CHECK_DEADLOCK FALSE
