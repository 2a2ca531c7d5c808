SPECIFICATION FairSpec
CONSTANTS
  p1 = p1
  p2 = p2
  Products = {p1, p2}
  Requests = {r1, r2, r3}
  NoTrx = NoTrx
  Batches <- CrossBatches
  Patches <- OnePatch
  InitRows <- MCInitRows
  MaxInt = 3
PROPERTY EveryRequestAnswered
CHECK_DEADLOCK FALSE
