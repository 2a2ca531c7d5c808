SPECIFICATION FeedSpec
CONSTANTS
  p1 = p1
  Products = {p1}
  Requests = {r1, r2}
  NoTrx = NoTrx
  Batches <- MCBatches
  Patches <- MCPatches
  InitRows <- MCInitRows
  MaxInt = 5
  Workers = {w1, w2}
  BatchSize = 1
  MaxRows = 8
  MaxFaults = 0
SYMMETRY Symmetric
INVARIANT ConsumerAgreesWhenDrained
CHECK_DEADLOCK FALSE
