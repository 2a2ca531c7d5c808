SPECIFICATION FeedSpec
CONSTANTS
  p1 = p1
  Products = {p1}
  Requests = {r1, r2, r3}
  NoTrx = NoTrx
  Batches <- MCBatches
  Patches <- MCPatches
  InitRows <- MCInitRows
  MaxInt = 5
  Workers = {w1}
  BatchSize = 2
  MaxRows = 8
  MaxFaults = 1
SYMMETRY Symmetric
INVARIANTS ConsumerAgreesWhenDrained FeedInv
CHECK_DEADLOCK FALSE
