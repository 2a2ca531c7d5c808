SPECIFICATION Spec
CONSTANTS
  p1 = p1
  p2 = p2
  Products = {p1, p2}
  Requests = {r1, r2}
  NoTrx = NoTrx
  Batches <- DupBatches
  Patches <- MCPatches
  InitRows <- MCInitRows
  MaxInt = 3
PROPERTY ReservedInFull
CHECK_DEADLOCK FALSE
