SPECIFICATION Spec
CONSTANTS
  p1 = p1
  p2 = p2
  Products = {p1, p2}
  Requests = {r1, r2, r3}
  NoTrx = NoTrx
  Batches <- MCBatches
  Patches <- MCPatches
  InitRows <- MCInitRows
  MaxInt = 3
INVARIANTS
  DecisionInv
  ReadsStayCurrent
  LatestEventIsCurrent
PROPERTY AtomicOperations
SYMMETRY Symmetric
CHECK_DEADLOCK FALSE
