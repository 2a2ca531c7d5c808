SPECIFICATION FairSpec
CONSTANTS
  Workers = {w1, w2}
  Aggregates = {a1, a2}
  BatchSize = 2
  MaxRows = 3
  MaxFaults = 1
INVARIANTS
  DuplicatesInv
  OnlyCommittedPublished
  RetiredWasPublished
  ClaimsExclusive
  DuplicatesBounded
PROPERTY EveryEventDispatched
CHECK_DEADLOCK FALSE
