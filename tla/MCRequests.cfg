SPECIFICATION MCSpec
CONSTANTS
  Users = {u1, u2}
  Calls = {c1, c2, c3}
  MaxRows = 3
  None = None
  Lookups = {q1, q2}  Updates = {w1, w2}  Suspensions = {s1}
  Forms <- MCForms  PoolMax = 2  MaxFaults = 1
  Restaurants = {r1, r2, r3}  Keys <- MCKeys  Asked <- MCAsked
  MaxLimit = 2  MaxWrites = 1
  c1 = c1  c2 = c2  u1 = u1
INVARIANTS
  RequestsInv AddressesInv OneDefault
  StaleOnlyByRacingFill AnswersAreTrue SkipsOnlyTies
PROPERTIES OthersUntouched EntriesConverge EveryRegistrationAnswered
CHECK_DEADLOCK FALSE
