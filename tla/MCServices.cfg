SPECIFICATION MCSpec
CONSTANTS
  Calls = {c1, c2, c3}
  MaxFaults = 1
  None = None
  Visits = {s1, s2}  Processes = {i1}
  AccessLife = 2  RefreshLife = 2  CacheLife = 2  MaxTime = 3  MaxChanges = 1
  Products = {p1, p2}  Branches = {b1, b2}  Home <- MCHome
  Opened = {b1}  Old = p1  OldHome = "r1"
  Keys = {k1, k2}  Instances = {i1, i2}  MaxLosses = 2
  i1 = i1  k1 = k1  p1 = p1  b1 = b1  b2 = b2
SYMMETRY Symmetric
INVARIANTS
  ServicesInv MediaInv ReadyIsBacked
  ClaimsExpire PermissionsExpire KeptApart
  ProvisionedExactly CatalogStaysHome HalfDoneOnlyWithoutRow
  RepeatsHaveACause
PROPERTIES DeletedStays ForeignBranchesUntouched
CHECK_DEADLOCK FALSE
