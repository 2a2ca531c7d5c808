SPECIFICATION Spec
CONSTANTS
  Calls = {c1, c2}
  Keys = {k1}
  Instances = {i1}
  MaxFaults = 0
  Nothing = Nothing
SYMMETRY Symmetric
INVARIANT SuccessMeansDone
CHECK_DEADLOCK FALSE
