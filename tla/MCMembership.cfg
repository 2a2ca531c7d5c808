SPECIFICATION Spec
CONSTANTS
  Requests = {r1, r2, r3}
  Branches = {b1, b2}
  Passwords = {w1, w2}
  MaxFaults = 1
  Absent = Absent
  Unknown = Unknown
SYMMETRY Symmetric
INVARIANTS NoOrphanAssignments ReplacementIsExact  MembershipInv
PROPERTIES RemovalIsFinal SpentCodeIsDead
CHECK_DEADLOCK FALSE
