SPECIFICATION Spec
CONSTANTS
  Requests = {r1, r2}
  Branches = {b1, b2}
  Passwords = {"p"}
  MaxFaults = 0
  Absent = Absent
  Unknown = Unknown
INVARIANTS AssignmentWasAsked
CHECK_DEADLOCK FALSE
