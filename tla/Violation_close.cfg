CONSTANTS
  Violations = {v1}
  Clients = {c1}
  MaxVersion = 7
  Ahead = 0
SPECIFICATION Spec
CHECK_DEADLOCK FALSE
INVARIANT ClosesGoThroughClose
