SPECIFICATION Spec
CONSTANTS
  Runs = {r1}
  Rules = {u1}
  Switchable = {u1}
  Executors = {x1}
  MaxAttempts = 3
  FaultKinds = {"readback"}
  MaxFaults = 1
  Nobody = Nobody
CHECK_DEADLOCK FALSE
PROPERTY TerminalRunIsFinal
