SPECIFICATION FairSpec
CONSTANTS
  Runs = {r1}
  Rules = {u1, u2}
  Switchable = {u1}
  Executors = {x1, x2}
  MaxAttempts = 3
  FaultKinds = {"trigger", "infra", "readback", "crash", "stall"}
  MaxFaults = 3
  Nobody = Nobody
CHECK_DEADLOCK FALSE
INVARIANTS TypeOK RunsAreAccountable FailureReportedOnce
PROPERTIES CompletedRunIsKept QueuedRunsComplete
