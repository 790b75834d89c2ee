CONSTANTS
  Events = {e1}
  Relays = {r1, r2}
  MaxAttempts = 2
  BatchSize = 2
  FaultKinds = {"handler"}
  MaxFaults = 1
  NoEvent = NoEvent
SPECIFICATION FairSpec
CHECK_DEADLOCK FALSE
PROPERTIES DeliveredAtLeastOnce
