CONSTANTS
  Events = {e1, e2}
  Relays = {r1, r2}
  MaxAttempts = 2
  BatchSize = 2
  FaultKinds = {"crash", "publish", "mark", "handler", "stall"}
  MaxFaults = 2
  NoEvent = NoEvent
SPECIFICATION Spec
SYMMETRY Symmetry
CHECK_DEADLOCK FALSE
INVARIANTS TypeOK OneMarkerPerRow StuckOnlyByFaults
PROPERTIES PublishedIsFinal ImplementsDelivery
