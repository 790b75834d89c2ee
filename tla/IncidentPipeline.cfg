SPECIFICATION FairSpec
CONSTANTS
  Results = {r1}
  SourceKeys = {k1}
  Violations = {v1, v2}
  Slots = {h1, h2}
  MaxDeliveries = 2
  MaxCrashes = 1
  MaxByHand = 1
  NoCause = NoCause
  Unopened = Unopened
CHECK_DEADLOCK FALSE
INVARIANTS TypeOK NoDuplicates RowsMatchEvents
PROPERTIES ImplementsIncident FailureIsRemediated
