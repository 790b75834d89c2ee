SPECIFICATION Spec
CONSTANTS
  Requests = {d1}
  Clients = {c1, c2}
  Internal = {crm}
  Vendors = {}
  MaxVersion = 3
  Workflows = {"erasure"}
CHECK_DEADLOCK FALSE
PROPERTY EraseWaitsForGate
