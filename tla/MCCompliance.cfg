SPECIFICATION Spec
CONSTANTS
  Slots = {s1, s2}
  Lone = Lone
  Workers = {w1, w2}
  Requests = {q1}
  AssessmentVersions = 2
  AuditEvents = 4
  NoticeVersions = 3
  ConsentEvents = 3
  Approvals = 3
  CoreQuestions = {"Q-VENDORS", "Q-DPA"}
  PackQuestions = {"Q-HLTH-RESEARCH", "Q-HLTH-RESEARCH-CONSENT"}
  GraphVendors = {1, 2, 3}
  SerialVendors = {1, 2}
  SerialRegistered = {1}
  SigningVendors = {1}
  EndingVendors = {1, 2}
  VendorProfiles = {p1, p2}
  ReviewOutcomes = {v1}
  PolicyControls = {"Notice", "SdfDpo"}
  RegistryControls = {"VendorInventory", "VendorDpa"}
  Frameworks = {1, 2}
  Codes = {"RIGHTS", "PROCESSOR"}
  None = None
SYMMETRY Symmetry
CHECK_DEADLOCK FALSE
INVARIANTS
  TypeOK
  HeldEventsAreChained
  CyclesNeedTwoRacingEdges
  RegistryIsSound
  JobsAreAccountable
  TrailsAreComplete
  GateIsSound
PROPERTY EvidenceNeverLowersScore
