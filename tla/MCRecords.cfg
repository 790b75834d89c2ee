SPECIFICATION RecordsSpec
CONSTANTS
  Violations = {v1}
  Clients = {c1, c2}
  MaxVersion = 7
  Ahead = 0
  Tasks = {t1}
  Users = {a1, a2}
  Null = Null
  Requests = {d1}
  Internal = {crm}
  Vendors = {p1}
  MaxTaskVersion = 5
  MaxPatchVersion = 4
  MaxEraseVersion = 3
SYMMETRY Symmetry
CHECK_DEADLOCK FALSE
INVARIANTS
  RecordsTypeOK
  ClosedOnce
  AssigneeWasAnnounced
  RequestsAreAccountable
PROPERTIES
  TerminalIsImmutable
  RecordsFollowLifecycles
  VerifiedAndCompletedOnce
  LifecycleOrErase
  ConfirmationsAreKept
