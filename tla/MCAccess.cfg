SPECIFICATION AccessSpec
CONSTANTS
  Tokens = {1, 2}
  Slots = {s1, s2}
  Kinds = {"federated", "refresh", "role", "presets", "request", "logout"}
  MaxChanges = 2
  MaxChallenges = 0
  RedisMayFail = FALSE
  RotationTokens = {1, 2, 3, 4}
  MaxVerify = 2
  MaxResends = 2
  MaxCodes = 3
  Subject = "d1"
  Subjects = {"d1", "d2"}
  Mapped = {1, 2}
  DefaultRole = 3
  None = None
CHECK_DEADLOCK FALSE
INVARIANTS
  AccessTypeOK
  RotationForksBounded
  ChallengesAreSound
PROPERTIES
  DisabledStaysDisabled
  DirectoryRolesSettle
  StaleEntriesExpire
