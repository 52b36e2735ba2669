CONSTANTS
  Ids = {i1, i2}
  FetchctlIds = {}
  Digests = {g1, g2}
  Downloads = {d1, d2}
  NoDownload = NoDownload
  NoDigest = NoDigest
  NoId = NoId
  PermissiveMode = TRUE
  MaxSessions = 1
  MaxFaults = 1
SPECIFICATION Spec
SYMMETRY Symmetry
INVARIANTS StrictDelivery DeliveredRecorded
PROPERTY VerdictStable
CHECK_DEADLOCK FALSE
