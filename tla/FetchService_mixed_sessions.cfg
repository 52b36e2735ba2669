CONSTANTS
  Ids = {i1, i2}
  FetchctlIds = {i1}
  Digests = {g1}
  Downloads = {d1}
  NoDownload = NoDownload
  NoDigest = NoDigest
  NoId = NoId
  PermissiveMode = TRUE
  MaxSessions = 2
  MaxFaults = 0
SPECIFICATION Spec
INVARIANT RecordedInOwnSession
CHECK_DEADLOCK FALSE
