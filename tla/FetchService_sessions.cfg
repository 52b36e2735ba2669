CONSTANTS
  Ids = {i1, i2}
  FetchctlIds = {i1}
  Digests = {g1}
  Downloads = {d1}
  NoDownload = NoDownload
  NoDigest = NoDigest
  NoId = NoId
  PermissiveMode = FALSE
  MaxSessions = 2
  MaxFaults = 1
SPECIFICATION Spec
INVARIANTS TypeOK 
CHECK_DEADLOCK FALSE
