CONSTANTS
  Ids = {i1, i2}
  FetchctlIds = {}
  Digests = {g1}
  Downloads = {d1}
  NoDownload = NoDownload
  NoDigest = NoDigest
  NoId = NoId
  PermissiveMode = FALSE
  MaxSessions = 2
  MaxFaults = 0
SPECIFICATION FairSpec
INVARIANT RecordedInOwnSession
PROPERTIES SessionsEnd DownloadsEnd
CHECK_DEADLOCK FALSE
