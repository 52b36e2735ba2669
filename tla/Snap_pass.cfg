CONSTANTS
  None = None
  RootKey = "root"
  Filter <- MCFilter
  Files <- MCFiles
  Content <- MCContent
  Urls <- MCUrls
  Asks <- MCAsks
  Serves <- MCServes
  Stores <- MCStores
  Policies = {TRUE, FALSE}
  Outages = {TRUE}
  MaxDepth = 5
  Downloads = {"one", "two"}
SPECIFICATION Spec
INVARIANTS CacheVouched VerdictOfChain SnapVouched RefreshAsked
PROPERTY VerificationEnds
CHECK_DEADLOCK FALSE
