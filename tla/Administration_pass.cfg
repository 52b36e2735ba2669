CONSTANTS
  None = None
  Blank = Blank
  Sections <- MCSections
  BundledAcl <- MCBundledAcl
  BundledInspectors <- MCBundledInspectors
  Installs = {TRUE, FALSE}
  Clients = {c1, c2}
  Documents <- MCDocuments
  Scenarios <- MCScenarios
  FirstAcls <- MCFirstAcls
  FirstInspectors <- MCFirstInspectors
  FirstCert <- MCFirstCert
  Addresses = {"public", "private"}
  SecretLists <- MCSecretLists
  Tunnels = {TRUE, FALSE}
  Requests <- MCRequests
  MaxFaults = 1
  MaxCrashes = 1
SPECIFICATION Spec
INVARIANTS AckedSurvives Startable RestartKeepsAccess CallerReplaced
PROPERTY OperationsAnswered
CHECK_DEADLOCK FALSE
