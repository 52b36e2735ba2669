CONSTANTS
  None = None
  adv = adv
  mainRefs = mainRefs
  otherRefs = otherRefs
  badRefs = badRefs
  crafted = crafted
  broken = broken
  module = module
  deep = deep
  cut = cut
  page = page
  Bodies <- MCBodies
  Content <- MCContent
  Requests <- MCRequests
  Serves <- MCServes
  Policies = {TRUE, FALSE}
  Downloads = {d1, d2, d3}
SPECIFICATION Spec
SYMMETRY Symmetry
INVARIANTS OneCommit VersionTag CacheLeft
CHECK_DEADLOCK FALSE
