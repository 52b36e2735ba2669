CONSTANTS
  None = None
  rel = rel
  relNext = relNext
  relForged = relForged
  pkg = pkg
  pkgForged = pkgForged
  pkgBad = pkgBad
  deb = deb
  debForged = debForged
  text = text
  textOpen = textOpen
  cmds = cmds
  relBlank = relBlank
  debBlank = debBlank
  Files <- MCFiles
  Content <- MCContent
  CfgNames = {"archive", "mirror"}
  Config <- MCConfig
  Urls <- MCUrls
  Serves <- MCServes
  Policies = {TRUE, FALSE}
  Downloads = {d1, d2, d3}
SPECIFICATION Spec
SYMMETRY Symmetry
INVARIANTS IndexVouched DebVouched
CHECK_DEADLOCK FALSE
