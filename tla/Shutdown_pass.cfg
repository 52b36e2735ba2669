CONSTANTS
  Sessions = {s1, s2}
  Requests = {r1, r2, r3}
  Scenarios <- MCScenarios
  None = None
SPECIFICATION FairSpec
INVARIANTS NoCrash AllFinished OneBlocks
PROPERTIES ShutdownEnds IdleStops
CHECK_DEADLOCK FALSE
