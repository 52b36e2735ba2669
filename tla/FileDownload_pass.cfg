CONSTANTS
  Blocks = 3
  PipeSize = 1
SPECIFICATION FairSpec
INVARIANTS WholeContent NothingEarly
PROPERTIES ClientAnswered 
CHECK_DEADLOCK FALSE
