SPECIFICATION FairSpec
CONSTANTS
  MaxRetries = 2
  MaxRecovery = 2
  FrameSizes = {1, 2}
  Settings <- AllSettings
INVARIANTS
  NoRepeat
  LatchedEndsOnce
  Answered
  WholeAnswer
PROPERTIES
  RunEnds
CHECK_DEADLOCK FALSE
