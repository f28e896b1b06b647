SPECIFICATION Spec
CONSTANTS
  MaxRetries = 2
  MaxRecovery = 2
  FrameSizes = {1, 2}
  Settings <- UnlatchedOnly
INVARIANTS
  EndsOnce
CHECK_DEADLOCK FALSE
