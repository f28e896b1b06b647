SPECIFICATION FairSpec
CONSTANTS
  Keys = {k1, k2, k3}
  NoHandler = {k3}
  Dispatchers = {d1, d2}
  MaxAttempts = 2
  BatchSize = 2
  MaxSlow = 1
  MaxFaults = 1
INVARIANTS
  SentWasHandled
  GivenUpAfterBudget
PROPERTIES
  TerminalIsFinal
  TaskFinishes
CHECK_DEADLOCK FALSE
