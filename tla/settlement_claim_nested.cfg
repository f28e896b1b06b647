SPECIFICATION FairSpec
CONSTANTS
  Frontend = frontend
  Workers = {w1}
  MaxRetries = 1
  SettlementTries = 2
  StreamStates = {"content"}
  MaxFaults = 1
  NestedQuery = FALSE
PROPERTY
  IntentDrained
