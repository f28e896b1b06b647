SPECIFICATION FairSpec
CONSTANTS
  Frontend = frontend
  Workers = {w1, w2}
  MaxRetries = 1
  SettlementTries = 2
  StreamStates = {"content"}
  MaxFaults = 1
  NestedQuery = TRUE
INVARIANTS
  NoReplayAfterContent
  SoleAuthor
  FencingTokensUnique
  ResultOfLastClaim
  ProjectionNotLost
  ProjectionFaithful
  RetryBudget
PROPERTIES
  SettledForever
  FollowsTransitionMatrix
  TaskSettles
  IntentDrained
  ResultPublished
  KeepsContract
