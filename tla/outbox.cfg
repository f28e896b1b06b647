SPECIFICATION FairSpec
CONSTANTS
  NumEvents = 2
  Poison = {1}
  Dispatchers = {d1, d2}
  Replayers = {r1}
  Scripts = {o1}
  MaxAttempts = 2
  MaxFaults = 1
  Nobody = Nobody
INVARIANTS
  OneDelivery
  SentIsLeftAlone
  
PROPERTIES
  KeepsQueuePromise
  Drained
