SPECIFICATION FairSpec
CONSTANTS
  Requests = {r1, r2, r3}
  Limit = 1
  Interval = 4
  Second = 2
  CallTime = 1
INVARIANTS
  OneMissTolerated
  ClusterCap
  OverrunBounded
PROPERTIES
  LeakHeals
