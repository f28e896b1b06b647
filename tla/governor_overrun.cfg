SPECIFICATION Spec
CONSTANTS
  Requests = {r1, r2}
  Limit = 1
  Interval = 4
  Second = 2
  CallTime = 1
INVARIANT
  NeverUnheld
