SPECIFICATION Spec
CONSTANTS
  Holders = {a, b}
  Requests = {r1, r2}
  Limit = 2
  Second = 3
  Gate = 3
  HardCap = 3
  TTLs = {3, 6}
  FirstTTL = 3
  ReclaimIdle = 3
  NoHolder = NoHolder
  NoSlot = NoSlot
INVARIANTS
  FreshLeaseOwns
PROPERTIES
  ActiveKept
  SaturatedIsReal
SYMMETRY Symmetry
