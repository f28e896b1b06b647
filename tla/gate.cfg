SPECIFICATION Spec
CONSTANTS
  Windows = {0, 2}
  MaxBuffer = 3
  MaxFrames = 5
INVARIANTS
  WriteAhead
  DiscardedIsSilent
  InOrder
CHECK_DEADLOCK FALSE
