SPECIFICATION Spec
CONSTANTS
  Streams = {s1}
  Sweepers = {x1}
  MaxFaults = 0
PROPERTY
  SweeperSparesAnswers
CHECK_DEADLOCK FALSE
