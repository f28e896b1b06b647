SPECIFICATION FairSpec
CONSTANTS
  Streams = {s1, s2}
  Sweepers = {x1, x2}
  MaxFaults = 2
PROPERTIES
  PlaceholderResolved
  PollersAnswered
  OnlyStreamsWait
CHECK_DEADLOCK FALSE
