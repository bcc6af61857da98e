CONSTANTS
  r1 = r1
  Readers = {r1}
  Sinks <- TwoSinks
  RingSize = 2
  Buffer = 1
  RotateAt = 1
  KeepFiles = 2
  Tails = {1}
  DiskFails = TRUE
  MaxLines = 4
  MaxEnds = 1
SPECIFICATION Spec
CHECK_DEADLOCK FALSE
INVARIANT NothingIsMissed
INVARIANT LastIsNewest
INVARIANT NoReaderIsLeft
PROPERTY OnlyTheOldestIsLost
