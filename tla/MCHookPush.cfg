CONSTANTS
  p1 = p1
  p2 = p2
  p3 = p3
  Pushes <- TwoPushes
  NoCommit = nocommit
  Nobody = nobody
  MaxStops = 1
SPECIFICATION FairSpec
CHECK_DEADLOCK FALSE
INVARIANT RefWasLive
INVARIANT VerdictIsTrue
INVARIANT UnrecordedIsExplained
PROPERTY DeployIsAdmitted
PROPERTY PushEnds
PROPERTY ShutdownEnds
