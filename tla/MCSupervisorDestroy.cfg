CONSTANTS
  app = app
  c1 = c1
  c2 = c2
  c3 = c3
  App <- app
  Callers <- TwoCallers
  Kinds <- RestartDestroy
  Faults <- NoFaults
  Image = image
  NoImage = noimage
  NoRow = NoRow
  Nobody = Nobody
  MaxRelease = 2
  MaxInstance = 2
  CrashThreshold = 2
  WindowExpires = TRUE
  MaxStops = 1
SPECIFICATION FairSpec
CHECK_DEADLOCK FALSE
PROPERTY EveryCallEnds
INVARIANT DestroyedIsGone
