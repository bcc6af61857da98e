CONSTANTS
  app = app
  c1 = c1
  c2 = c2
  c3 = c3
  App <- app
  Callers <- OneCaller
  Kinds <- OnlyRestart
  Faults <- NoFaults
  Image = image
  NoImage = noimage
  NoRow = NoRow
  Nobody = Nobody
  MaxRelease = 1
  MaxInstance = 3
  CrashThreshold = 3
  WindowExpires = FALSE
  MaxStops = 0
SPECIFICATION FairSpec
CHECK_DEADLOCK FALSE
PROPERTY DeathIsHandled
