CONSTANTS
  app = app
  c1 = c1
  c2 = c2
  c3 = c3
  App <- app
  Callers <- TwoCallers
  Kinds <- WithDestroy
  Faults <- NoFaults
  Image = image
  NoImage = noimage
  NoRow = NoRow
  Nobody = Nobody
  MaxRelease = 2
  MaxInstance = 3
  CrashThreshold = 2
  WindowExpires = FALSE
  MaxStops = 0
SPECIFICATION Spec
CHECK_DEADLOCK FALSE
INVARIANT ServedAppExists
