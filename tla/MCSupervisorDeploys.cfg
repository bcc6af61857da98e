CONSTANTS
  app = app
  c1 = c1
  c2 = c2
  c3 = c3
  App <- app
  Callers <- TwoCallers
  Kinds <- Deploys
  Faults <- NoFaults
  Image = image
  NoImage = noimage
  NoRow = NoRow
  Nobody = Nobody
  MaxRelease = 3
  MaxInstance = 3
  CrashThreshold = 2
  WindowExpires = FALSE
  MaxStops = 2
SYMMETRY Symmetry
SPECIFICATION Spec
CHECK_DEADLOCK FALSE
INVARIANT ServesLive
INVARIANT VerdictMatchesRow
INVARIANT StatusIsTrue
INVARIANT NoOrphan
INVARIANT OpenRowIsOwned
PROPERTY CleanExit
PROPERTY NeverStopsRouted
